---------------------------- MODULE PeerAccounting ----------------------------
(***************************************************************************)
(* How wireguardd turns the kernel's volatile transfer counters into a     *)
(* durable lifetime total per peer row, and how it enforces a traffic      *)
(* quota on that total.                                                    *)
(*                                                                         *)
(* One managed interface.  The reconciler (internal/reconcile) is one      *)
(* process: its mutex mu serialises runs, so a run is a walk of one        *)
(* program counter.  Within a run the peers slice is a snapshot; API       *)
(* handlers (internal/api/handlers_peers.go) take no lock and write the    *)
(* database between any two steps of the run.  A handler that reads a row  *)
(* and later writes it back is two steps.  After its write every handler   *)
(* but reset-traffic calls ForceReconcile, which is RunBegin: always       *)
(* possible when no run is in progress.                                    *)
(*                                                                         *)
(* One transfer direction stands for rx and tx, which the code treats by   *)
(* the same statements; all expires_at values are one instant, and late    *)
(* says whether it has passed.                                             *)
(***************************************************************************)
EXTENDS Integers, FiniteSets

CONSTANTS
    Pub,        \* public keys
    NoPub,      \* "no such row"
    MaxId,      \* bound: peer rows ever inserted (AUTOINCREMENT ids)
    MaxBytes,   \* bound: bytes the interface ever carries
    Limits,     \* traffic_limit_bytes values requests use; 0 is unlimited
    Handler,    \* concurrent API requests
    Ops,        \* the API requests and clock steps of an instance
    Faults      \* the failures of an instance

AllOps == {"delete", "suspend", "patch", "reset", "rotate", "expire"}

AllFaults == {"restart", "recreate", "store", "list", "backend"}

ASSUME PubAssumption == NoPub \notin Pub
ASSUME PubFinite == IsFiniteSet(Pub)    \* a key is 32 bytes
ASSUME BoundAssumption == MaxId \in Nat /\ MaxBytes \in Nat
ASSUME LimitsAssumption == Limits \subseteq Nat
ASSUME OpsAssumption == Ops \subseteq AllOps /\ Faults \subseteq AllFaults

Id == 1..MaxId

VARIABLES
    (* state.db *)
    peers,       \* peers[id]: the row, NoRow when there is none
    lastId,      \* sqlite_sequence
    late,        \* the clock has passed expires_at
    (* the kernel *)
    kern,        \* kern[p]: "absent", "closed" (no AllowedIPs) or "open"
    raw,         \* raw[p]: the kernel's transfer counter
    (* the reconciler *)
    prevSample,  \* prevSample[p]: last sampled counter, NoSample when none
    pc, snap, todo, dev,
    (* API requests in flight *)
    req,
    (* observation only *)
    carried,     \* bytes carried so far
    owner,       \* owner[p]: the last row that held key p, 0 when none
    bill         \* bill[id]: bytes the kernel counted on the row's keys

dbVars   == <<peers, lastId, late>>
kernVars == <<kern, raw>>
runVars  == <<prevSample, pc, snap, todo, dev>>
ghosts   == <<carried, owner, bill>>
vars     == <<dbVars, kernVars, runVars, req, ghosts>>

NoSample == -1

LiveRow == [pub: Pub, life: Nat, offset: Nat, limit: Nat,
            exp: BOOLEAN, susp: BOOLEAN]

NoRow == [pub |-> NoPub, life |-> 0, offset |-> 0, limit |-> 0,
          exp |-> FALSE, susp |-> FALSE]

Row == LiveRow \cup {NoRow}

Exists(row) == row.pub # NoPub

NoRequest == [op |-> "none", id |-> 0, row |-> NoRow]

Request == [op: {"patch", "reset", "rotate"}, id: Id, row: LiveRow]

(* Whether a call that may fail in this instance succeeds. *)
Outcomes(fault) == {TRUE, fault \notin Faults}
-----------------------------------------------------------------------------
(* Policy: internal/policy and the offsets of internal/db/models.go. *)

Effective(row) == IF row.life > row.offset THEN row.life - row.offset ELSE 0

TrafficLimitExceeded(row) == row.limit > 0 /\ Effective(row) >= row.limit

IsExpired(row) == row.exp /\ late

ShouldAutoSuspend(row) ==
    /\ Exists(row)
    /\ ~row.susp
    /\ IsExpired(row) \/ TrafficLimitExceeded(row)

(* Mutant: a cold start ignores the counter. *)
AccumulateColdKeeps(life, cur, prev) ==
    IF prev = NoSample THEN life
    ELSE IF cur >= prev THEN life + (cur - prev) ELSE life + cur

(* stats.AccumulateLifetime; prev = NoSample is hasPrev = false. *)
AccumulateLifetime(life, cur, prev) ==
    CASE prev # NoSample /\ cur >= prev -> life + (cur - prev)
      [] prev # NoSample /\ cur < prev  -> life + cur
      [] prev = NoSample /\ cur >= life -> cur
      [] prev = NoSample /\ cur < life  -> life

PubsOf(rows) == {rows[id].pub : id \in Id} \ {NoPub}

RowsOf(rows) == {id \in Id : Exists(rows[id])}
-----------------------------------------------------------------------------
(* The writes of internal/db/peers.go. *)

(* An UPDATE ... WHERE id=? of a row that is gone changes nothing. *)
SetPeerSuspended(id, v) ==
    IF Exists(peers[id]) THEN [peers EXCEPT ![id].susp = v] ELSE peers

(* Mutant: the statistics of a row that is gone are inserted. *)
UpsertPeerStats(id, life) == [peers EXCEPT ![id].life = life]

UpdatePeerStats(id, life) ==
    IF Exists(peers[id]) THEN [peers EXCEPT ![id].life = life] ELSE peers

(* Mutant: last_rx_bytes is written back as it was read. *)
UpdatePeerWithStats(id, row) == [peers EXCEPT ![id] = row]

(* UpdatePeer rewrites configuration and policy, and the public key; the   *)
(* observed counters stay those of the row.                                *)
UpdatePeer(id, row) == [peers EXCEPT ![id] = [row EXCEPT !.life = peers[id].life]]

(* UNIQUE(interface_id, public_key) *)
KeyFree(id, p) == \A i \in Id \ {id} : peers[i].pub # p
-----------------------------------------------------------------------------
(* Reconciler.run for the interface. *)

(* ListPeersByInterface.  When it fails the run ends having done nothing. *)
RunBegin ==
    /\ pc = "idle"
    /\ pc' = "enforce"
    /\ snap' = peers
    /\ UNCHANGED <<dbVars, kernVars, prevSample, todo, dev, req, ghosts>>

(* Mutant: the suspension is applied and not stored. *)
EnforceInMemory(id) ==
    /\ pc = "enforce"
    /\ ShouldAutoSuspend(snap[id])
    /\ snap' = [snap EXCEPT ![id].susp = TRUE]
    /\ UNCHANGED <<dbVars, kernVars, prevSample, pc, todo, dev, req, ghosts>>

(* The decision is the snapshot's; the error of the write is dropped. *)
Enforce(id) ==
    /\ pc = "enforce"
    /\ ShouldAutoSuspend(snap[id])
    /\ snap' = [snap EXCEPT ![id].susp = TRUE]
    /\ \E ok \in Outcomes("store") :
          peers' = IF ok THEN SetPeerSuspended(id, TRUE) ELSE peers
    /\ UNCHANGED <<lastId, late, kernVars, prevSample, pc, todo, dev, req, ghosts>>

Enforced == \A id \in Id : ~ShouldAutoSuspend(snap[id])

(* Mutant: a suspended peer keeps its AllowedIPs. *)
ApplyPeersOpen ==
    /\ pc = "enforce"
    /\ Enforced
    /\ pc' = "device"
    /\ kern' = [p \in Pub |-> IF p \in PubsOf(snap) THEN "open" ELSE "absent"]
    /\ raw' = [p \in Pub |-> IF p \in PubsOf(snap) THEN raw[p] ELSE 0]
    /\ UNCHANGED <<dbVars, prevSample, snap, todo, dev, req, ghosts>>

(* ApplyPeers: the kernel has exactly the snapshot's peers, a suspended one *)
(* without AllowedIPs; a peer the kernel already had keeps its counter.     *)
ApplyPeers ==
    /\ pc = "enforce"
    /\ Enforced
    /\ pc' = "device"
    /\ kern' = [p \in Pub |->
                  IF p \notin PubsOf(snap) THEN "absent"
                  ELSE IF \E id \in Id : snap[id].pub = p /\ snap[id].susp
                       THEN "closed" ELSE "open"]
    /\ raw' = [p \in Pub |-> IF p \in PubsOf(snap) THEN raw[p] ELSE 0]
    /\ UNCHANGED <<dbVars, prevSample, snap, todo, dev, req, ghosts>>

(* ApplyPeers fails: logged, and the run goes on to sample.  EnsureInterface *)
(* or Device fails: the rest of the interface is skipped.                    *)
BackendError ==
    /\ "backend" \in Faults
    /\ \/ pc = "enforce" /\ Enforced /\ pc' \in {"device", "prune"}
       \/ pc = "device" /\ pc' = "prune"
    /\ UNCHANGED <<dbVars, kernVars, prevSample, snap, todo, dev, req, ghosts>>

(* backend.Device in sampleInterface: one read of every counter. *)
ReadDevice ==
    /\ pc = "device"
    /\ pc' = "sample"
    /\ dev' = raw
    /\ todo' = RowsOf(snap)
    /\ UNCHANGED <<dbVars, kernVars, prevSample, snap, req, ghosts>>

(* Mutant: prevSample only moves on when there was none. *)
SamplePeerForgets(id) ==
    /\ pc = "sample"
    /\ id \in todo
    /\ todo' = todo \ {id}
    /\ LET p == snap[id].pub IN
       /\ prevSample' = [prevSample EXCEPT ![p] = IF @ = NoSample THEN dev[p] ELSE @]
       /\ peers' = UpdatePeerStats(id, AccumulateLifetime(snap[id].life, dev[p], prevSample[p]))
    /\ UNCHANGED <<lastId, late, kernVars, pc, snap, dev, req, ghosts>>

(* One turn of sampleInterface's loop.  prevSample moves on whether or not *)
(* the row could be written.                                               *)
SamplePeer(id) ==
    /\ pc = "sample"
    /\ id \in todo
    /\ todo' = todo \ {id}
    /\ LET p == snap[id].pub
           life == AccumulateLifetime(snap[id].life, dev[p], prevSample[p])
       IN /\ prevSample' = [prevSample EXCEPT ![p] = dev[p]]
          /\ \E ok \in Outcomes("store") :
                peers' = IF ok THEN UpdatePeerStats(id, life) ELSE peers
    /\ UNCHANGED <<lastId, late, kernVars, pc, snap, dev, req, ghosts>>

(* The end of a run: samples of keys ListAllPeers does not return are       *)
(* dropped.  Its error is ignored, and then it returned none.               *)
Prune ==
    /\ (pc = "sample" /\ todo = {}) \/ pc = "prune"
    /\ pc' = "idle"
    /\ \E ok \in Outcomes("list") :
          prevSample' = [p \in Pub |-> IF ok /\ p \in PubsOf(peers)
                                       THEN prevSample[p] ELSE NoSample]
    /\ snap' = [id \in Id |-> NoRow]
    /\ dev' = [p \in Pub |-> 0]
    /\ UNCHANGED <<dbVars, kernVars, todo, req, ghosts>>

RunStep ==
    \/ RunBegin
    \/ \E id \in Id : Enforce(id)
    \/ ApplyPeers
    \/ BackendError
    \/ ReadDevice
    \/ \E id \in Id : SamplePeer(id)
    \/ Prune
-----------------------------------------------------------------------------
(* API handlers. *)

(* The row now holds key p: what the kernel counts on p is its to pay. *)
TakeKey(id, p) ==
    /\ owner' = [owner EXCEPT ![p] = id]
    /\ bill' = [bill EXCEPT ![id] = IF owner[p] = id THEN @ ELSE @ + raw[p]]
    /\ UNCHANGED carried

handleCreatePeer(p, limit, exp) ==
    /\ lastId < MaxId
    /\ KeyFree(0, p)
    /\ lastId' = lastId + 1
    /\ peers' = [peers EXCEPT ![lastId + 1] =
                   [NoRow EXCEPT !.pub = p, !.limit = limit, !.exp = exp]]
    /\ TakeKey(lastId + 1, p)
    /\ UNCHANGED <<late, kernVars, runVars, req>>

(* The kernel peer stays until the next run. *)
handleDeletePeer(id) ==
    /\ "delete" \in Ops
    /\ Exists(peers[id])
    /\ peers' = [peers EXCEPT ![id] = NoRow]
    /\ UNCHANGED <<lastId, late, kernVars, runVars, req, ghosts>>

(* GetPeer only fetches the id here, so the write is the whole effect. *)
setSuspend(id, v) ==
    /\ "suspend" \in Ops
    /\ Exists(peers[id])
    /\ peers' = SetPeerSuspended(id, v)
    /\ UNCHANGED <<lastId, late, kernVars, runVars, req, ghosts>>

(* GetPeer at the head of PATCH, reset-traffic and issue-client-key. *)
GetPeer(h, op, id) ==
    /\ op \in Ops
    /\ req[h] = NoRequest
    /\ Exists(peers[id])
    /\ req' = [req EXCEPT ![h] = [op |-> op, id |-> id, row |-> peers[id]]]
    /\ UNCHANGED <<dbVars, kernVars, runVars, ghosts>>

(* The row is gone, or the key is taken: the handler answers an error. *)
RequestFails(h) ==
    /\ req[h] # NoRequest
    /\ \/ ~Exists(peers[req[h].id])
       \/ req[h].op # "reset" /\ ~KeyFree(req[h].id, req[h].row.pub)
    /\ req' = [req EXCEPT ![h] = NoRequest]
    /\ UNCHANGED <<dbVars, kernVars, runVars, ghosts>>

(* PATCH writes the row it read with the requested fields replaced. *)
handleUpdatePeer(h, new) ==
    LET id == req[h].id IN
    /\ req[h].op = "patch"
    /\ Exists(peers[id])
    /\ KeyFree(id, req[h].row.pub)
    /\ peers' = UpdatePeer(id, new)
    /\ TakeKey(id, new.pub)
    /\ req' = [req EXCEPT ![h] = NoRequest]
    /\ UNCHANGED <<lastId, late, kernVars, runVars>>

(* The bodies of a PATCH that matter here: none, suspended, a limit, or   *)
(* expires_at set or cleared.                                              *)
Patched(row) ==
    {row}
    \cup {[row EXCEPT !.susp = v] : v \in BOOLEAN}
    \cup {[row EXCEPT !.limit = l] : l \in Limits}
    \cup {[row EXCEPT !.exp = v] : v \in BOOLEAN}

handleResetPeerTraffic(h) ==
    LET id == req[h].id IN
    /\ req[h].op = "reset"
    /\ Exists(peers[id])
    /\ peers' = [peers EXCEPT ![id].offset = req[h].row.life]
    /\ req' = [req EXCEPT ![h] = NoRequest]
    /\ UNCHANGED <<lastId, late, kernVars, runVars, ghosts>>

(* issue-client-key with rotate: a key pair nobody has used; offsets and    *)
(* last_* are zeroed in memory, UpdatePeer persists only the offsets.       *)
handleIssueClientKey(h, p) ==
    LET id == req[h].id
        rotated == [req[h].row EXCEPT !.pub = p, !.offset = 0, !.life = 0]
    IN
    /\ req[h].op = "rotate"
    /\ owner[p] = 0
    /\ Exists(peers[id])
    /\ peers' = UpdatePeer(id, rotated)
    /\ TakeKey(id, p)
    /\ req' = [req EXCEPT ![h] = NoRequest]
    /\ UNCHANGED <<lastId, late, kernVars, runVars>>

HandlerStep ==
    \/ \E p \in Pub, l \in Limits, e \in BOOLEAN :
          ("expire" \in Ops \/ ~e) /\ handleCreatePeer(p, l, e)
    \/ \E id \in Id : handleDeletePeer(id)
    \/ \E id \in Id, v \in BOOLEAN : setSuspend(id, v)
    \/ \E h \in Handler :
          \/ \E op \in {"patch", "reset", "rotate"}, id \in Id : GetPeer(h, op, id)
          \/ RequestFails(h)
          \/ \E new \in Patched(req[h].row) :
                ("expire" \in Ops \/ ~new.exp) /\ handleUpdatePeer(h, new)
          \/ handleResetPeerTraffic(h)
          \/ \E p \in Pub : handleIssueClientKey(h, p)
-----------------------------------------------------------------------------
(* The environment. *)

(* Who pays for a byte on p: the row that holds the key, and a row the run  *)
(* in progress listed with it.                                              *)
Payers(p) == {id \in Id : owner[p] = id \/ snap[id].pub = p}

(* The kernel carries a byte: only to a peer that has AllowedIPs. *)
Carry(p) ==
    /\ kern[p] = "open"
    /\ carried < MaxBytes
    /\ raw' = [raw EXCEPT ![p] = @ + 1]
    /\ carried' = carried + 1
    /\ bill' = [id \in Id |-> IF id \in Payers(p) THEN bill[id] + 1 ELSE bill[id]]
    /\ UNCHANGED <<dbVars, kern, runVars, req, owner>>

ExpiryPasses ==
    /\ "expire" \in Ops
    /\ ~late
    /\ late' = TRUE
    /\ UNCHANGED <<peers, lastId, kernVars, runVars, req, ghosts>>

(* The link is deleted behind the daemon (reboot, ip link del, a link of    *)
(* the wrong family replaced by ensureLink): peers and counters are gone.   *)
LinkRecreated ==
    /\ "recreate" \in Faults
    /\ kern' = [p \in Pub |-> "absent"]
    /\ raw' = [p \in Pub |-> 0]
    /\ UNCHANGED <<dbVars, runVars, req, ghosts>>

(* The daemon stops at any point and starts again: what is not in state.db  *)
(* or the kernel is lost.                                                   *)
Restart ==
    /\ "restart" \in Faults
    /\ prevSample' = [p \in Pub |-> NoSample]
    /\ pc' = "idle"
    /\ snap' = [id \in Id |-> NoRow]
    /\ todo' = {}
    /\ dev' = [p \in Pub |-> 0]
    /\ req' = [h \in Handler |-> NoRequest]
    /\ UNCHANGED <<dbVars, kernVars, ghosts>>

Environment ==
    \/ \E p \in Pub : Carry(p)
    \/ ExpiryPasses
    \/ LinkRecreated
    \/ Restart
-----------------------------------------------------------------------------
Init ==
    /\ peers = [id \in Id |-> NoRow]
    /\ lastId = 0
    /\ late = FALSE
    /\ kern = [p \in Pub |-> "absent"]
    /\ raw = [p \in Pub |-> 0]
    /\ prevSample = [p \in Pub |-> NoSample]
    /\ pc = "idle"
    /\ snap = [id \in Id |-> NoRow]
    /\ todo = {}
    /\ dev = [p \in Pub |-> 0]
    /\ req = [h \in Handler |-> NoRequest]
    /\ carried = 0
    /\ owner = [p \in Pub |-> 0]
    /\ bill = [id \in Id |-> 0]

Next == RunStep \/ HandlerStep \/ Environment

Spec == Init /\ [][Next]_vars

(* The ticker of Loop: a run is always started again and, its store and     *)
(* backend calls returning, carried to its end.                             *)
FairSpec == Spec /\ WF_vars(RunStep)
-----------------------------------------------------------------------------
(* The values the variables take: counters are never negative, a row that  *)
(* is gone is NoRow.                                                        *)
TypeOK ==
    /\ peers \in [Id -> Row]
    /\ lastId \in 0..MaxId
    /\ late \in BOOLEAN
    /\ kern \in [Pub -> {"absent", "closed", "open"}]
    /\ raw \in [Pub -> Nat]
    /\ prevSample \in [Pub -> Nat \cup {NoSample}]
    /\ pc \in {"idle", "enforce", "device", "sample", "prune"}
    /\ snap \in [Id -> Row]
    /\ todo \in SUBSET Id
    /\ dev \in [Pub -> Nat]
    /\ req \in [Handler -> Request \cup {NoRequest}]
    /\ carried \in Nat
    /\ owner \in [Pub -> Id \cup {0}]
    /\ bill \in [Id -> Nat]

(* The lifetime total of a row never drops: not when the kernel's counters  *)
(* reset, the daemon restarts, a handler writes back a row it read before   *)
(* a sample, or a run writes what it listed earlier (the promise of         *)
(* AccumulateLifetime and of UpdatePeer's "owned by UpdatePeerStats").      *)
LifetimeMonotone ==
    [][\A id \in Id : Exists(peers[id]) /\ Exists(peers'[id])
                         => peers'[id].life >= peers[id].life]_vars

(* Why the total cannot drop: until a run has sampled a row, the lifetime  *)
(* it listed is the row's, because no handler writes last_rx_bytes and no   *)
(* other run does while it holds mu.                                        *)
SnapshotCurrent ==
    \A id \in Id :
        Exists(snap[id]) /\ Exists(peers[id]) /\ (pc = "sample" => id \in todo)
            => snap[id].life = peers[id].life

(* A row is never charged a byte the kernel did not count on one of its     *)
(* keys, whatever resets, restarts, failed writes and key rotations happen  *)
(* between two samples of sampleInterface.                                  *)
NeverOverbilled ==
    \A id \in Id : Exists(peers[id]) => peers[id].life <= bill[id]

(* Without a counter reset or a failed write every byte is billed exactly   *)
(* once: what the row has, and what the next sample will add, is what the   *)
(* kernel counted.  Restarts and dropped prevSample entries cost nothing.   *)
BilledExactlyOnce ==
    \A id \in Id : Exists(peers[id]) =>
        LET p == peers[id].pub IN
        bill[id] = IF prevSample[p] = NoSample THEN raw[p]
                   ELSE peers[id].life + (raw[p] - prevSample[p])

(* A peer over its quota (or past expires_at) is suspended by a later run,  *)
(* unless its limit, offset or expiry is changed first.                     *)
QuotaEnforced ==
    \A id \in Id : ShouldAutoSuspend(peers[id]) ~> ~ShouldAutoSuspend(peers[id])

(* A row that stays suspended is cut off in the kernel, whichever run had   *)
(* already read it as active.                                               *)
SuspendedIsCutOff ==
    \A id \in Id, p \in Pub :
        (peers[id].pub = p /\ peers[id].susp)
            ~> (kern[p] # "open" \/ ~(peers[id].pub = p /\ peers[id].susp))

(* The comment in handleIssueClientKey: the counters of a rotated peer      *)
(* "will be 0 after reconcile".  A key that is sampled and has carried      *)
(* nothing shows no traffic.                                                *)
RotatedShowsZero ==
    \A id \in Id : Exists(peers[id]) =>
        LET p == peers[id].pub IN
        prevSample[p] = 0 /\ raw[p] = 0 => Effective(peers[id]) = 0
=============================================================================
