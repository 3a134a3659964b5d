------------------------------ MODULE Adoption ------------------------------
(***************************************************************************)
(* Importing a WireGuard interface the host already runs (internal/adopt,  *)
(* ImportInterface of internal/db), composed with the accounting of        *)
(* PeerAccounting.                                                         *)
(*                                                                         *)
(* Adopt makes a plan from one read of the kernel, the conf file and the   *)
(* database, and imports it later in one transaction: every peer row of    *)
(* the interface is replaced by a new one whose lifetime total is the      *)
(* kernel's counter at the time of the plan.  Nothing locks the two, and   *)
(* the reconciler's in-memory samples are not told.  One adoption is in    *)
(* flight at a time: the request POST /v1/adopt or adopt_on_start.         *)
(*                                                                         *)
(* A peer imported without AllowedIPs is one that Carry never picks.       *)
(***************************************************************************)
EXTENDS PeerAccounting

CONSTANTS
    Overwrites  \* the values of "overwrite" in adopt requests

ASSUME OverwritesAssumption == Overwrites \subseteq BOOLEAN

VARIABLES
    managed,    \* the interface has a row in state.db
    live,       \* the interface's link exists in the kernel
    hook,       \* hookState has the interface: a run managed it
    plan,       \* the adoption in flight, NoPlan when none
    (* observation only *)
    after,      \* after[p]: bytes counted on p since the plan was made
    base,       \* base[id]: counter a row with a conf limit was adopted at
    again       \* again[id]: counter a row was adopted at while its key
                \* was already sampled, 0 for a first adoption

adoptVars == <<managed, live, hook, plan, after, base, again>>
allVars   == <<vars, adoptVars>>

NoPlan == [made |-> FALSE, skip |-> FALSE, rows |-> <<>>]

(* What <conf_dir>/<name>.conf can say of a peer: nothing, or a stanza with *)
(* a traffic limit and an expiry.                                           *)
NoStanza == [listed |-> FALSE, limit |-> 0, exp |-> FALSE]

Stanza == {NoStanza} \cup
    [listed: {TRUE}, limit: Limits, exp: IF "expire" \in Ops THEN BOOLEAN ELSE {FALSE}]

(* Mutant: the conf's limit applies to the counter as it stands. *)
PlannedRowNoOffset(p, stanza) ==
    [NoRow EXCEPT !.pub = p, !.life = raw[p], !.limit = stanza.limit, !.exp = stanza.exp]

(* buildPlan's row of one peer.  A limit comes with a soft reset, so that   *)
(* what the kernel has counted does not use it up; suspended stays false.   *)
PlannedRow(p, stanza) ==
    [NoRow EXCEPT !.pub = p,
                  !.life = raw[p],
                  !.offset = IF stanza.limit > 0 THEN raw[p] ELSE 0,
                  !.limit = stanza.limit,
                  !.exp = stanza.exp]

(* The peers of a plan: those of the kernel, and those only the conf lists. *)
Planned(conf) == {p \in Pub : kern[p] # "absent" \/ conf[p].listed}
-----------------------------------------------------------------------------
(* Service.Adopt *)

(* Devices, the conf file and GetInterfaceByName.  An interface that has a  *)
(* row is skipped unless the request says overwrite.                        *)
Plan(overwrite, conf) ==
    /\ live
    /\ plan = NoPlan
    /\ plan' = [made |-> TRUE, skip |-> managed /\ ~overwrite,
                rows |-> [p \in Planned(conf) |-> PlannedRow(p, conf[p])]]
    /\ after' = [p \in Pub |-> 0]
    /\ UNCHANGED <<vars, managed, live, hook, base, again>>

Skip ==
    /\ plan # NoPlan
    /\ plan.skip
    /\ plan' = NoPlan
    /\ UNCHANGED <<vars, managed, live, hook, after, base, again>>

(* The transaction fails: the interface is reported as an error. *)
ImportFails ==
    /\ "store" \in Faults
    /\ plan # NoPlan
    /\ ~plan.skip
    /\ plan' = NoPlan
    /\ UNCHANGED <<vars, managed, live, hook, after, base, again>>

Keys == DOMAIN plan.rows

(* Mutant: the rows of an import take the first ids again. *)
NewIdsReused == 1..Cardinality(Keys)

(* AUTOINCREMENT: the ids of deleted rows are not used again. *)
NewIds == lastId + 1 .. lastId + Cardinality(Keys)

(* The key of a planned row that already has a sample, or gets one from the *)
(* run in progress.                                                         *)
Sampled(p) == prevSample[p] # NoSample \/ p \in PubsOf(snap)

(* ImportInterface: the interface's row is written, its peers are deleted   *)
(* and the planned ones inserted, key[id] being the one that gets id.       *)
ImportInterface(key) ==
    /\ plan # NoPlan
    /\ ~plan.skip
    /\ \A i, j \in DOMAIN key : i # j => key[i] # key[j]
    /\ managed' = TRUE
    /\ lastId' = lastId + Cardinality(Keys)
    /\ peers' = [id \in Id |-> IF id \in DOMAIN key THEN plan.rows[key[id]] ELSE NoRow]
    /\ plan' = NoPlan
    /\ owner' = [p \in Pub |-> IF p \in Keys THEN CHOOSE id \in DOMAIN key : key[id] = p
                               ELSE owner[p]]
    /\ bill' = [id \in Id |-> IF id \in DOMAIN key
                              THEN plan.rows[key[id]].life + after[key[id]] ELSE bill[id]]
    /\ base' = [id \in Id |-> IF id \in DOMAIN key /\ plan.rows[key[id]].limit > 0
                              THEN plan.rows[key[id]].life ELSE 0]
    /\ again' = [id \in Id |-> IF id \in DOMAIN key /\ Sampled(key[id])
                               THEN plan.rows[key[id]].life ELSE 0]
    /\ UNCHANGED <<late, kernVars, runVars, req, carried, live, hook, after>>

AdoptStep ==
    \/ \E overwrite \in Overwrites, conf \in [Pub -> Stanza] : Plan(overwrite, conf)
    \/ Skip
    \/ ImportFails
    \/ /\ NewIds \subseteq Id
       /\ \E key \in [NewIds -> Keys] : ImportInterface(key)
-----------------------------------------------------------------------------
(* The interface's own requests, and the host. *)

(* handleCreateInterface's CreateInterface; the link comes with a run. *)
CreateInterface ==
    /\ ~managed
    /\ managed' = TRUE
    /\ UNCHANGED <<vars, live, hook, plan, after, base, again>>

(* backend.RemoveInterface: the link goes with its counters, or stays when  *)
(* the call fails.                                                          *)
RemoveInterface ==
    \/ /\ live' = FALSE
       /\ kern' = [p \in Pub |-> "absent"]
       /\ raw' = [p \in Pub |-> 0]
    \/ "backend" \in Faults /\ UNCHANGED <<live, kern, raw>>

(* handleDeleteInterface, under the reconciler's mutex: the rows go by      *)
(* cascade; hookState and the samples in memory stay.                       *)
DeleteInterface ==
    /\ managed
    /\ pc = "idle"
    /\ managed' = FALSE
    /\ peers' = [id \in Id |-> NoRow]
    /\ RemoveInterface
    /\ UNCHANGED <<lastId, late, runVars, req, ghosts, hook, plan, after, base, again>>

(* wg-quick up or wg set on the host: a peer the daemon did not add. *)
HostAddsPeer(p) ==
    /\ kern[p] = "absent"
    /\ live' = TRUE
    /\ kern' = [kern EXCEPT ![p] = "open"]
    /\ UNCHANGED <<dbVars, raw, runVars, req, ghosts, managed, hook, plan, after, base, again>>

(* A run that does not list the interface: the stale pass removes the link  *)
(* of one it managed before, whoever made it since, and forgets it.  Prune  *)
(* follows.                                                                 *)
RunWithoutInterface ==
    /\ ~managed
    /\ pc = "idle"
    /\ pc' = "prune"
    /\ IF hook /\ live THEN RemoveInterface ELSE UNCHANGED <<live, kern, raw>>
    /\ hook' = FALSE
    /\ UNCHANGED <<dbVars, prevSample, snap, todo, dev, req, ghosts,
                   managed, plan, after, base, again>>

(* PeerAccounting's steps.  A run lists the interface, and POST peers finds *)
(* it, only when it has a row; past EnsureInterface and SetUp its link is   *)
(* there and hookState has it.                                              *)
AccountingStep ==
    \/ /\ pc = "idle" => managed
       /\ RunStep
       /\ live' = (live \/ pc' = "device")
       /\ hook' = (hook \/ pc' = "device")
       /\ UNCHANGED <<managed, plan, after, base, again>>
    \/ /\ HandlerStep
       /\ lastId' # lastId => managed
       /\ UNCHANGED adoptVars
    \/ \E p \in Pub :
         /\ Carry(p)
         /\ after' = IF plan = NoPlan THEN after ELSE [after EXCEPT ![p] = @ + 1]
         /\ UNCHANGED <<managed, live, hook, plan, base, again>>
    \/ LinkRecreated /\ UNCHANGED adoptVars
    \/ Restart /\ hook' = FALSE /\ plan' = NoPlan
               /\ UNCHANGED <<managed, live, after, base, again>>
-----------------------------------------------------------------------------
AdoptInit ==
    /\ Init
    /\ managed = FALSE
    /\ live = FALSE
    /\ hook = FALSE
    /\ plan = NoPlan
    /\ after = [p \in Pub |-> 0]
    /\ base = [id \in Id |-> 0]
    /\ again = [id \in Id |-> 0]

AdoptNext ==
    \/ AdoptStep
    \/ CreateInterface
    \/ DeleteInterface
    \/ \E p \in Pub : HostAddsPeer(p)
    \/ RunWithoutInterface
    \/ AccountingStep

AdoptSpec == AdoptInit /\ [][AdoptNext]_allVars
-----------------------------------------------------------------------------
(* PeerAccounting's types hold under adoption: a run that listed the old    *)
(* rows leaves nothing behind in the ones ImportInterface deleted.  No row  *)
(* outlives its interface, and only a link that is up has peers.            *)
AdoptTypeOK ==
    /\ TypeOK
    /\ managed \/ RowsOf(peers) = {}
    /\ live \/ \A p \in Pub : kern[p] = "absent"
    /\ plan # NoPlan => plan.skip \in BOOLEAN /\ plan.rows \in [Keys -> LiveRow]

(* Adopting an interface for the first time charges a peer every byte at    *)
(* most once, whatever happens between the plan, the import and the first   *)
(* sample; adopting it again with overwrite, while the reconciler samples   *)
(* it, charges at most what the kernel had counted a second time, once.     *)
AdoptedBillBound ==
    \A id \in Id : Exists(peers[id]) => peers[id].life <= bill[id] + again[id]

(* "existing lifetime kernel totals don't immediately auto-suspend peers on *)
(* adopt": a peer adopted with a limit is not over it before that many      *)
(* bytes were counted since the plan (or, adopted again, counted twice).    *)
QuotaFromAdoption ==
    \A id \in Id : Exists(peers[id]) /\ TrafficLimitExceeded(peers[id]) =>
        bill[id] + again[id] - base[id] >= peers[id].limit

(* The comment in buildPlan without the exception for adopting again.       *)
NeverSuspendedByOldBytes ==
    \A id \in Id : Exists(peers[id]) /\ TrafficLimitExceeded(peers[id]) =>
        bill[id] - base[id] >= peers[id].limit
=============================================================================
