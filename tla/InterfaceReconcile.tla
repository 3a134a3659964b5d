-------------------------- MODULE InterfaceReconcile --------------------------
(***************************************************************************)
(* The desired-state loop for interfaces: rows of state.db, the links of   *)
(* the host, and the reconciler that makes the second follow the first     *)
(* while API handlers change the rows.                                     *)
(*                                                                         *)
(* Reconciler.mu is held by a run (RunOnce) or by the function a handler   *)
(* passes to Exclusive; pc says by whom and where.  Handlers write rows    *)
(* without it.  A row's configuration is a version: every write of a row   *)
(* makes a new one, so a stale write or a stale apply shows.  Peers are    *)
(* the subject of PeerAccounting.                                          *)
(***************************************************************************)
EXTENDS Naturals, FiniteSets

CONSTANTS
    Name,       \* interface names
    Reserved,   \* those netutil.ReservedHostInterface reports (mesh*)
    Handler,    \* concurrent API requests that read a row and write it back
    MaxWrites,  \* bound: row writes
    MaxFaults,  \* bound: failures
    Ops,        \* the API requests of an instance
    Faults      \* the failures of an instance

AllOps == {"create", "update", "delete", "import", "export"}

AllFaults == {"ensure", "setup", "export", "remove", "devices", "list", "linkLost",
              "restart"}

ASSUME ReservedAssumption == Reserved \subseteq Name
ASSUME BoundsAssumption == MaxWrites \in Nat /\ MaxFaults \in Nat
ASSUME InstanceAssumption == Ops \subseteq AllOps /\ Faults \subseteq AllFaults

VARIABLES
    ifaces,     \* state.db: ifaces[n], NoRow when there is none
    writes,     \* row writes so far: the latest version and id
    live,       \* the host: live[n], NoLink when there is none
    conf,       \* conf[n]: version in the exported conf file, 0 when none
    hookState,  \* hookState[n]: last applied "up" or "down", or "unseen"
    pc, snap, liveNames, todo, cur,
    req,        \* API requests between their read and their write
    faults,     \* failures so far
    applied,    \* observation: newest version ever put on the link
    hook        \* observation: last hook run for n in this daemon life

dbVars  == <<ifaces, writes>>
hostVars == <<live, conf>>
locals  == <<snap, liveNames, todo, cur>>
runVars == <<hookState, pc, locals>>
ghosts  == <<applied, hook>>
vars    == <<dbVars, hostVars, runVars, req, faults, ghosts>>

NoRow  == [id |-> 0, ver |-> 0, enabled |-> FALSE]
NoLink == [exists |-> FALSE, ver |-> 0, up |-> FALSE]

(* The control-plane mesh link the host manages itself. *)
HostLink == [exists |-> TRUE, ver |-> 0, up |-> TRUE]

NoRequest == [op |-> "none", name |-> CHOOSE n \in Name : TRUE, row |-> NoRow]

Exists(row) == row.id # 0

RowsOf(rows) == {n \in Name : Exists(rows[n])}

(* The calls in failed fail in this step. *)
Fails(failed) ==
    IF failed = {} THEN UNCHANGED faults
    ELSE failed \subseteq Faults /\ faults < MaxFaults /\ faults' = faults + 1
-----------------------------------------------------------------------------
(* Reconciler.run *)

GoingUp(n) == snap[n].enabled /\ hookState[n] # "up"

(* Mutant: a name this daemon has not seen counts as up. *)
GoingDownUnseen(n) == ~snap[n].enabled /\ hookState[n] # "down"

GoingDown(n) == ~snap[n].enabled /\ hookState[n] = "up"

(* Mutant: every row is managed. *)
DesiredAll(rows) == RowsOf(rows)

(* Names the run manages: reserved ones are skipped even with a row. *)
Desired(rows) == RowsOf(rows) \ Reserved

(* ListInterfaces and Devices; the error of Devices is dropped, and then no *)
(* link is known to be live.                                                *)
RunBegin ==
    /\ pc = "idle"
    /\ pc' = "ifaces"
    /\ snap' = ifaces
    /\ todo' = Desired(ifaces)
    /\ \E failed \in SUBSET {"devices"} :
          /\ Fails(failed)
          /\ liveNames' = {n \in Name : failed = {} /\ live[n].exists}
    /\ UNCHANGED <<dbVars, hostVars, hookState, cur, req, ghosts>>

(* Locals of a run that is over. *)
LocalsGone ==
    /\ snap' = [n \in Name |-> NoRow]
    /\ liveNames' = {}
    /\ todo' = {}
    /\ cur' = {}

(* ListPeersByInterface fails (a cancelled request context): run returns. *)
ListPeersFails ==
    /\ pc = "ifaces"
    /\ todo # {}
    /\ Fails({"list"})
    /\ pc' = "idle"
    /\ LocalsGone
    /\ UNCHANGED <<dbVars, hostVars, hookState, req, ghosts>>

(* PreUp or PreDown run before EnsureInterface, whatever it returns. *)
PreHook(n) ==
    hook' = [hook EXCEPT ![n] = IF GoingUp(n) THEN "preUp"
                                ELSE IF GoingDown(n) THEN "preDown" ELSE @]

Reach(n, ver) == applied' = [applied EXCEPT ![n] = IF @ < ver THEN ver ELSE @]

EnsureInterface(n) ==
    /\ pc = "ifaces"
    /\ n \in todo
    /\ PreHook(n)
    /\ live' = [live EXCEPT ![n] = [exists |-> TRUE, ver |-> snap[n].ver,
                                    up |-> snap[n].enabled \/ @.up]]
    /\ Reach(n, snap[n].ver)
    /\ cur' = {n}
    /\ pc' = "finish"
    /\ UNCHANGED <<dbVars, conf, hookState, snap, liveNames, todo, req, faults>>

(* EnsureInterface fails on the way: it may have created the link, and have *)
(* configured it.  The rest of the loop body is skipped, hookState included. *)
EnsureFails(n) ==
    /\ pc = "ifaces"
    /\ n \in todo
    /\ Fails({"ensure"})
    /\ PreHook(n)
    /\ \/ UNCHANGED <<live, applied>>
       \/ live' = [live EXCEPT ![n].exists = TRUE] /\ UNCHANGED applied
       \/ /\ live' = [live EXCEPT ![n].exists = TRUE, ![n].ver = snap[n].ver]
          /\ Reach(n, snap[n].ver)
    /\ todo' = todo \ {n}
    /\ UNCHANGED <<dbVars, conf, hookState, pc, snap, liveNames, cur, req>>

(* Mutant: the link is brought up or down on transitions only. *)
FinishOnTransition(n) ==
    /\ pc = "finish"
    /\ n \in cur
    /\ \E failed \in SUBSET {"setup", "export"} :
          /\ Fails(failed)
          /\ live' = IF "setup" \in failed \/ ~(GoingUp(n) \/ GoingDown(n)) THEN live
                     ELSE [live EXCEPT ![n].up = live[n].exists /\ snap[n].enabled]
          /\ conf' = IF "export" \in failed THEN conf
                     ELSE [conf EXCEPT ![n] = snap[n].ver]
    /\ hookState' = [hookState EXCEPT ![n] = IF snap[n].enabled THEN "up" ELSE "down"]
    /\ todo' = todo \ {n}
    /\ cur' = {}
    /\ pc' = "ifaces"
    /\ UNCHANGED <<dbVars, snap, liveNames, req, ghosts>>

(* SetUp, the post hooks, hookState and exportConf; errors are only logged. *)
Finish(n) ==
    /\ pc = "finish"
    /\ n \in cur
    /\ \E failed \in SUBSET {"setup", "export"} :
          /\ Fails(failed)
          /\ live' = IF "setup" \in failed THEN live
                     ELSE [live EXCEPT ![n].up = live[n].exists /\ snap[n].enabled]
          /\ conf' = IF "export" \in failed THEN conf
                     ELSE [conf EXCEPT ![n] = snap[n].ver]
    /\ hook' = [hook EXCEPT ![n] = IF GoingUp(n) THEN "postUp"
                                   ELSE IF GoingDown(n) THEN "postDown" ELSE @]
    /\ hookState' = [hookState EXCEPT ![n] = IF snap[n].enabled THEN "up" ELSE "down"]
    /\ todo' = todo \ {n}
    /\ cur' = {}
    /\ pc' = "ifaces"
    /\ UNCHANGED <<dbVars, snap, liveNames, req, applied>>

(* backend.RemoveInterface; both callers only log its error. *)
RemoveLink(n) ==
    \E failed \in SUBSET {"remove"} :
        /\ Fails(failed)
        /\ live' = IF failed = {} THEN [live EXCEPT ![n] = NoLink] ELSE live

Stale == {n \in Name : hookState[n] # "unseen"} \ Desired(snap)

(* A name once managed and no longer desired: its link is removed, and it   *)
(* is forgotten even when the removal failed.  No down hook runs.           *)
RemoveStale(n) ==
    /\ pc = "ifaces"
    /\ todo = {}
    /\ n \in Stale
    /\ hookState' = [hookState EXCEPT ![n] = "unseen"]
    /\ hook' = [hook EXCEPT ![n] = "none"]
    /\ IF n \in liveNames \ Reserved THEN RemoveLink(n) ELSE UNCHANGED <<live, faults>>
    /\ UNCHANGED <<dbVars, conf, pc, locals, req, applied>>

RunEnd ==
    /\ pc = "ifaces"
    /\ todo = {}
    /\ Stale = {}
    /\ pc' = "idle"
    /\ LocalsGone
    /\ UNCHANGED <<dbVars, hostVars, hookState, req, faults, ghosts>>

RunStep ==
    \/ RunBegin
    \/ \E n \in Name : EnsureInterface(n) \/ EnsureFails(n) \/ Finish(n) \/ RemoveStale(n)
    \/ ListPeersFails
    \/ RunEnd
-----------------------------------------------------------------------------
(* API handlers. *)

Written(n, row) ==
    /\ writes < MaxWrites
    /\ writes' = writes + 1
    /\ ifaces' = [ifaces EXCEPT ![n] = [row EXCEPT !.ver = writes + 1]]

(* UNIQUE(name); the id is fresh. *)
handleCreateInterface(n, enabled) ==
    /\ "create" \in Ops
    /\ n \notin Reserved
    /\ ~Exists(ifaces[n])
    /\ Written(n, [NoRow EXCEPT !.id = writes + 1, !.enabled = enabled])
    /\ UNCHANGED <<hostVars, runVars, req, faults, ghosts>>

(* ImportInterface upserts by name; reserved names are not refused. *)
handleInterfaceImport(n) ==
    /\ "import" \in Ops
    /\ LET id == IF Exists(ifaces[n]) THEN ifaces[n].id ELSE writes + 1
       IN Written(n, [NoRow EXCEPT !.id = id, !.enabled = TRUE])
    /\ UNCHANGED <<hostVars, runVars, req, faults, ghosts>>

(* Mutant: a missing row is not an error. *)
GetInterfaceUnchecked(h, op, n) ==
    /\ req[h] = NoRequest
    /\ req' = [req EXCEPT ![h] = [op |-> op, name |-> n, row |-> ifaces[n]]]
    /\ UNCHANGED <<dbVars, hostVars, runVars, faults, ghosts>>

(* GetInterfaceByName at the head of PATCH, up, down and export.  Only      *)
(* PATCH refuses a reserved name.                                           *)
GetInterface(h, op, n) ==
    /\ req[h] = NoRequest
    /\ Exists(ifaces[n])
    /\ op = "patch" => n \notin Reserved
    /\ IF op = "export" THEN "export" \in Ops ELSE "update" \in Ops
    /\ req' = [req EXCEPT ![h] = [op |-> op, name |-> n, row |-> ifaces[n]]]
    /\ UNCHANGED <<dbVars, hostVars, runVars, faults, ghosts>>

(* Mutant: the handler also applies the row it read, outside the lock. *)
UpdateAndApply(h, enabled) ==
    LET r == req[h] IN
    /\ r.op \in {"patch", "up", "down"}
    /\ ifaces[r.name].id = r.row.id
    /\ Written(r.name, [r.row EXCEPT !.enabled = enabled])
    /\ live' = [live EXCEPT ![r.name] = [exists |-> TRUE, ver |-> r.row.ver, up |-> enabled]]
    /\ req' = [req EXCEPT ![h] = NoRequest]
    /\ UNCHANGED <<conf, runVars, faults, ghosts>>

(* UpdateInterface writes the whole row back, by id: the row read, with     *)
(* enabled set by up and down, and by a PATCH that names it.                *)
UpdateInterface(h, enabled) ==
    LET r == req[h] IN
    /\ \/ r.op = "patch"
       \/ r.op = "up" /\ enabled
       \/ r.op = "down" /\ ~enabled
    /\ ifaces[r.name].id = r.row.id
    /\ Written(r.name, [r.row EXCEPT !.enabled = enabled])
    /\ req' = [req EXCEPT ![h] = NoRequest]
    /\ UNCHANGED <<hostVars, runVars, faults, ghosts>>

(* The row with that id is gone: ErrNotFound. *)
UpdateNotFound(h) ==
    /\ req[h].op \in {"patch", "up", "down"}
    /\ ifaces[req[h].name].id # req[h].row.id
    /\ req' = [req EXCEPT ![h] = NoRequest]
    /\ UNCHANGED <<dbVars, hostVars, runVars, faults, ghosts>>

(* The content was rendered from what was read; only the write of the file  *)
(* is Exclusive.                                                            *)
handleInterfaceExport(h) ==
    /\ req[h].op = "export"
    /\ pc = "idle"
    /\ conf' = [conf EXCEPT ![req[h].name] = req[h].row.ver]
    /\ req' = [req EXCEPT ![h] = NoRequest]
    /\ UNCHANGED <<dbVars, live, runVars, faults, ghosts>>

(* DELETE of a reserved name: the row only, without the lock. *)
DeleteReserved(n) ==
    /\ "delete" \in Ops
    /\ n \in Reserved
    /\ Exists(ifaces[n])
    /\ ifaces' = [ifaces EXCEPT ![n] = NoRow]
    /\ UNCHANGED <<writes, hostVars, runVars, req, faults, ghosts>>

(* Mutant: row and link are deleted without the lock. *)
DeleteUnlocked(n) ==
    /\ "delete" \in Ops
    /\ n \notin Reserved
    /\ Exists(ifaces[n])
    /\ ifaces' = [ifaces EXCEPT ![n] = NoRow]
    /\ live' = [live EXCEPT ![n] = NoLink]
    /\ UNCHANGED <<writes, conf, runVars, req, faults, ghosts>>

(* DELETE: inside Exclusive, first the row ... *)
DeleteInterface(n) ==
    /\ "delete" \in Ops
    /\ pc = "idle"
    /\ n \notin Reserved
    /\ Exists(ifaces[n])
    /\ ifaces' = [ifaces EXCEPT ![n] = NoRow]
    /\ pc' = "delete"
    /\ cur' = {n}
    /\ UNCHANGED <<writes, hostVars, hookState, snap, liveNames, todo, req, faults, ghosts>>

(* ... then the link; an error is only logged.  hookState is not touched.   *)
RemoveInterface(n) ==
    /\ pc = "delete"
    /\ n \in cur
    /\ RemoveLink(n)
    /\ pc' = "idle"
    /\ cur' = {}
    /\ UNCHANGED <<dbVars, conf, hookState, snap, liveNames, todo, req, ghosts>>

HandlerStep ==
    \/ \E n \in Name, e \in BOOLEAN : handleCreateInterface(n, e)
    \/ \E n \in Name : \/ handleInterfaceImport(n)
                       \/ DeleteReserved(n)
                       \/ DeleteInterface(n)
    \/ \E h \in Handler :
          \/ \E op \in {"patch", "up", "down", "export"}, n \in Name : GetInterface(h, op, n)
          \/ \E e \in BOOLEAN : UpdateInterface(h, e)
          \/ UpdateNotFound(h)
          \/ handleInterfaceExport(h)

FinishDelete == \E n \in Name : RemoveInterface(n)
-----------------------------------------------------------------------------
(* The host loses a link the daemon manages. *)
LinkLost(n) ==
    /\ n \notin Reserved
    /\ live[n].exists
    /\ Fails({"linkLost"})
    /\ live' = [live EXCEPT ![n] = NoLink]
    /\ UNCHANGED <<dbVars, conf, runVars, req, ghosts>>

(* A crash or stop at any point, and a start: memory is lost. *)
Restart ==
    /\ Fails({"restart"})
    /\ pc' = "idle"
    /\ LocalsGone
    /\ hookState' = [n \in Name |-> "unseen"]
    /\ hook' = [n \in Name |-> "none"]
    /\ req' = [h \in Handler |-> NoRequest]
    /\ UNCHANGED <<dbVars, hostVars, applied>>

Init ==
    /\ ifaces = [n \in Name |-> NoRow]
    /\ writes = 0
    /\ live = [n \in Name |-> IF n \in Reserved THEN HostLink ELSE NoLink]
    /\ conf = [n \in Name |-> 0]
    /\ hookState = [n \in Name |-> "unseen"]
    /\ pc = "idle"
    /\ snap = [n \in Name |-> NoRow]
    /\ liveNames = {}
    /\ todo = {}
    /\ cur = {}
    /\ req = [h \in Handler |-> NoRequest]
    /\ faults = 0
    /\ applied = [n \in Name |-> 0]
    /\ hook = [n \in Name |-> "none"]

Next ==
    \/ RunStep
    \/ FinishDelete
    \/ HandlerStep
    \/ \E n \in Name : LinkLost(n)
    \/ Restart

Spec == Init /\ [][Next]_vars

(* The ticker starts runs for ever and each backend call returns; a handler *)
(* that holds the lock goes on.  Requests are not obliged to come, nor one  *)
(* in flight to finish.                                                     *)
FairSpec == Spec /\ WF_vars(RunStep) /\ WF_vars(FinishDelete)
-----------------------------------------------------------------------------
Row == [id: Nat, ver: Nat, enabled: BOOLEAN]

Link == [exists: BOOLEAN, ver: Nat, up: BOOLEAN]

Request == [op: {"patch", "up", "down", "export"}, name: Name,
            row: {r \in Row : Exists(r)}]

(* The values the variables take. *)
TypeOK ==
    /\ ifaces \in [Name -> Row]
    /\ writes \in 0..MaxWrites
    /\ live \in [Name -> Link]
    /\ conf \in [Name -> Nat]
    /\ hookState \in [Name -> {"unseen", "up", "down"}]
    /\ pc \in {"idle", "ifaces", "finish", "delete"}
    /\ snap \in [Name -> Row]
    /\ liveNames \in SUBSET Name
    /\ todo \in SUBSET Name
    /\ cur \in SUBSET Name
    /\ req \in [Handler -> Request \cup {NoRequest}]
    /\ faults \in 0..MaxFaults
    /\ applied \in [Name -> Nat]
    /\ hook \in [Name -> {"none", "preUp", "postUp", "preDown", "postDown"}]

(* A reserved mesh link is never touched: not through a row that import     *)
(* made for it, up or down on that row, its deletion or a restart.          *)
ReservedUntouched == \A n \in Reserved : live[n] = HostLink

(* The link never goes back to an older configuration than one already      *)
(* applied, although every run applies what it listed earlier: runs list    *)
(* and apply under one lock.                                                *)
AppliedInOrder ==
    [][\A n \in Name : live'[n].exists /\ live'[n].ver # live[n].ver
                          => live'[n].ver >= applied[n]]_vars

(* Up and down hooks alternate within one life of the daemon: PostUp only   *)
(* after PreUp, PreDown only after PostUp (or a PreDown whose interface     *)
(* could not be brought down), PostDown only after PreDown, and PreUp never *)
(* while up.  A hook that runs again, as PreUp does at every run in which   *)
(* EnsureInterface fails, is not seen.                                      *)
HookOrder ==
    [][\A n \in Name : hook'[n] # hook[n] =>
          CASE hook'[n] = "preUp"    -> hook[n] \in {"none", "postDown"}
            [] hook'[n] = "postUp"   -> hook[n] = "preUp"
            [] hook'[n] = "preDown"  -> hook[n] = "postUp"
            [] hook'[n] = "postDown" -> hook[n] = "preDown"
            [] hook'[n] = "none"     -> TRUE]_vars

(* Between runs, and as long as nothing has failed, no link is left of an   *)
(* interface that has no row: what Exclusive in handleDeleteInterface is    *)
(* for.                                                                     *)
NoOrphanLink ==
    pc = "idle" /\ faults = 0 =>
        \A n \in Name \ Reserved : live[n].exists => Exists(ifaces[n])

Matches(n) ==
    /\ live[n].exists
    /\ live[n].ver = ifaces[n].ver
    /\ live[n].up = ifaces[n].enabled
    /\ conf[n] = ifaces[n].ver

(* A row that stays as it is: the link, and the exported conf, in the end   *)
(* are what it says, whatever failed, was lost or was written from a stale  *)
(* read before (versions name row contents, so a settled version is a       *)
(* settled row).                                                            *)
Converges ==
    \A n \in Name \ Reserved, v \in 1..MaxWrites :
        <>[](ifaces[n].ver = v) => <>[]Matches(n)

(* docs/ARCHITECTURE.md: the reconciler "diffs desired vs live; applies     *)
(* create/update/delete".  A link without a row is in the end removed.      *)
DeletedIsRemoved ==
    \A n \in Name \ Reserved :
        ~Exists(ifaces[n]) ~> (Exists(ifaces[n]) \/ ~live[n].exists)

(* internal/netutil/reserved.go: names "that wireguardd must never own".    *)
ReservedNeverOwned == \A n \in Reserved : ~Exists(ifaces[n])
=============================================================================
