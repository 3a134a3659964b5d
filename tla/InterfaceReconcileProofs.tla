---------------------- MODULE InterfaceReconcileProofs ----------------------
(***************************************************************************)
(* For every set of interfaces, of reserved names and of concurrent        *)
(* requests: reserved links are never touched, no orphan link is left when *)
(* nothing failed, and the configuration of a link never goes back.        *)
(***************************************************************************)
EXTENDS InterfaceReconcile, TLAPS

(* The walk of a run or of a delete only holds managed names, and while a   *)
(* run walks them their rows stay: DELETE needs the lock the run holds.     *)
Managed ==
    /\ todo \cap Reserved = {}
    /\ cur \cap Reserved = {}

Walk ==
    /\ pc \in {"idle", "delete"} => todo = {}
    /\ pc = "idle" => cur = {}
    /\ pc = "delete" => \A m, k \in cur : m = k
    /\ pc \in {"ifaces", "finish"} => \A n \in todo \cup cur : Exists(ifaces[n])

(* NoOrphanLink, strengthened to hold in the middle of a run or a delete.   *)
NoOrphan ==
    faults = 0 =>
        \A n \in Name \ Reserved :
            live[n].exists => Exists(ifaces[n]) \/ (pc = "delete" /\ n \in cur)

(* Versions grow: what a run listed is no newer than the row, what was      *)
(* applied is no newer than either.                                         *)
Versions ==
    \A n \in Name :
        /\ applied[n] <= writes
        /\ snap[n].ver <= writes
        /\ ifaces[n].ver <= writes
        /\ Exists(ifaces[n]) => applied[n] <= ifaces[n].ver /\ snap[n].ver <= ifaces[n].ver
        /\ n \in todo => applied[n] <= snap[n].ver

IInv == TypeOK /\ Managed /\ ReservedUntouched /\ Walk /\ NoOrphan /\ Versions
-----------------------------------------------------------------------------
(* The initial states satisfy the inductive invariant. *)
LEMMA InitIInv == Init => IInv
<1> SUFFICES ASSUME Init PROVE IInv
    OBVIOUS
<1> USE DEF Init, NoRow, NoLink, HostLink
<1>1. TypeOK
    BY BoundsAssumption DEF TypeOK, Row, Link
<1>2. Managed /\ ReservedUntouched /\ Walk /\ Versions
    BY ReservedAssumption DEF Managed, ReservedUntouched, Walk, Versions, Exists
<1>3. NoOrphan
    BY DEF NoOrphan
<1> QED
    BY <1>1, <1>2, <1>3 DEF IInv

(* A failure adds one fault, and none none. *)
LEMMA FailsType ==
    ASSUME TypeOK, NEW S, Fails(S)
    PROVE  faults' \in 0..MaxFaults /\ (faults' = 0 => faults = 0 /\ S = {})
BY BoundsAssumption DEF TypeOK, Fails

(* A row write makes a row of the next version. *)
LEMMA WrittenRow ==
    ASSUME TypeOK, NEW n \in Name, NEW row \in Row, Written(n, row)
    PROVE  /\ writes' \in 0..MaxWrites
           /\ writes' = writes + 1
           /\ ifaces' \in [Name -> Row]
           /\ ifaces'[n].ver = writes + 1
           /\ ifaces'[n].id = row.id
           /\ \A m \in Name : m # n => ifaces'[m] = ifaces[m]
BY BoundsAssumption DEF TypeOK, Written, Row

(* Removing a link removes it or, when that fails, leaves it.  *)
LEMMA RemoveLinkEffect ==
    ASSUME TypeOK, NEW n \in Name, RemoveLink(n)
    PROVE  /\ live' \in [Name -> Link]
           /\ \A m \in Name : m # n => live'[m] = live[m]
           /\ live'[n] \in {live[n], NoLink}
           /\ faults' \in 0..MaxFaults
           /\ faults' = 0 => faults = 0 /\ live'[n] = NoLink
<1>1. PICK S \in SUBSET {"remove"} :
          Fails(S) /\ live' = IF S = {} THEN [live EXCEPT ![n] = NoLink] ELSE live
    BY DEF RemoveLink
<1>2. NoLink \in Link
    BY DEF NoLink, Link
<1>3. CASE S = {}
    BY <1>1, <1>2, <1>3, FailsType DEF TypeOK
<1>4. CASE S # {}
    BY <1>1, <1>4, FailsType DEF TypeOK
<1> QED
    BY <1>3, <1>4

(* The steps of a run keep the types. *)
LEMMA RunStepType == ASSUME TypeOK, RunStep PROVE TypeOK'
<1> USE DEF TypeOK
<1>1. CASE RunBegin
  <2>1. PICK S \in SUBSET {"devices"} : Fails(S) /\ liveNames' = {n \in Name : S = {} /\ live[n].exists}
    BY <1>1 DEF RunBegin
  <2> QED
    BY <1>1, <2>1, FailsType DEF RunBegin, Desired, RowsOf, dbVars, hostVars, ghosts
<1>2. CASE \E n \in Name : EnsureInterface(n)
  <2>1. PICK n \in Name : EnsureInterface(n)
    BY <1>2
  <2>2. applied' \in [Name -> Nat]
    BY <2>1 DEF EnsureInterface, Reach, Row
  <2>3. hook' \in [Name -> {"none", "preUp", "postUp", "preDown", "postDown"}]
    BY <2>1 DEF EnsureInterface, PreHook
  <2>4. live' \in [Name -> Link]
    BY <2>1 DEF EnsureInterface, Row, Link
  <2> QED
    BY <2>1, <2>2, <2>3, <2>4 DEF EnsureInterface, dbVars
<1>3. CASE \E n \in Name : EnsureFails(n)
  <2>1. PICK n \in Name : EnsureFails(n)
    BY <1>3
  <2>2. applied' \in [Name -> Nat]
    BY <2>1 DEF EnsureFails, Reach, Row
  <2>3. hook' \in [Name -> {"none", "preUp", "postUp", "preDown", "postDown"}]
    BY <2>1 DEF EnsureFails, PreHook
  <2>4. live' \in [Name -> Link]
    <3> DEFINE created == [live[n] EXCEPT !.exists = TRUE]
               configured == [live[n] EXCEPT !.exists = TRUE, !.ver = snap[n].ver]
    <3>1. live[n] \in Link /\ snap[n].ver \in Nat
      BY DEF Row
    <3>2. created \in Link /\ configured \in Link
      BY <3>1 DEF Link
    <3>3. live' = live \/ live' = [live EXCEPT ![n] = created]
             \/ live' = [live EXCEPT ![n] = configured]
      BY <2>1 DEF EnsureFails
    <3> HIDE DEF created, configured
    <3> QED
      BY <3>2, <3>3
  <2> QED
    BY <2>1, <2>2, <2>3, <2>4, FailsType DEF EnsureFails, dbVars
<1>4. CASE \E n \in Name : Finish(n)
  <2>1. PICK n \in Name : Finish(n)
    BY <1>4
  <2>2. PICK S \in SUBSET {"setup", "export"} :
            /\ Fails(S)
            /\ live' = IF "setup" \in S THEN live
                       ELSE [live EXCEPT ![n].up = live[n].exists /\ snap[n].enabled]
            /\ conf' = IF "export" \in S THEN conf ELSE [conf EXCEPT ![n] = snap[n].ver]
    BY <2>1 DEF Finish
  <2>3. live' \in [Name -> Link]
    BY <2>2 DEF Row, Link
  <2>4. conf' \in [Name -> Nat]
    BY <2>2 DEF Row
  <2>5. hook' \in [Name -> {"none", "preUp", "postUp", "preDown", "postDown"}]
    BY <2>1 DEF Finish
  <2>6. hookState' \in [Name -> {"unseen", "up", "down"}]
    BY <2>1 DEF Finish
  <2> QED
    BY <2>1, <2>2, <2>3, <2>4, <2>5, <2>6, FailsType DEF Finish, dbVars
<1>5. CASE \E n \in Name : RemoveStale(n)
  <2>1. PICK n \in Name : RemoveStale(n)
    BY <1>5
  <2>2. live' \in [Name -> Link] /\ faults' \in 0..MaxFaults
    BY <2>1, RemoveLinkEffect DEF RemoveStale
  <2> QED
    BY <2>1, <2>2 DEF RemoveStale, dbVars, locals
<1>6. CASE ListPeersFails
    BY <1>6, FailsType DEF ListPeersFails, LocalsGone, NoRow, Row, dbVars, hostVars, ghosts
<1>7. CASE RunEnd
    BY <1>7 DEF RunEnd, LocalsGone, NoRow, Row, dbVars, hostVars, ghosts
<1> QED
    BY <1>1, <1>2, <1>3, <1>4, <1>5, <1>6, <1>7 DEF RunStep

(* A request in flight that is not NoRequest has a name and the row read. *)
LEMMA RequestFacts ==
    ASSUME TypeOK, NEW h \in Handler, req[h].op # "none"
    PROVE  req[h] \in Request
BY DEF TypeOK, NoRequest

(* A request ends. *)
LEMMA RequestDone ==
    ASSUME TypeOK, NEW h \in Handler, req' = [req EXCEPT ![h] = NoRequest]
    PROVE  req' \in [Handler -> Request \cup {NoRequest}]
BY DEF TypeOK

(* A row is deleted. *)
LEMMA RowDeleted ==
    ASSUME TypeOK, NEW n \in Name, ifaces' = [ifaces EXCEPT ![n] = NoRow]
    PROVE  ifaces' \in [Name -> Row] /\ ~Exists(ifaces'[n]) /\ ifaces'[n].ver = 0
              /\ \A m \in Name : m # n => ifaces'[m] = ifaces[m]
BY DEF TypeOK, NoRow, Row, Exists

(* The rows create, import and update write are rows, with an id. *)
LEMMA CreatedRow ==
    ASSUME TypeOK, NEW e \in BOOLEAN, NEW id \in Nat
    PROVE  [NoRow EXCEPT !.id = id, !.enabled = e] \in Row
              /\ [NoRow EXCEPT !.id = id, !.enabled = e].id = id
BY DEF NoRow, Row

(* An update keeps the id of the row that was read. *)
LEMMA UpdatedRow ==
    ASSUME NEW row \in Row, NEW e \in BOOLEAN
    PROVE  [row EXCEPT !.enabled = e] \in Row /\ [row EXCEPT !.enabled = e].id = row.id
BY DEF Row

(* An import writes a row, under the id of the one it replaces. *)
LEMMA ImportedRow ==
    ASSUME TypeOK, NEW n \in Name, handleInterfaceImport(n)
    PROVE  \E row \in Row : Written(n, row) /\ row.id # 0
<1> DEFINE id == IF Exists(ifaces[n]) THEN ifaces[n].id ELSE writes + 1
<1>1. id \in Nat /\ id # 0
    BY BoundsAssumption DEF TypeOK, Row, Exists
<1>2. Written(n, [NoRow EXCEPT !.id = id, !.enabled = TRUE])
    BY DEF handleInterfaceImport
<1> HIDE DEF id
<1> QED
    BY <1>1, <1>2, CreatedRow

(* Handlers keep the types. *)
LEMMA HandlerStepType == ASSUME TypeOK, HandlerStep PROVE TypeOK'
<1> USE DEF dbVars, hostVars, locals, runVars, ghosts
<1>1. ASSUME NEW n \in Name, NEW e \in BOOLEAN, handleCreateInterface(n, e) PROVE TypeOK'
  <2>1. writes + 1 \in Nat
    BY BoundsAssumption DEF TypeOK
  <2> DEFINE row == [NoRow EXCEPT !.id = writes + 1, !.enabled = e]
  <2>2. row \in Row /\ Written(n, row)
    BY <1>1, <2>1, CreatedRow DEF handleCreateInterface
  <2> HIDE DEF row
  <2> QED
    BY <1>1, <2>2, WrittenRow DEF handleCreateInterface, TypeOK
<1>2. ASSUME NEW n \in Name, handleInterfaceImport(n) PROVE TypeOK'
  <2>1. PICK row \in Row : Written(n, row) /\ row.id # 0
    BY <1>2, ImportedRow
  <2> QED
    BY <1>2, <2>1, WrittenRow DEF handleInterfaceImport, TypeOK
<1>3. ASSUME NEW n \in Name, DeleteReserved(n) PROVE TypeOK'
    BY <1>3, RowDeleted DEF DeleteReserved, TypeOK
<1>4. ASSUME NEW n \in Name, DeleteInterface(n) PROVE TypeOK'
    BY <1>4, RowDeleted DEF DeleteInterface, TypeOK
<1>5. ASSUME NEW h \in Handler, NEW op \in {"patch", "up", "down", "export"}, NEW n \in Name,
             GetInterface(h, op, n)
      PROVE  TypeOK'
  <2>1. [op |-> op, name |-> n, row |-> ifaces[n]] \in Request
    BY <1>5 DEF GetInterface, TypeOK, Request
  <2> QED
    BY <1>5, <2>1 DEF GetInterface, TypeOK
<1>6. ASSUME NEW h \in Handler, NEW e \in BOOLEAN, UpdateInterface(h, e) PROVE TypeOK'
  <2>1. req[h] \in Request
    BY <1>6, RequestFacts DEF UpdateInterface
  <2>2. req[h].name \in Name /\ req[h].row \in Row
    BY <2>1 DEF Request
  <2>3. PICK row \in Row : Written(req[h].name, row)
    BY <1>6, <2>2, UpdatedRow DEF UpdateInterface
  <2> QED
    BY <1>6, <2>2, <2>3, WrittenRow, RequestDone DEF UpdateInterface, TypeOK
<1>7. ASSUME NEW h \in Handler, UpdateNotFound(h) PROVE TypeOK'
    BY <1>7, RequestDone DEF UpdateNotFound, TypeOK
<1>8. ASSUME NEW h \in Handler, handleInterfaceExport(h) PROVE TypeOK'
  <2>1. req[h] \in Request
    BY <1>8, RequestFacts DEF handleInterfaceExport
  <2>2. req[h].row.ver \in Nat
    BY <2>1 DEF Request, Row
  <2> QED
    BY <1>8, <2>2, RequestDone DEF handleInterfaceExport, TypeOK
<1> QED
    BY <1>1, <1>2, <1>3, <1>4, <1>5, <1>6, <1>7, <1>8 DEF HandlerStep

(* Every step keeps the types. *)
LEMMA NextType == ASSUME TypeOK, [Next]_vars PROVE TypeOK'
<1> USE DEF dbVars, hostVars, locals, runVars, ghosts
<1>1. CASE RunStep
    BY <1>1, RunStepType
<1>2. CASE HandlerStep
    BY <1>2, HandlerStepType
<1>3. ASSUME NEW n \in Name, RemoveInterface(n) PROVE TypeOK'
    BY <1>3, RemoveLinkEffect DEF RemoveInterface, TypeOK
<1>4. ASSUME NEW n \in Name, LinkLost(n) PROVE TypeOK'
    BY <1>4, FailsType DEF LinkLost, TypeOK, NoLink, Link
<1>5. CASE Restart
    BY <1>5, FailsType DEF Restart, LocalsGone, NoRow, Row, TypeOK
<1>6. CASE UNCHANGED vars
    BY <1>6 DEF vars, TypeOK
<1> QED
    BY <1>1, <1>2, <1>3, <1>4, <1>5, <1>6 DEF Next, FinishDelete
-----------------------------------------------------------------------------
Rest == Managed /\ ReservedUntouched /\ Walk /\ NoOrphan /\ Versions

(* A write of a row keeps what is not about types: the new version is       *)
(* newer than anything listed or applied.                                   *)
LEMMA WrittenKeeps ==
    ASSUME IInv, NEW n \in Name, NEW row \in Row, row.id # 0, Written(n, row),
           UNCHANGED <<live, todo, cur, pc, snap, applied, faults>>
    PROVE  Rest'
<1> USE WrittenRow DEF IInv
<1>1. \A m \in Name : Exists(ifaces[m]) => Exists(ifaces'[m])
    BY DEF Exists
<1>2. Managed' /\ ReservedUntouched'
    BY DEF Managed, ReservedUntouched
<1>3. Walk'
    BY <1>1 DEF Walk, TypeOK
<1>4. NoOrphan'
    BY <1>1 DEF NoOrphan
<1>5. Versions'
  <2>1. writes \in Nat
    BY BoundsAssumption DEF TypeOK
  <2>2. \A m \in Name : applied[m] \in Nat /\ snap[m].ver \in Nat /\ ifaces[m].ver \in Nat
    BY DEF TypeOK, Row
  <2> QED
    BY <2>1, <2>2 DEF Versions, Exists
<1> QED
    BY <1>2, <1>3, <1>4, <1>5 DEF Rest

(* So does a step that leaves rows, links and the walk alone. *)
LEMMA FrameKeeps ==
    ASSUME IInv, UNCHANGED <<ifaces, writes, live, todo, cur, pc, snap, applied, faults>>
    PROVE  Rest'
BY DEF IInv, Rest, Managed, ReservedUntouched, Walk, NoOrphan, Versions, Exists

(* Handlers. *)
LEMMA HandlerStepRest == ASSUME IInv, HandlerStep PROVE Rest'
<1> USE DEF dbVars, hostVars, locals, runVars, ghosts
<1> TypeOK
    BY DEF IInv
<1>1. ASSUME NEW n \in Name, NEW e \in BOOLEAN, handleCreateInterface(n, e) PROVE Rest'
  <2>1. writes + 1 \in Nat \ {0}
    BY BoundsAssumption DEF TypeOK
  <2> DEFINE row == [NoRow EXCEPT !.id = writes + 1, !.enabled = e]
  <2>2. row \in Row /\ row.id = writes + 1 /\ Written(n, row)
    BY <1>1, <2>1, CreatedRow DEF handleCreateInterface
  <2>3. row.id # 0
    BY <2>1, <2>2
  <2> HIDE DEF row
  <2> QED
    BY <1>1, <2>2, <2>3, WrittenKeeps DEF handleCreateInterface
<1>2. ASSUME NEW n \in Name, handleInterfaceImport(n) PROVE Rest'
  <2>1. PICK row \in Row : Written(n, row) /\ row.id # 0
    BY <1>2, ImportedRow
  <2> QED
    BY <1>2, <2>1, WrittenKeeps DEF handleInterfaceImport
<1>3. ASSUME NEW n \in Name, DeleteReserved(n) PROVE Rest'
  <2> USE <1>3, RowDeleted DEF DeleteReserved, IInv
  <2>1. Managed' /\ ReservedUntouched'
    BY DEF Managed, ReservedUntouched
  <2>2. Walk'
    BY DEF Walk, Managed, TypeOK
  <2>3. NoOrphan'
    BY DEF NoOrphan
  <2>4. Versions'
    <3>1. ifaces'[n].ver = 0 /\ ~Exists(ifaces'[n])
      OBVIOUS
    <3>2. \A m \in Name : m # n => ifaces'[m] = ifaces[m]
      OBVIOUS
    <3>3. 0 <= writes /\ writes' = writes
      BY BoundsAssumption DEF TypeOK
    <3> QED
      BY <3>1, <3>2, <3>3 DEF Versions
  <2> QED
    BY <2>1, <2>2, <2>3, <2>4 DEF Rest
<1>4. ASSUME NEW n \in Name, DeleteInterface(n) PROVE Rest'
  <2> USE <1>4, RowDeleted DEF DeleteInterface, IInv
  <2>1. Managed' /\ ReservedUntouched'
    BY DEF Managed, ReservedUntouched
  <2>2. Walk'
    BY DEF Walk
  <2>3. NoOrphan'
    BY DEF NoOrphan
  <2>4. Versions'
    <3>1. ifaces'[n].ver = 0 /\ ~Exists(ifaces'[n])
      OBVIOUS
    <3>2. \A m \in Name : m # n => ifaces'[m] = ifaces[m]
      OBVIOUS
    <3>3. 0 <= writes /\ writes' = writes
      BY BoundsAssumption DEF TypeOK
    <3> QED
      BY <3>1, <3>2, <3>3 DEF Versions
  <2> QED
    BY <2>1, <2>2, <2>3, <2>4 DEF Rest
<1>5. ASSUME NEW h \in Handler, NEW e \in BOOLEAN, UpdateInterface(h, e) PROVE Rest'
  <2>1. req[h] \in Request
    BY <1>5, RequestFacts DEF UpdateInterface
  <2>2. req[h].name \in Name /\ req[h].row \in Row
    BY <2>1 DEF Request
  <2>3. PICK row \in Row : Written(req[h].name, row) /\ row.id = req[h].row.id
    BY <1>5, <2>2, UpdatedRow DEF UpdateInterface
  <2>4. req[h].row.id # 0
    BY <2>1 DEF Request, Exists
  <2> QED
    BY <1>5, <2>2, <2>3, <2>4, WrittenKeeps DEF UpdateInterface
<1>6. ASSUME NEW h \in Handler,
             \/ \E op \in {"patch", "up", "down", "export"}, n \in Name : GetInterface(h, op, n)
             \/ UpdateNotFound(h)
             \/ handleInterfaceExport(h)
      PROVE  Rest'
    BY <1>6, FrameKeeps DEF GetInterface, UpdateNotFound, handleInterfaceExport
<1> QED
    BY <1>1, <1>2, <1>3, <1>4, <1>5, <1>6 DEF HandlerStep

(* Runs. *)
LEMMA RunStepRest == ASSUME IInv, RunStep PROVE Rest'
<1> USE DEF dbVars, hostVars, locals, runVars, ghosts
<1> TypeOK
    BY DEF IInv
<1>1. CASE RunBegin
  <2>1. PICK S \in SUBSET {"devices"} : Fails(S)
    BY <1>1 DEF RunBegin
  <2>2. faults' = 0 => faults = 0
    BY <2>1, FailsType
  <2> USE <1>1 DEF RunBegin, IInv, Desired, RowsOf
  <2>3. Managed' /\ ReservedUntouched'
    BY DEF Managed, ReservedUntouched
  <2>4. Walk'
    BY DEF Walk
  <2>5. NoOrphan'
    BY <2>2 DEF NoOrphan
  <2>6. Versions'
    BY DEF Versions, TypeOK, Row, Exists
  <2> QED
    BY <2>3, <2>4, <2>5, <2>6 DEF Rest
<1>2. ASSUME NEW n \in Name, EnsureInterface(n) PROVE Rest'
  <2> USE <1>2 DEF EnsureInterface, IInv
  <2>1. n \notin Reserved /\ Exists(ifaces[n])
    BY DEF Managed, Walk
  <2>2. Managed'
    BY <2>1 DEF Managed
  <2>3. ReservedUntouched'
    BY <2>1, ReservedAssumption DEF ReservedUntouched, TypeOK
  <2>4. Walk'
    BY <2>1 DEF Walk
  <2>5. NoOrphan'
    BY <2>1 DEF NoOrphan, TypeOK
  <2>6. applied' \in [Name -> Nat] /\ \A m \in Name :
            \/ applied'[m] = applied[m]
            \/ m = n /\ applied'[m] = snap[m].ver
    BY DEF Versions, TypeOK, Row, Reach
  <2>7. Versions'
    BY <2>6 DEF Versions, TypeOK, Row
  <2> QED
    BY <2>2, <2>3, <2>4, <2>5, <2>7 DEF Rest
<1>3. ASSUME NEW n \in Name, EnsureFails(n) PROVE Rest'
  <2> USE <1>3 DEF EnsureFails, IInv
  <2>1. n \notin Reserved
    BY DEF Managed
  <2>2. Managed' /\ Walk'
    BY DEF Managed, Walk
  <2>3. ReservedUntouched'
    BY <2>1, ReservedAssumption DEF ReservedUntouched, TypeOK
  <2>4. NoOrphan'
    BY FailsType DEF NoOrphan
  <2>5. applied' \in [Name -> Nat] /\ \A m \in Name :
            \/ applied'[m] = applied[m]
            \/ m = n /\ applied'[m] = snap[m].ver
    BY DEF Versions, TypeOK, Row, Reach
  <2>6. Versions'
    BY <2>5 DEF Versions, TypeOK, Row
  <2> QED
    BY <2>2, <2>3, <2>4, <2>6 DEF Rest
<1>4. ASSUME NEW n \in Name, Finish(n) PROVE Rest'
  <2>1. PICK S \in SUBSET {"setup", "export"} :
            /\ Fails(S)
            /\ live' = IF "setup" \in S THEN live
                       ELSE [live EXCEPT ![n].up = live[n].exists /\ snap[n].enabled]
    BY <1>4 DEF Finish
  <2>2. n \notin Reserved
    BY <1>4 DEF Finish, IInv, Managed
  <2>3. \A m \in Name : /\ live'[m].exists = live[m].exists
                        /\ m # n => live'[m] = live[m]
    BY <2>1 DEF TypeOK, Link
  <2>4. faults' = 0 => faults = 0
    BY <2>1, FailsType
  <2>5. Managed' /\ Walk'
    BY <1>4 DEF Managed, Walk, Finish, IInv
  <2>6. ReservedUntouched'
    BY <2>2, <2>3, ReservedAssumption DEF ReservedUntouched, IInv
  <2>7. NoOrphan'
    BY <1>4, <2>3, <2>4 DEF NoOrphan, Finish, IInv
  <2>8. Versions'
    BY <1>4 DEF Versions, Finish, IInv
  <2> QED
    BY <2>5, <2>6, <2>7, <2>8 DEF Rest
<1>5. ASSUME NEW n \in Name, RemoveStale(n) PROVE Rest'
  <2>1. /\ \A m \in Name : live'[m] # live[m] => m \notin Reserved /\ live'[m] = NoLink
        /\ faults' = 0 => faults = 0
    BY <1>5, RemoveLinkEffect DEF RemoveStale
  <2>2. Managed' /\ Walk' /\ Versions'
    BY <1>5 DEF RemoveStale, IInv, Managed, Walk, Versions
  <2>3. ReservedUntouched'
    BY <2>1, ReservedAssumption DEF ReservedUntouched, IInv
  <2>4. NoOrphan'
    BY <1>5, <2>1 DEF RemoveStale, IInv, NoOrphan, NoLink
  <2> QED
    BY <2>2, <2>3, <2>4 DEF Rest
<1>6. CASE ListPeersFails \/ RunEnd
  <2>1. faults' = 0 => faults = 0
    BY <1>6, FailsType DEF ListPeersFails, RunEnd
  <2> USE <1>6 DEF ListPeersFails, RunEnd, LocalsGone, IInv
  <2>2. Managed' /\ ReservedUntouched'
    BY DEF Managed, ReservedUntouched
  <2>3. Walk'
    BY DEF Walk
  <2>4. NoOrphan'
    BY <2>1 DEF NoOrphan
  <2>5. Versions'
    BY BoundsAssumption DEF Versions, TypeOK, NoRow, Row
  <2> QED
    BY <2>2, <2>3, <2>4, <2>5 DEF Rest
<1> QED
    BY <1>1, <1>2, <1>3, <1>4, <1>5, <1>6 DEF RunStep

(* The inductive invariant is preserved by every step. *)
LEMMA NextIInv == ASSUME IInv, [Next]_vars PROVE IInv'
<1> USE DEF dbVars, hostVars, locals, runVars, ghosts
<1>1. TypeOK /\ TypeOK'
    BY NextType DEF IInv
<1>2. CASE RunStep
    BY <1>1, <1>2, RunStepRest DEF Rest, IInv
<1>3. CASE HandlerStep
    BY <1>1, <1>3, HandlerStepRest DEF Rest, IInv
<1>4. ASSUME NEW n \in Name, RemoveInterface(n) PROVE Rest'
  <2>1. /\ \A m \in Name : m # n => live'[m] = live[m]
        /\ faults' = 0 => faults = 0 /\ live'[n] = NoLink
    BY <1>1, <1>4, RemoveLinkEffect DEF RemoveInterface
  <2> USE <1>4 DEF RemoveInterface, IInv
  <2>2. Managed' /\ Walk' /\ Versions'
    BY DEF Managed, Walk, Versions
  <2>3. ReservedUntouched'
    BY <2>1, ReservedAssumption DEF Managed, ReservedUntouched
  <2>4. NoOrphan'
    BY <2>1 DEF NoOrphan, NoLink, Walk
  <2> QED
    BY <2>2, <2>3, <2>4 DEF Rest
<1>5. ASSUME NEW n \in Name, LinkLost(n) PROVE Rest'
  <2>1. \A m \in Name : m # n => live'[m] = live[m]
    BY <1>1, <1>5 DEF LinkLost, TypeOK
  <2>2. faults' # 0
    BY <1>1, <1>5, FailsType DEF LinkLost
  <2> USE <1>5 DEF LinkLost, IInv
  <2>3. Managed' /\ Walk' /\ Versions'
    BY DEF Managed, Walk, Versions
  <2>4. ReservedUntouched'
    BY <2>1, ReservedAssumption DEF ReservedUntouched
  <2>5. NoOrphan'
    BY <2>2 DEF NoOrphan
  <2> QED
    BY <2>3, <2>4, <2>5 DEF Rest
<1>6. CASE Restart
  <2>1. faults' # 0
    BY <1>1, <1>6, FailsType DEF Restart
  <2> USE <1>6 DEF Restart, LocalsGone, IInv
  <2>2. Managed' /\ ReservedUntouched' /\ Walk'
    BY DEF Managed, ReservedUntouched, Walk
  <2>3. NoOrphan'
    BY <2>1 DEF NoOrphan
  <2>4. Versions'
    BY BoundsAssumption DEF Versions, TypeOK, NoRow, Row
  <2> QED
    BY <1>1, <2>2, <2>3, <2>4 DEF Rest
<1>7. CASE UNCHANGED vars
    BY <1>1, <1>7, FrameKeeps DEF vars, Rest, IInv
<1> QED
    BY <1>1, <1>2, <1>3, <1>4, <1>5, <1>6, <1>7 DEF Next, FinishDelete, Rest, IInv

(* The inductive invariant holds in every reachable state. *)
LEMMA SpecIInv == Spec => []IInv
<1>1. Init => IInv
    BY InitIInv
<1>2. IInv /\ [Next]_vars => IInv'
    BY NextIInv
<1> QED
    BY <1>1, <1>2, PTL DEF Spec
-----------------------------------------------------------------------------
(* The variables keep their types (reconciler.go's run, the interface       *)
(* handlers).                                                               *)
THEOREM TypeCorrect == Spec => []TypeOK
<1>1. IInv => TypeOK
    BY DEF IInv
<1> QED
    BY <1>1, SpecIInv, PTL

(* Whatever rows import, up or down leave for a mesh* name, no run and no   *)
(* DELETE touches its link (netutil.ReservedHostInterface).                 *)
THEOREM ReservedStaysUntouched == Spec => []ReservedUntouched
<1>1. IInv => ReservedUntouched
    BY DEF IInv
<1> QED
    BY <1>1, SpecIInv, PTL

(* Exclusive in handleDeleteInterface keeps a run from recreating the link  *)
(* of a row that is being deleted: as long as nothing failed, no link is    *)
(* left without its row.                                                    *)
THEOREM NoOrphanLinkLeft == Spec => []NoOrphanLink
<1>1. IInv => NoOrphanLink
    BY DEF IInv, NoOrphan, NoOrphanLink
<1> QED
    BY <1>1, SpecIInv, PTL

(* One step never puts an older configuration on a link than it had. *)
LEMMA AppliedStep ==
    ASSUME IInv, [Next]_vars, NEW n \in Name, live'[n].exists, live'[n].ver # live[n].ver
    PROVE  live'[n].ver >= applied[n]
<1> USE DEF dbVars, hostVars, locals, runVars, ghosts
<1> TypeOK /\ Versions
    BY DEF IInv
<1>1. ASSUME NEW m \in Name, EnsureInterface(m) PROVE live'[n].ver >= applied[n]
  <2>1. live'[n].ver = snap[n].ver /\ n \in todo
    BY <1>1 DEF EnsureInterface, TypeOK
  <2> QED
    BY <2>1 DEF Versions, TypeOK, Row
<1>2. ASSUME NEW m \in Name, EnsureFails(m) PROVE live'[n].ver >= applied[n]
  <2>1. live'[n].ver = snap[n].ver /\ n \in todo
    BY <1>2 DEF EnsureFails, TypeOK, Link
  <2> QED
    BY <2>1 DEF Versions, TypeOK, Row
<1>3. ASSUME NEW m \in Name, Finish(m) PROVE live'[n].ver = live[n].ver
    BY <1>3 DEF Finish, TypeOK, Link
<1>4. ASSUME NEW m \in Name, RemoveStale(m) \/ RemoveInterface(m) \/ LinkLost(m)
      PROVE  live'[n] = live[n] \/ live'[n] = NoLink
    BY <1>4, RemoveLinkEffect DEF RemoveStale, RemoveInterface, LinkLost, TypeOK
<1>5. RunBegin \/ ListPeersFails \/ RunEnd \/ HandlerStep \/ Restart \/ UNCHANGED vars
         => live' = live
    BY DEF RunBegin, ListPeersFails, RunEnd, HandlerStep, Restart, vars,
           handleCreateInterface, handleInterfaceImport, DeleteReserved, DeleteInterface,
           GetInterface, UpdateInterface, UpdateNotFound, handleInterfaceExport
<1> QED
    BY <1>1, <1>2, <1>3, <1>4, <1>5 DEF Next, RunStep, FinishDelete, NoLink

(* Runs list and apply under one lock, so a link never goes back to an      *)
(* older configuration, whichever handlers write meanwhile and whatever     *)
(* fails.                                                                   *)
THEOREM NeverAppliesOlder == Spec => AppliedInOrder
<1>1. IInv /\ [Next]_vars =>
          [\A n \in Name : live'[n].exists /\ live'[n].ver # live[n].ver
                              => live'[n].ver >= applied[n]]_vars
    BY AppliedStep
<1> QED
    BY <1>1, SpecIInv, PTL DEF Spec, AppliedInOrder
-----------------------------------------------------------------------------
(* Hooks *)

(* An interface believed up had its PostUp last, or a PreDown after which   *)
(* EnsureInterface failed; one that is not had none, PostDown or a PreUp    *)
(* without success.  Between EnsureInterface and the post hooks the pre     *)
(* hook of the same transition was the last one.                            *)
HookInv ==
    /\ \A n \in Name : hook[n] \in IF hookState[n] = "up" THEN {"postUp", "preDown"}
                                   ELSE {"none", "preUp", "postDown"}
    /\ pc = "finish" => \A n \in cur : /\ GoingUp(n) => hook[n] = "preUp"
                                       /\ GoingDown(n) => hook[n] = "preDown"

(* A hook that may follow the last one. *)
Follows(before, after) ==
    \/ after = before
    \/ after = "preUp" /\ before \in {"none", "postDown"}
    \/ after = "postUp" /\ before = "preUp"
    \/ after = "preDown" /\ before = "postUp"
    \/ after = "postDown" /\ before = "preDown"
    \/ after = "none"

LEMMA PreHookStep ==
    ASSUME TypeOK, HookInv, NEW n \in Name, PreHook(n), hookState' = hookState, snap' = snap
    PROVE  /\ \A m \in Name : /\ hook'[m] \in IF hookState'[m] = "up" THEN {"postUp", "preDown"}
                                              ELSE {"none", "preUp", "postDown"}
                              /\ Follows(hook[m], hook'[m])
           /\ GoingUp(n)' => hook'[n] = "preUp"
           /\ GoingDown(n)' => hook'[n] = "preDown"
<1>1. /\ hook'[n] = IF GoingUp(n) THEN "preUp" ELSE IF GoingDown(n) THEN "preDown" ELSE hook[n]
      /\ \A m \in Name \ {n} : hook'[m] = hook[m]
  BY DEF PreHook, TypeOK
<1>2. \A m \in Name : hook[m] \in IF hookState[m] = "up" THEN {"postUp", "preDown"}
                                  ELSE {"none", "preUp", "postDown"}
  BY DEF HookInv
<1> QED
  BY <1>1, <1>2 DEF GoingUp, GoingDown, Follows

LEMMA HookStep ==
    ASSUME TypeOK, HookInv, [Next]_vars
    PROVE  HookInv' /\ \A m \in Name : Follows(hook[m], hook'[m])
<1>1. CASE UNCHANGED <<hookState, hook, pc, cur, snap>>
  BY <1>1 DEF HookInv, GoingUp, GoingDown, Follows
<1>2. CASE UNCHANGED <<hookState, hook>> /\ pc' # "finish"
  BY <1>2 DEF HookInv, Follows
<1>3. CASE RunBegin \/ ListPeersFails \/ RunEnd
  BY <1>2, <1>3 DEF RunBegin, ListPeersFails, RunEnd, ghosts
<1>4. ASSUME NEW n \in Name, EnsureInterface(n)
      PROVE  HookInv' /\ \A m \in Name : Follows(hook[m], hook'[m])
  <2>1. PreHook(n) /\ hookState' = hookState /\ snap' = snap /\ cur' = {n}
    BY <1>4 DEF EnsureInterface
  <2> QED
    BY <2>1, PreHookStep DEF HookInv
<1>5. ASSUME NEW n \in Name, EnsureFails(n)
      PROVE  HookInv' /\ \A m \in Name : Follows(hook[m], hook'[m])
  <2>1. PreHook(n) /\ hookState' = hookState /\ snap' = snap /\ pc' = "ifaces"
    BY <1>5 DEF EnsureFails
  <2> QED
    BY <2>1, PreHookStep DEF HookInv
<1>6. ASSUME NEW n \in Name, Finish(n)
      PROVE  HookInv' /\ \A m \in Name : Follows(hook[m], hook'[m])
  <2>1. /\ hook'[n] = IF GoingUp(n) THEN "postUp" ELSE IF GoingDown(n) THEN "postDown" ELSE hook[n]
        /\ hookState'[n] = IF snap[n].enabled THEN "up" ELSE "down"
        /\ \A m \in Name \ {n} : hook'[m] = hook[m] /\ hookState'[m] = hookState[m]
        /\ pc' = "ifaces" /\ pc = "finish" /\ n \in cur
    BY <1>6 DEF Finish, TypeOK
  <2>2. hookState[n] \in {"unseen", "up", "down"} /\ snap[n].enabled \in BOOLEAN
    BY DEF TypeOK, Row
  <2> QED
    BY <2>1, <2>2 DEF HookInv, GoingUp, GoingDown, Follows
<1>7. ASSUME NEW n \in Name, RemoveStale(n)
      PROVE  HookInv' /\ \A m \in Name : Follows(hook[m], hook'[m])
  <2>1. /\ hook' = [hook EXCEPT ![n] = "none"] /\ hookState' = [hookState EXCEPT ![n] = "unseen"]
        /\ pc' = "ifaces"
    BY <1>7 DEF RemoveStale
  <2> QED
    BY <2>1 DEF HookInv, Follows, TypeOK
<1>8. CASE Restart
  BY <1>8 DEF Restart, HookInv, Follows
<1>9. CASE HandlerStep
  <2>1. CASE \E n \in Name : DeleteInterface(n)
    BY <1>2, <2>1 DEF DeleteInterface, ghosts
  <2>2. CASE UNCHANGED <<runVars, ghosts>>
    BY <1>1, <2>2 DEF runVars, locals, ghosts
  <2> QED
    BY <1>9, <2>1, <2>2 DEF HandlerStep, handleCreateInterface, handleInterfaceImport,
       DeleteReserved, GetInterface, UpdateInterface, UpdateNotFound, handleInterfaceExport
<1>10. CASE FinishDelete
  BY <1>2, <1>10 DEF FinishDelete, RemoveInterface, ghosts
<1>11. CASE (\E n \in Name : LinkLost(n)) \/ UNCHANGED vars
  BY <1>1, <1>11 DEF LinkLost, vars, runVars, locals, ghosts
<1> QED
  BY <1>3, <1>4, <1>5, <1>6, <1>7, <1>8, <1>9, <1>10, <1>11 DEF Next, RunStep

(* Hooks come in the order up and down transitions have, whatever fails or  *)
(* changes between two runs (hookState in Reconciler.run).                  *)
THEOREM HooksInOrder == Spec => HookOrder
<1>1. Init => HookInv
  BY DEF Init, HookInv
<1>2. TypeOK /\ HookInv /\ [Next]_vars => HookInv'
  BY HookStep
<1>3. TypeOK /\ HookInv /\ [Next]_vars =>
          [\A n \in Name : hook'[n] # hook[n] =>
             CASE hook'[n] = "preUp"    -> hook[n] \in {"none", "postDown"}
               [] hook'[n] = "postUp"   -> hook[n] = "preUp"
               [] hook'[n] = "preDown"  -> hook[n] = "postUp"
               [] hook'[n] = "postDown" -> hook[n] = "preDown"
               [] hook'[n] = "none"     -> TRUE]_vars
  <2> SUFFICES ASSUME TypeOK, HookInv, [Next]_vars, NEW n \in Name, hook'[n] # hook[n]
               PROVE  CASE hook'[n] = "preUp"    -> hook[n] \in {"none", "postDown"}
                        [] hook'[n] = "postUp"   -> hook[n] = "preUp"
                        [] hook'[n] = "preDown"  -> hook[n] = "postUp"
                        [] hook'[n] = "postDown" -> hook[n] = "preDown"
                        [] hook'[n] = "none"     -> TRUE
    OBVIOUS
  <2>1. Follows(hook[n], hook'[n])
    BY HookStep
  <2> QED
    BY <2>1 DEF Follows
<1> QED
  BY <1>1, <1>2, <1>3, TypeCorrect, PTL DEF Spec, HookOrder
=============================================================================
