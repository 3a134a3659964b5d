------------------------ MODULE PeerAccountingProofs ------------------------
(***************************************************************************)
(* For every set of keys, every bound, every choice of requests and        *)
(* failures: PeerAccounting keeps its types, no row's lifetime drops, and  *)
(* no byte is billed twice or, where nothing is lost, not at all.          *)
(***************************************************************************)
EXTENDS PeerAccounting, TLAPS, FiniteSetTheorems

(* What a run's locals hold: rows still to be sampled are rows it listed,  *)
(* and only the sampling loop has any.                                     *)
RunLocals ==
    /\ todo \subseteq RowsOf(snap)
    /\ pc # "sample" => todo = {}

(* AUTOINCREMENT: an id above the last one inserted was never listed.      *)
IdsFresh ==
    \A id \in Id : id > lastId => ~Exists(peers[id]) /\ ~Exists(snap[id])

IInv == TypeOK /\ RunLocals /\ IdsFresh /\ SnapshotCurrent
-----------------------------------------------------------------------------
(* AccumulateLifetime returns a counter and never one below the lifetime   *)
(* it was given.                                                           *)
LEMMA AccumulateGrows ==
    ASSUME NEW life \in Nat, NEW cur \in Nat, NEW prev \in Nat \cup {NoSample}
    PROVE  /\ AccumulateLifetime(life, cur, prev) \in Nat
           /\ AccumulateLifetime(life, cur, prev) >= life
<1>1. CASE prev # NoSample /\ cur >= prev
  BY <1>1 DEF AccumulateLifetime, NoSample
<1>2. CASE prev # NoSample /\ cur < prev
  BY <1>2 DEF AccumulateLifetime, NoSample
<1>3. CASE prev = NoSample /\ cur >= life
  BY <1>3 DEF AccumulateLifetime, NoSample
<1>4. CASE prev = NoSample /\ cur < life
  BY <1>4 DEF AccumulateLifetime, NoSample
<1> QED
  BY <1>1, <1>2, <1>3, <1>4 DEF NoSample

(* A row exists exactly when it is a live row. *)
LEMMA RowFacts ==
    /\ NoRow \in Row
    /\ ~Exists(NoRow)
    /\ \A r \in Row : Exists(r) <=> r \in LiveRow
    /\ LiveRow \subseteq Row
    /\ \A r \in Row : r.life \in Nat
BY PubAssumption DEF Row, LiveRow, NoRow, Exists

(* The initial states satisfy the inductive invariant. *)
LEMMA InitIInv == Init => IInv
<1> SUFFICES ASSUME Init PROVE IInv
  OBVIOUS
<1>1. TypeOK
  <2>1. peers \in [Id -> Row] /\ snap \in [Id -> Row]
    BY RowFacts DEF Init
  <2>2. lastId \in 0..MaxId /\ carried \in Nat
    BY BoundAssumption DEF Init
  <2>3. late \in BOOLEAN
    BY DEF Init
  <2>4. /\ kern \in [Pub -> {"absent", "closed", "open"}]
        /\ raw \in [Pub -> Nat]
        /\ prevSample \in [Pub -> Nat \cup {NoSample}]
        /\ dev \in [Pub -> Nat]
    BY DEF Init
  <2>5. /\ pc \in {"idle", "enforce", "device", "sample", "prune"}
        /\ todo \in SUBSET Id
    BY DEF Init
  <2>6. req \in [Handler -> Request \cup {NoRequest}]
    BY DEF Init
  <2>7. owner \in [Pub -> Id \cup {0}] /\ bill \in [Id -> Nat]
    BY DEF Init
  <2> QED
    BY <2>1, <2>2, <2>3, <2>4, <2>5, <2>6, <2>7 DEF TypeOK
<1>2. RunLocals /\ IdsFresh /\ SnapshotCurrent
  BY RowFacts DEF Init, RunLocals, IdsFresh, SnapshotCurrent, RowsOf
<1> QED
  BY <1>1, <1>2 DEF IInv

(* The rows that the writes of the model make are rows again. *)
LEMMA RowWrites ==
    ASSUME NEW r \in LiveRow
    PROVE  /\ \A v \in BOOLEAN : /\ [r EXCEPT !.susp = v] \in LiveRow
                                 /\ [r EXCEPT !.exp = v] \in LiveRow
           /\ \A n \in Nat : /\ [r EXCEPT !.life = n] \in LiveRow
                             /\ [r EXCEPT !.life = n].life = n
                             /\ [r EXCEPT !.life = n].pub = r.pub
                             /\ [r EXCEPT !.offset = n] \in LiveRow
                             /\ [r EXCEPT !.offset = n].life = r.life
                             /\ [r EXCEPT !.limit = n] \in LiveRow
           /\ \A v : [r EXCEPT !.susp = v].life = r.life /\ [r EXCEPT !.susp = v].pub = r.pub
           /\ \A p \in Pub : [r EXCEPT !.pub = p, !.offset = 0, !.life = 0] \in LiveRow
BY DEF LiveRow

(* The row a create inserts is a live row. *)
LEMMA NewRow ==
    ASSUME NEW p \in Pub, NEW l \in Nat, NEW e \in BOOLEAN
    PROVE  [NoRow EXCEPT !.pub = p, !.limit = l, !.exp = e] \in LiveRow
BY DEF LiveRow, NoRow

(* What a PATCH can make of a live row is a live row. *)
LEMMA PatchedRows ==
    ASSUME NEW r \in LiveRow, NEW new \in Patched(r)
    PROVE  new \in LiveRow
<1>1. CASE new = r
  BY <1>1
<1>2. CASE \E v \in BOOLEAN : new = [r EXCEPT !.susp = v]
  <2>1. PICK v \in BOOLEAN : new = [r EXCEPT !.susp = v]
    BY <1>2
  <2> QED
    BY <2>1, RowWrites
<1>3. CASE \E l \in Limits : new = [r EXCEPT !.limit = l]
  <2>1. PICK l \in Limits : new = [r EXCEPT !.limit = l]
    BY <1>3
  <2>2. l \in Nat
    BY LimitsAssumption
  <2> QED
    BY <2>1, <2>2, RowWrites
<1>4. CASE \E v \in BOOLEAN : new = [r EXCEPT !.exp = v]
  BY <1>4, RowWrites
<1> QED
  BY <1>1, <1>2, <1>3, <1>4 DEF Patched

(* What a write of one column does to the table. *)
LEMMA SuspWrite ==
    ASSUME NEW rows \in [Id -> Row], NEW id \in Id, Exists(rows[id]), NEW v \in BOOLEAN
    PROVE  LET new == [rows EXCEPT ![id].susp = v]
           IN  /\ new \in [Id -> Row]
               /\ \A i \in Id : Exists(new[i]) <=> Exists(rows[i])
               /\ \A i \in Id : new[i].life = rows[i].life /\ new[i].pub = rows[i].pub
<1> DEFINE r == rows[id]
           w == [r EXCEPT !.susp = v]
           new == [rows EXCEPT ![id] = w]
<1>1. r \in LiveRow
  BY RowFacts
<1>2. w \in LiveRow /\ w.life = r.life /\ w.pub = r.pub /\ w \in Row
  BY <1>1, RowWrites, RowFacts
<1>3. Exists(w)
  BY <1>2, RowFacts
<1> HIDE DEF w
<1>4. /\ new \in [Id -> Row]
      /\ \A i \in Id : Exists(new[i]) <=> Exists(rows[i])
      /\ \A i \in Id : new[i].life = rows[i].life /\ new[i].pub = rows[i].pub
  BY <1>2, <1>3
<1> QED
  BY <1>4 DEF w

(* The effect of UpdatePeerStats on the rows. *)
LEMMA LifeWrite ==
    ASSUME NEW rows \in [Id -> Row], NEW id \in Id, Exists(rows[id]), NEW n \in Nat
    PROVE  LET new == [rows EXCEPT ![id].life = n]
           IN  /\ new \in [Id -> Row]
               /\ \A i \in Id : Exists(new[i]) <=> Exists(rows[i])
               /\ \A i \in Id \ {id} : new[i] = rows[i]
               /\ new[id].life = n /\ new[id].pub = rows[id].pub
<1> DEFINE r == rows[id]
           w == [r EXCEPT !.life = n]
           new == [rows EXCEPT ![id] = w]
<1>1. r \in LiveRow
  BY RowFacts
<1>2. w \in LiveRow /\ w.life = n /\ w.pub = r.pub /\ w \in Row
  BY <1>1, RowWrites, RowFacts
<1>3. Exists(w)
  BY <1>2, RowFacts
<1> HIDE DEF w
<1>4. /\ new \in [Id -> Row]
      /\ \A i \in Id : Exists(new[i]) <=> Exists(rows[i])
      /\ \A i \in Id \ {id} : new[i] = rows[i]
      /\ new[id].life = n /\ new[id].pub = rows[id].pub
  BY <1>2, <1>3
<1> QED
  BY <1>4 DEF w

(* A free handler is not a request. *)
LEMMA NoRequestIsNone == NoRequest \notin Request /\ NoRequest.op = "none"
BY DEF NoRequest, Request
-----------------------------------------------------------------------------
(* The run's own steps keep the invariant. *)
LEMMA RunStepIInv == IInv /\ RunStep => IInv'
<1> SUFFICES ASSUME IInv, RunStep PROVE IInv'
  OBVIOUS
<1> USE RowFacts DEF IInv
<1>1. CASE RunBegin
  <2>1. TypeOK'
    BY <1>1 DEF RunBegin, TypeOK, dbVars, kernVars, ghosts
  <2>2. RunLocals' /\ IdsFresh' /\ SnapshotCurrent'
    BY <1>1 DEF RunBegin, TypeOK, RunLocals, IdsFresh, SnapshotCurrent, RowsOf, dbVars
  <2> QED
    BY <2>1, <2>2
<1>2. ASSUME NEW id \in Id, Enforce(id) PROVE IInv'
  <2>1. snap[id] \in LiveRow
    BY <1>2 DEF Enforce, ShouldAutoSuspend, TypeOK
  <2>2. snap' \in [Id -> Row]
    BY <1>2, <2>1, RowWrites DEF Enforce, TypeOK
  <2>3. /\ peers' \in [Id -> Row]
        /\ \A i \in Id : Exists(peers'[i]) <=> Exists(peers[i])
        /\ \A i \in Id : peers'[i].life = peers[i].life
    <3>1. \/ peers' = peers
          \/ Exists(peers[id]) /\ peers' = [peers EXCEPT ![id].susp = TRUE]
      BY <1>2 DEF Enforce, SetPeerSuspended
    <3>2. peers \in [Id -> Row]
      BY DEF TypeOK
    <3>3. CASE peers' = peers
      BY <3>2, <3>3
    <3>4. CASE Exists(peers[id]) /\ peers' = [peers EXCEPT ![id].susp = TRUE]
      BY <3>2, <3>4, SuspWrite
    <3> QED
      BY <3>1, <3>3, <3>4
  <2>4. TypeOK'
    BY <1>2, <2>2, <2>3 DEF Enforce, TypeOK, kernVars, ghosts
  <2>5. \A i \in Id : /\ Exists(snap'[i]) <=> Exists(snap[i])
                      /\ snap'[i].life = snap[i].life
    <3>1. snap \in [Id -> Row] /\ Exists(snap[id])
      BY <2>1 DEF TypeOK
    <3>2. snap' = [snap EXCEPT ![id].susp = TRUE]
      BY <1>2 DEF Enforce
    <3> QED
      BY <3>1, <3>2, SuspWrite
  <2>6. RunLocals' /\ IdsFresh' /\ SnapshotCurrent'
    BY <1>2, <2>3, <2>5 DEF Enforce, TypeOK, RunLocals, IdsFresh, SnapshotCurrent, RowsOf
  <2> QED
    BY <2>4, <2>6
<1>3. CASE ApplyPeers
  <2>1. TypeOK'
    BY <1>3 DEF ApplyPeers, TypeOK, dbVars, ghosts
  <2>2. RunLocals' /\ IdsFresh' /\ SnapshotCurrent'
    BY <1>3 DEF ApplyPeers, TypeOK, RunLocals, IdsFresh, SnapshotCurrent, RowsOf, dbVars
  <2> QED
    BY <2>1, <2>2
<1>4. CASE BackendError
  <2>1. TypeOK'
    BY <1>4 DEF BackendError, TypeOK, dbVars, kernVars, ghosts
  <2>2. RunLocals' /\ IdsFresh' /\ SnapshotCurrent'
    BY <1>4 DEF BackendError, TypeOK, RunLocals, IdsFresh, SnapshotCurrent, RowsOf, dbVars
  <2> QED
    BY <2>1, <2>2
<1>5. CASE ReadDevice
  <2>1. TypeOK'
    BY <1>5 DEF ReadDevice, TypeOK, RowsOf, dbVars, kernVars, ghosts
  <2>2. RunLocals' /\ IdsFresh' /\ SnapshotCurrent'
    BY <1>5 DEF ReadDevice, TypeOK, RunLocals, IdsFresh, SnapshotCurrent, RowsOf, dbVars
  <2> QED
    BY <2>1, <2>2
<1>6. ASSUME NEW id \in Id, SamplePeer(id) PROVE IInv'
  <2> DEFINE p == snap[id].pub
             life == AccumulateLifetime(snap[id].life, dev[p], prevSample[p])
  <2>1. snap[id] \in LiveRow /\ p \in Pub /\ snap[id].life \in Nat
    BY <1>6 DEF SamplePeer, RunLocals, RowsOf, TypeOK, LiveRow
  <2>2. life \in Nat
    BY <2>1, AccumulateGrows DEF TypeOK
  <2> HIDE DEF life
  <2>3. /\ peers' \in [Id -> Row]
        /\ \A i \in Id : Exists(peers'[i]) <=> Exists(peers[i])
        /\ \A i \in Id \ {id} : peers'[i] = peers[i]
    <3>1. \/ peers' = peers
          \/ Exists(peers[id]) /\ peers' = [peers EXCEPT ![id].life = life]
      BY <1>6 DEF SamplePeer, UpdatePeerStats, life
    <3>2. peers \in [Id -> Row]
      BY DEF TypeOK
    <3> QED
      BY <2>2, <3>1, <3>2, LifeWrite
  <2>4. prevSample' \in [Pub -> Nat \cup {NoSample}]
    BY <1>6, <2>1 DEF SamplePeer, TypeOK
  <2>5. TypeOK'
    BY <1>6, <2>3, <2>4 DEF SamplePeer, TypeOK, kernVars, ghosts
  <2>6. RunLocals' /\ IdsFresh' /\ SnapshotCurrent'
    BY <1>6, <2>3 DEF SamplePeer, TypeOK, RunLocals, IdsFresh, SnapshotCurrent, RowsOf
  <2> QED
    BY <2>5, <2>6
<1>7. CASE Prune
  <2>1. TypeOK'
    <3>1. prevSample' \in [Pub -> Nat \cup {NoSample}]
      BY <1>7 DEF Prune, TypeOK
    <3>2. snap' \in [Id -> Row] /\ dev' \in [Pub -> Nat]
      BY <1>7 DEF Prune
    <3> QED
      BY <1>7, <3>1, <3>2 DEF Prune, TypeOK, dbVars, kernVars, ghosts
  <2>2. RunLocals' /\ IdsFresh' /\ SnapshotCurrent'
    BY <1>7 DEF Prune, TypeOK, RunLocals, IdsFresh, SnapshotCurrent, RowsOf, dbVars
  <2> QED
    BY <2>1, <2>2
<1> QED
  BY <1>1, <1>2, <1>3, <1>4, <1>5, <1>6, <1>7 DEF RunStep
-----------------------------------------------------------------------------
(* A write that leaves the lifetimes of the table alone keeps what the run *)
(* in progress relies on.                                                  *)
LEMMA KeepsSnapshot ==
    ASSUME IInv, TypeOK',
           lastId' = lastId,
           UNCHANGED <<pc, snap, todo>>,
           \A i \in Id : Exists(peers'[i]) =>
                 Exists(peers[i]) /\ peers'[i].life = peers[i].life
    PROVE  IInv'
BY DEF IInv, TypeOK, RunLocals, IdsFresh, SnapshotCurrent, RowsOf

(* The owner and bill of a key taken keep their types. *)
LEMMA TakeKeyType ==
    ASSUME TypeOK, NEW id \in Id, NEW p \in Pub, TakeKey(id, p)
    PROVE  owner' \in [Pub -> Id \cup {0}] /\ bill' \in [Id -> Nat] /\ carried' \in Nat
BY DEF TypeOK, TakeKey

(* UpdatePeer writes live rows and keeps every lifetime. *)
LEMMA UpdatePeerType ==
    ASSUME TypeOK, NEW id \in Id, Exists(peers[id]), NEW row \in LiveRow
    PROVE  /\ UpdatePeer(id, row) \in [Id -> Row]
           /\ \A i \in Id : Exists(UpdatePeer(id, row)[i]) <=> Exists(peers[i])
           /\ \A i \in Id : UpdatePeer(id, row)[i].life = peers[i].life
<1> DEFINE w == [row EXCEPT !.life = peers[id].life]
<1>1. peers \in [Id -> Row] /\ peers[id].life \in Nat
  BY RowFacts DEF TypeOK
<1>2. w \in LiveRow /\ w.life = peers[id].life
  BY <1>1, RowWrites
<1>3. w \in Row /\ Exists(w)
  BY <1>2, RowFacts
<1> HIDE DEF w
<1>4. UpdatePeer(id, row) = [peers EXCEPT ![id] = w]
  BY DEF UpdatePeer, w
<1> QED
  BY <1>1, <1>2, <1>3, <1>4

(* A request being served names a row id and holds a row. *)
LEMMA RequestFacts ==
    ASSUME TypeOK, NEW h \in Handler, req[h] # NoRequest
    PROVE  req[h].id \in Id /\ req[h].row \in LiveRow
BY DEF TypeOK, Request

(* A handler that answers is free again. *)
LEMMA RequestDone ==
    ASSUME TypeOK, NEW h \in Handler, req' = [req EXCEPT ![h] = NoRequest]
    PROVE  req' \in [Handler -> Request \cup {NoRequest}]
BY DEF TypeOK

(* The handlers keep the invariant. *)
LEMMA HandlerStepIInv == IInv /\ HandlerStep => IInv'
<1> SUFFICES ASSUME IInv, HandlerStep PROVE IInv'
  OBVIOUS
<1>0. TypeOK
  BY DEF IInv
<1>1. ASSUME NEW p \in Pub, NEW l \in Limits, NEW e \in BOOLEAN, handleCreatePeer(p, l, e)
      PROVE  IInv'
  <2> DEFINE n == lastId + 1
             row == [NoRow EXCEPT !.pub = p, !.limit = l, !.exp = e]
  <2>1. n \in Id /\ lastId' \in 0..MaxId /\ lastId' = n
    BY <1>0, <1>1, BoundAssumption DEF handleCreatePeer, TypeOK, Id
  <2>2. row \in LiveRow /\ row \in Row
    BY NewRow, RowFacts, LimitsAssumption
  <2> HIDE DEF row
  <2>3. peers' = [peers EXCEPT ![n] = row]
    BY <1>1 DEF handleCreatePeer, row
  <2>4. owner' \in [Pub -> Id \cup {0}] /\ bill' \in [Id -> Nat] /\ carried' \in Nat
    BY <1>0, <1>1, <2>1, TakeKeyType DEF handleCreatePeer
  <2>5. peers' \in [Id -> Row]
    BY <1>0, <2>1, <2>2, <2>3 DEF TypeOK
  <2>6. TypeOK'
    BY <1>0, <1>1, <2>1, <2>4, <2>5 DEF handleCreatePeer, TypeOK, kernVars, runVars
  <2>7. \A i \in Id \ {n} : peers'[i] = peers[i]
    BY <1>0, <2>3 DEF TypeOK
  <2>8. ~Exists(snap[n])
    BY <1>0, <2>1 DEF IInv, IdsFresh, TypeOK
  <2>9. RunLocals' /\ IdsFresh' /\ SnapshotCurrent'
    <3>1. UNCHANGED <<pc, snap, todo>>
      BY <1>1 DEF handleCreatePeer, runVars
    <3>2. RunLocals'
      BY <3>1 DEF IInv, RunLocals, RowsOf
    <3>3. IdsFresh'
      BY <1>0, <2>1, <2>7, <3>1 DEF IInv, IdsFresh, TypeOK, Id
    <3>4. SnapshotCurrent'
      BY <2>7, <2>8, <3>1 DEF IInv, SnapshotCurrent
    <3> QED
      BY <3>2, <3>3, <3>4
  <2> QED
    BY <2>6, <2>9 DEF IInv
<1>2. ASSUME NEW id \in Id, handleDeletePeer(id) PROVE IInv'
  <2>1. peers' = [peers EXCEPT ![id] = NoRow]
    BY <1>2 DEF handleDeletePeer
  <2>2. TypeOK'
    BY <1>0, <1>2, <2>1, RowFacts DEF handleDeletePeer, TypeOK, kernVars, runVars, ghosts
  <2>3. \A i \in Id : Exists(peers'[i]) => Exists(peers[i]) /\ peers'[i].life = peers[i].life
    BY <1>0, <2>1, RowFacts DEF TypeOK
  <2> QED
    BY <1>2, <2>2, <2>3, KeepsSnapshot DEF handleDeletePeer, runVars
<1>3. ASSUME NEW id \in Id, NEW v \in BOOLEAN, setSuspend(id, v) PROVE IInv'
  <2>1. Exists(peers[id]) /\ peers' = [peers EXCEPT ![id].susp = v]
    BY <1>3 DEF setSuspend, SetPeerSuspended
  <2>2. peers \in [Id -> Row]
    BY <1>0 DEF TypeOK
  <2>3. /\ peers' \in [Id -> Row]
        /\ \A i \in Id : Exists(peers'[i]) <=> Exists(peers[i])
        /\ \A i \in Id : peers'[i].life = peers[i].life
    BY <2>1, <2>2, SuspWrite
  <2>4. TypeOK'
    BY <1>0, <1>3, <2>3 DEF setSuspend, TypeOK, kernVars, runVars, ghosts
  <2> QED
    BY <1>3, <2>3, <2>4, KeepsSnapshot DEF setSuspend, runVars
<1>4. ASSUME NEW h \in Handler, NEW op \in {"patch", "reset", "rotate"}, NEW id \in Id,
             GetPeer(h, op, id)
      PROVE  IInv'
  <2>1. peers[id] \in LiveRow
    BY <1>0, <1>4, RowFacts DEF GetPeer, TypeOK
  <2>2. req' \in [Handler -> Request \cup {NoRequest}]
    BY <1>0, <1>4, <2>1 DEF GetPeer, TypeOK, Request
  <2>3. TypeOK'
    BY <1>0, <1>4, <2>2 DEF GetPeer, TypeOK, dbVars, kernVars, runVars, ghosts
  <2> QED
    BY <1>4, <2>3, KeepsSnapshot DEF GetPeer, dbVars, runVars
<1>5. ASSUME NEW h \in Handler, RequestFails(h) PROVE IInv'
  <2>1. TypeOK'
    BY <1>0, <1>5, RequestDone DEF RequestFails, TypeOK, dbVars, kernVars, runVars, ghosts
  <2> QED
    BY <1>5, <2>1, KeepsSnapshot DEF RequestFails, dbVars, runVars
<1>6. ASSUME NEW h \in Handler, NEW new \in Patched(req[h].row), handleUpdatePeer(h, new)
      PROVE  IInv'
  <2> DEFINE id == req[h].id
  <2>1. req[h] # NoRequest
    BY <1>6, NoRequestIsNone DEF handleUpdatePeer
  <2>2. id \in Id /\ new \in LiveRow
    BY <1>0, <2>1, RequestFacts, PatchedRows
  <2>3. Exists(peers[id]) /\ peers' = UpdatePeer(id, new) /\ TakeKey(id, new.pub)
    BY <1>6 DEF handleUpdatePeer
  <2>4. /\ peers' \in [Id -> Row]
        /\ \A i \in Id : Exists(peers'[i]) <=> Exists(peers[i])
        /\ \A i \in Id : peers'[i].life = peers[i].life
    BY <1>0, <2>2, <2>3, UpdatePeerType
  <2>5. owner' \in [Pub -> Id \cup {0}] /\ bill' \in [Id -> Nat] /\ carried' \in Nat
    BY <1>0, <2>2, <2>3, TakeKeyType DEF LiveRow
  <2>6. TypeOK'
    BY <1>0, <1>6, <2>4, <2>5, RequestDone DEF handleUpdatePeer, TypeOK, kernVars, runVars
  <2> QED
    BY <1>6, <2>4, <2>6, KeepsSnapshot DEF handleUpdatePeer, runVars
<1>7. ASSUME NEW h \in Handler, handleResetPeerTraffic(h) PROVE IInv'
  <2> DEFINE id == req[h].id
             w == [peers[id] EXCEPT !.offset = req[h].row.life]
  <2>1. req[h] # NoRequest
    BY <1>7, NoRequestIsNone DEF handleResetPeerTraffic
  <2>2. id \in Id /\ peers[id] \in LiveRow /\ req[h].row.life \in Nat
    BY <1>0, <1>7, <2>1, RequestFacts, RowFacts DEF handleResetPeerTraffic, TypeOK
  <2>3. w \in LiveRow /\ w.life = peers[id].life /\ w \in Row /\ Exists(w)
    BY <2>2, RowWrites, RowFacts
  <2> HIDE DEF w
  <2>4. peers' = [peers EXCEPT ![id] = w]
    BY <1>7 DEF handleResetPeerTraffic, w
  <2>5. /\ peers' \in [Id -> Row]
        /\ \A i \in Id : Exists(peers'[i]) => Exists(peers[i]) /\ peers'[i].life = peers[i].life
    BY <1>0, <1>7, <2>2, <2>3, <2>4 DEF handleResetPeerTraffic, TypeOK
  <2>6. TypeOK'
    BY <1>0, <1>7, <2>5, RequestDone DEF handleResetPeerTraffic, TypeOK, kernVars, runVars, ghosts
  <2> QED
    BY <1>7, <2>5, <2>6, KeepsSnapshot DEF handleResetPeerTraffic, runVars
<1>8. ASSUME NEW h \in Handler, NEW p \in Pub, handleIssueClientKey(h, p) PROVE IInv'
  <2> DEFINE id == req[h].id
             rotated == [req[h].row EXCEPT !.pub = p, !.offset = 0, !.life = 0]
  <2>1. req[h] # NoRequest
    BY <1>8, NoRequestIsNone DEF handleIssueClientKey
  <2>2. id \in Id /\ rotated \in LiveRow
    BY <1>0, <2>1, RequestFacts, RowWrites
  <2> HIDE DEF rotated
  <2>3. Exists(peers[id]) /\ peers' = UpdatePeer(id, rotated) /\ TakeKey(id, p)
    BY <1>8 DEF handleIssueClientKey, rotated
  <2>4. /\ peers' \in [Id -> Row]
        /\ \A i \in Id : Exists(peers'[i]) <=> Exists(peers[i])
        /\ \A i \in Id : peers'[i].life = peers[i].life
    BY <1>0, <2>2, <2>3, UpdatePeerType
  <2>5. owner' \in [Pub -> Id \cup {0}] /\ bill' \in [Id -> Nat] /\ carried' \in Nat
    BY <1>0, <2>2, <2>3, TakeKeyType
  <2>6. TypeOK'
    BY <1>0, <1>8, <2>4, <2>5, RequestDone DEF handleIssueClientKey, TypeOK, kernVars, runVars
  <2> QED
    BY <1>8, <2>4, <2>6, KeepsSnapshot DEF handleIssueClientKey, runVars
<1> QED
  BY <1>1, <1>2, <1>3, <1>4, <1>5, <1>6, <1>7, <1>8 DEF HandlerStep

(* The kernel, the clock, a recreated link and a restart keep it. *)
LEMMA EnvironmentIInv == IInv /\ Environment => IInv'
<1> SUFFICES ASSUME IInv, Environment PROVE IInv'
  OBVIOUS
<1>0. TypeOK
  BY DEF IInv
<1>1. ASSUME NEW p \in Pub, Carry(p) PROVE IInv'
  <2>1. bill' \in [Id -> Nat] /\ raw' \in [Pub -> Nat] /\ carried' \in Nat
    BY <1>0, <1>1 DEF Carry, TypeOK
  <2>2. TypeOK'
    BY <1>0, <1>1, <2>1 DEF Carry, TypeOK, dbVars, runVars
  <2> QED
    BY <1>1, <2>2, KeepsSnapshot DEF Carry, dbVars, runVars
<1>2. CASE ExpiryPasses
  <2>1. TypeOK'
    BY <1>0, <1>2 DEF ExpiryPasses, TypeOK, kernVars, runVars, ghosts
  <2> QED
    BY <1>2, <2>1, KeepsSnapshot DEF ExpiryPasses, runVars
<1>3. CASE LinkRecreated
  <2>1. TypeOK'
    BY <1>0, <1>3 DEF LinkRecreated, TypeOK, dbVars, runVars, ghosts
  <2> QED
    BY <1>3, <2>1, KeepsSnapshot DEF LinkRecreated, dbVars, runVars
<1>4. CASE Restart
  <2>1. /\ prevSample' \in [Pub -> Nat \cup {NoSample}]
        /\ snap' \in [Id -> Row]
        /\ dev' \in [Pub -> Nat]
        /\ req' \in [Handler -> Request \cup {NoRequest}]
    BY <1>4, RowFacts DEF Restart
  <2>2. TypeOK'
    BY <1>0, <1>4, <2>1 DEF Restart, TypeOK, dbVars, kernVars, ghosts
  <2>3. RunLocals' /\ IdsFresh' /\ SnapshotCurrent'
    BY <1>4, RowFacts DEF Restart, IInv, RunLocals, IdsFresh, SnapshotCurrent, RowsOf, dbVars
  <2> QED
    BY <2>2, <2>3 DEF IInv
<1> QED
  BY <1>1, <1>2, <1>3, <1>4 DEF Environment
-----------------------------------------------------------------------------
(* Every step preserves the inductive invariant. *)
LEMMA NextIInv == IInv /\ [Next]_vars => IInv'
<1> SUFFICES ASSUME IInv, [Next]_vars PROVE IInv'
  OBVIOUS
<1>1. CASE Next
  BY <1>1, RunStepIInv, HandlerStepIInv, EnvironmentIInv DEF Next
<1>2. CASE UNCHANGED vars
  BY <1>2 DEF vars, dbVars, kernVars, runVars, ghosts, IInv, TypeOK, RunLocals,
              IdsFresh, SnapshotCurrent, RowsOf
<1> QED
  BY <1>1, <1>2

(* The inductive invariant holds in every reachable state. *)
LEMMA SpecIInv == Spec => []IInv
BY InitIInv, NextIInv, PTL DEF Spec

(* Every variable of the accounting model keeps its type, for any keys,     *)
(* bounds, requests and failures.                                           *)
THEOREM TypeCorrect == Spec => []TypeOK
<1>1. IInv => TypeOK
  BY DEF IInv
<1> QED
  BY <1>1, SpecIInv, PTL

(* What a run is about to write was computed from the row's present         *)
(* lifetime, whatever the handlers wrote since it was listed.               *)
THEOREM SnapshotStaysCurrent == Spec => []SnapshotCurrent
<1>1. IInv => SnapshotCurrent
  BY DEF IInv
<1> QED
  BY <1>1, SpecIInv, PTL

(* One step never lowers a lifetime. *)
LEMMA LifetimeStep ==
    ASSUME IInv, Next, NEW i \in Id, Exists(peers[i]), Exists(peers'[i])
    PROVE  peers'[i].life >= peers[i].life
<1>0. TypeOK /\ peers[i].life \in Nat
  BY RowFacts DEF IInv, TypeOK
<1>1. ASSUME NEW id \in Id, SamplePeer(id) PROVE peers'[i].life >= peers[i].life
  <2> DEFINE p == snap[id].pub
             life == AccumulateLifetime(snap[id].life, dev[p], prevSample[p])
  <2>1. id \in todo /\ pc = "sample" /\ snap[id] \in LiveRow /\ p \in Pub /\ Exists(snap[id])
    BY <1>0, <1>1, RowFacts DEF SamplePeer, IInv, RunLocals, RowsOf, TypeOK, LiveRow
  <2>2. life \in Nat /\ life >= snap[id].life
    <3>1. snap[id].life \in Nat /\ dev[p] \in Nat /\ prevSample[p] \in Nat \cup {NoSample}
      BY <1>0, <2>1, RowFacts DEF TypeOK
    <3> QED
      BY <3>1, AccumulateGrows
  <2>3. \/ peers' = peers
        \/ Exists(peers[id]) /\ peers' = [peers EXCEPT ![id].life = life]
    BY <1>1 DEF SamplePeer, UpdatePeerStats
  <2> HIDE DEF life
  <2>4. CASE peers' = peers
    BY <1>0, <2>4
  <2>5. CASE Exists(peers[id]) /\ peers' = [peers EXCEPT ![id].life = life]
    <3>1. snap[id].life = peers[id].life
      BY <2>1, <2>5 DEF IInv, SnapshotCurrent
    <3>2. peers \in [Id -> Row]
      BY <1>0 DEF TypeOK
    <3>3. peers'[id].life = life /\ \A j \in Id \ {id} : peers'[j] = peers[j]
      BY <2>2, <2>5, <3>2, LifeWrite
    <3> QED
      BY <1>0, <2>2, <3>1, <3>3
  <2> QED
    BY <2>3, <2>4, <2>5
<1>2. ASSUME NEW id \in Id, Enforce(id) PROVE peers'[i].life = peers[i].life
  <2>1. \/ peers' = peers
        \/ Exists(peers[id]) /\ peers' = [peers EXCEPT ![id].susp = TRUE]
    BY <1>2 DEF Enforce, SetPeerSuspended
  <2>2. peers \in [Id -> Row]
    BY <1>0 DEF TypeOK
  <2>3. CASE peers' = peers
    BY <2>3
  <2>4. CASE Exists(peers[id]) /\ peers' = [peers EXCEPT ![id].susp = TRUE]
    BY <2>2, <2>4, SuspWrite
  <2> QED
    BY <2>1, <2>3, <2>4
<1>3. CASE RunBegin \/ ApplyPeers \/ BackendError \/ ReadDevice \/ Prune
  BY <1>0, <1>3 DEF RunBegin, ApplyPeers, BackendError, ReadDevice, Prune, dbVars
<1>4. CASE HandlerStep
  <2>1. ASSUME NEW p \in Pub, NEW l \in Limits, NEW e \in BOOLEAN, handleCreatePeer(p, l, e)
        PROVE  peers'[i] = peers[i]
    <3>1. ~Exists(peers[lastId + 1])
      BY <1>0, <2>1, BoundAssumption DEF handleCreatePeer, IInv, IdsFresh, TypeOK, Id
    <3> QED
      BY <1>0, <2>1, <3>1 DEF handleCreatePeer, TypeOK
  <2>2. ASSUME NEW id \in Id, handleDeletePeer(id) PROVE peers'[i] = peers[i]
    BY <1>0, <2>2, RowFacts DEF handleDeletePeer, TypeOK
  <2>3. ASSUME NEW id \in Id, NEW v \in BOOLEAN, setSuspend(id, v)
        PROVE  peers'[i].life = peers[i].life
    <3>1. Exists(peers[id]) /\ peers' = [peers EXCEPT ![id].susp = v]
      BY <2>3 DEF setSuspend, SetPeerSuspended
    <3>2. peers \in [Id -> Row]
      BY <1>0 DEF TypeOK
    <3> QED
      BY <3>1, <3>2, SuspWrite
  <2>4. ASSUME NEW h \in Handler, NEW new \in Patched(req[h].row), handleUpdatePeer(h, new)
        PROVE  peers'[i].life = peers[i].life
    <3>1. req[h] # NoRequest
      BY <2>4, NoRequestIsNone DEF handleUpdatePeer
    <3>2. req[h].id \in Id /\ new \in LiveRow
      BY <1>0, <3>1, RequestFacts, PatchedRows
    <3> QED
      BY <1>0, <2>4, <3>2, UpdatePeerType DEF handleUpdatePeer
  <2>5. ASSUME NEW h \in Handler, handleResetPeerTraffic(h)
        PROVE  peers'[i].life = peers[i].life
    BY <1>0, <2>5, RowFacts DEF handleResetPeerTraffic, TypeOK, LiveRow
  <2>6. ASSUME NEW h \in Handler, NEW p \in Pub, handleIssueClientKey(h, p)
        PROVE  peers'[i].life = peers[i].life
    <3> DEFINE rotated == [req[h].row EXCEPT !.pub = p, !.offset = 0, !.life = 0]
    <3>1. req[h] # NoRequest
      BY <2>6, NoRequestIsNone DEF handleIssueClientKey
    <3>2. req[h].id \in Id /\ rotated \in LiveRow
      BY <1>0, <3>1, RequestFacts, RowWrites
    <3> HIDE DEF rotated
    <3>3. Exists(peers[req[h].id]) /\ peers' = UpdatePeer(req[h].id, rotated)
      BY <2>6 DEF handleIssueClientKey, rotated
    <3> QED
      BY <1>0, <3>2, <3>3, UpdatePeerType
  <2>7. ASSUME \E h \in Handler : \/ RequestFails(h)
                                  \/ \E op \in {"patch", "reset", "rotate"}, id \in Id :
                                        GetPeer(h, op, id)
        PROVE  peers'[i] = peers[i]
    BY <2>7 DEF RequestFails, GetPeer, dbVars
  <2>8. peers'[i] = peers[i] \/ peers'[i].life = peers[i].life
    BY <1>4, <2>1, <2>2, <2>3, <2>4, <2>5, <2>6, <2>7 DEF HandlerStep
  <2>9. peers'[i].life = peers[i].life
    BY <2>8
  <2> QED
    BY <1>0, <2>9
<1>5. CASE Environment
  BY <1>0, <1>5 DEF Environment, Carry, ExpiryPasses, LinkRecreated, Restart, dbVars
<1> QED
  BY <1>0, <1>1, <1>2, <1>3, <1>4, <1>5 DEF Next, RunStep

(* The lifetime total of a row never drops, for any keys, bounds, requests  *)
(* and failures: AccumulateLifetime's promise, kept by the whole system.    *)
THEOREM LifetimeNeverDrops == Spec => LifetimeMonotone
<1>1. IInv /\ [Next]_vars =>
        [\A id \in Id : Exists(peers[id]) /\ Exists(peers'[id])
                            => peers'[id].life >= peers[id].life]_vars
  BY LifetimeStep
<1> QED
  BY <1>1, SpecIInv, PTL DEF Spec, LifetimeMonotone
-----------------------------------------------------------------------------
(* No row is ever charged a byte the kernel did not count on one of its     *)
(* keys.  A row can hold several keys over its life, and go back to one it  *)
(* held before: issue-client-key rotates it, and a PATCH that read the row  *)
(* earlier writes the old key back.  So the argument is about the total,    *)
(* over all its keys, of what samples may still add.                        *)

(* How far a counter moved from a to b: it may have been reset between.    *)
Advance(a, b) == IF b >= a THEN b - a ELSE b

(* What a sample that reads cur adds to a key last sampled at prev.        *)
Unsampled(prev, cur) == IF prev = NoSample THEN 0 ELSE Advance(prev, cur)

(* The total of a function from keys to numbers up to Cap: the number of   *)
(* unit cells under its graph.                                             *)
Cap == 2 * MaxBytes

Charges == [Pub -> 0..Cap]

Cells(f) == {c \in Pub \X (1..Cap) : c[2] <= f[c[1]]}

Total(f) == Cardinality(Cells(f))
-----------------------------------------------------------------------------
(* A counter's advance is at most its value, splits at any reading between, *)
(* and moves with the counter.                                              *)
LEMMA AdvanceFacts ==
    ASSUME NEW a \in Nat, NEW b \in Nat
    PROVE  /\ Advance(a, b) \in Nat
           /\ Advance(a, b) <= b
           /\ Advance(a, a) = 0
           /\ Advance(a, 0) = 0
           /\ Advance(a, b + 1) <= Advance(a, b) + 1
BY DEF Advance

LEMMA UnsampledFacts ==
    ASSUME NEW a \in Nat \cup {NoSample}, NEW b \in Nat
    PROVE  /\ Unsampled(a, b) \in Nat
           /\ Unsampled(a, b) <= b
           /\ Unsampled(a, 0) = 0
           /\ Unsampled(a, b + 1) <= Unsampled(a, b) + 1
           /\ Unsampled(NoSample, b) = 0
BY AdvanceFacts DEF Unsampled, NoSample

LEMMA UnsampledSplits ==
    ASSUME NEW a \in Nat \cup {NoSample}, NEW b \in Nat, NEW c \in Nat
    PROVE  Unsampled(a, c) <= Unsampled(a, b) + Advance(b, c)
BY DEF Unsampled, Advance, NoSample
-----------------------------------------------------------------------------
(* Totals are numbers. *)
LEMMA TotalType ==
    ASSUME NEW f
    PROVE  IsFiniteSet(Cells(f)) /\ Total(f) \in Nat
<1>1. IsFiniteSet(1..Cap)
  BY FS_Interval, BoundAssumption DEF Cap
<1>2. IsFiniteSet(Pub \X (1..Cap))
  BY <1>1, PubFinite, FS_Product
<1>3. Cells(f) \in SUBSET (Pub \X (1..Cap))
  BY DEF Cells
<1>4. IsFiniteSet(Cells(f))
  BY <1>2, <1>3, FS_Subset
<1> QED
  BY <1>4, FS_CardinalityType DEF Total

(* The k cells of key q above the a-th. *)
Above(q, a, k) == {q} \X (a + 1 .. a + k)

(* There are k of them. *)
LEMMA AboveCount ==
    ASSUME NEW q, NEW a \in Nat, NEW k \in Nat
    PROVE  IsFiniteSet(Above(q, a, k)) /\ Cardinality(Above(q, a, k)) = k
<1>1. IsFiniteSet({q}) /\ Cardinality({q}) = 1
  BY FS_Singleton
<1>2. IsFiniteSet(a + 1 .. a + k) /\ Cardinality(a + 1 .. a + k) = k
  <2>1. a + 1 \in Int /\ a + k \in Int
    OBVIOUS
  <2>2. /\ IsFiniteSet(a + 1 .. a + k)
        /\ Cardinality(a + 1 .. a + k) = IF a + 1 > a + k THEN 0 ELSE (a + k) - (a + 1) + 1
    BY <2>1, FS_Interval
  <2> QED
    BY <2>2
<1>3. /\ IsFiniteSet({q} \X (a + 1 .. a + k))
      /\ Cardinality({q} \X (a + 1 .. a + k)) = Cardinality({q}) * Cardinality(a + 1 .. a + k)
  BY <1>1, <1>2, FS_Product
<1> QED
  BY <1>1, <1>2, <1>3 DEF Above

(* Totals are monotone. *)
LEMMA TotalMonotone ==
    ASSUME NEW f \in Charges, NEW g \in Charges, \A p \in Pub : f[p] <= g[p]
    PROVE  Total(f) <= Total(g)
<1>1. Cells(f) \in SUBSET Cells(g)
  BY BoundAssumption DEF Cells, Charges, Cap
<1> QED
  BY <1>1, TotalType, FS_Subset DEF Total

(* Nothing charged on any key is nothing in total. *)
LEMMA TotalZero ==
    ASSUME NEW f, \A p \in Pub : f[p] = 0
    PROVE  Total(f) = 0
<1>1. Cells(f) = {}
  BY BoundAssumption DEF Cells, Cap
<1> QED
  BY <1>1, FS_EmptySet DEF Total

(* One key of f is charged at most k more than in g, the others no more. *)
LEMMA TotalRise ==
    ASSUME NEW f \in Charges, NEW g \in Charges, NEW q \in Pub, NEW k \in Nat,
           \A p \in Pub \ {q} : f[p] <= g[p],
           f[q] <= g[q] + k
    PROVE  Total(f) <= Total(g) + k
<1> DEFINE col == Above(q, g[q], k)
<1>1. g[q] \in Nat
  BY BoundAssumption DEF Charges, Cap
<1>2. IsFiniteSet(col) /\ Cardinality(col) = k
  BY <1>1, AboveCount
<1>3. Cells(f) \in SUBSET (Cells(g) \cup col)
  BY <1>1, BoundAssumption DEF Cells, Charges, Cap, Above
<1> HIDE DEF col
<1>4. /\ IsFiniteSet(Cells(g) \cup col)
      /\ Cardinality(Cells(g) \cup col) =
           Cardinality(Cells(g)) + Cardinality(col) - Cardinality(Cells(g) \cap col)
  BY <1>2, TotalType, FS_Union
<1>5. Cardinality(Cells(g) \cap col) \in Nat
  <2>1. IsFiniteSet(Cells(g) \cap col)
    BY TotalType, FS_Intersection
  <2> QED
    BY <2>1, FS_CardinalityType
<1>6. Cardinality(Cells(f)) <= Cardinality(Cells(g) \cup col)
  BY <1>3, <1>4, FS_Subset
<1>7. Cardinality(Cells(f)) \in Nat /\ Cardinality(Cells(g)) \in Nat
  BY TotalType DEF Total
<1> QED
  BY <1>2, <1>4, <1>5, <1>6, <1>7 DEF Total

(* One key of f is charged at least k less than in g, the others no more. *)
LEMMA TotalDrop ==
    ASSUME NEW f \in Charges, NEW g \in Charges, NEW q \in Pub, NEW k \in Nat,
           \A p \in Pub \ {q} : f[p] <= g[p],
           f[q] + k <= g[q]
    PROVE  Total(f) + k <= Total(g)
<1> DEFINE col == Above(q, f[q], k)
<1>1. f[q] \in Nat
  BY BoundAssumption DEF Charges, Cap
<1>2. IsFiniteSet(col) /\ Cardinality(col) = k
  BY <1>1, AboveCount
<1>3. (Cells(f) \cup col) \in SUBSET Cells(g)
  BY <1>1, BoundAssumption DEF Cells, Charges, Cap, Above
<1>4. Cells(f) \cap col = {}
  BY <1>1 DEF Cells, Above
<1> HIDE DEF col
<1>5. Cardinality(Cells(f) \cup col) =
           Cardinality(Cells(f)) + Cardinality(col) - Cardinality(Cells(f) \cap col)
  BY <1>2, TotalType, FS_Union
<1>6. Cardinality(Cells(f) \cap col) = 0
  BY <1>4, FS_EmptySet
<1>7. Cardinality(Cells(f) \cup col) <= Cardinality(Cells(g))
  BY <1>3, TotalType, FS_Subset
<1>8. Cardinality(Cells(f)) \in Nat /\ Cardinality(Cells(g)) \in Nat
  BY TotalType DEF Total
<1> QED
  BY <1>2, <1>5, <1>6, <1>7, <1>8 DEF Total
-----------------------------------------------------------------------------
(* The run in progress has yet to sample row id. *)
Sampling(id) == pc = "sample" /\ id \in todo

(* The run in progress listed a row with key p. *)
Listed(p) == \E j \in Id : snap[j].pub = p

(* What the kernel counted on p for row id and has not lost, and what the   *)
(* run read of it before a reset.                                           *)
Counted(id, p) ==
    IF snap[id].pub = p /\ Sampling(id) THEN dev[p] + Advance(dev[p], raw[p])
    ELSE IF snap[id].pub = p \/ owner[p] = id THEN raw[p]
    ELSE 0

(* What samples may still add to row id for p.  A row that took p after the *)
(* run listed it with another row has not been charged for any of it.       *)
Due(id, p) ==
    IF snap[id].pub = p /\ Sampling(id)
    THEN Unsampled(prevSample[p], dev[p]) + Advance(dev[p], raw[p])
    ELSE IF snap[id].pub # p /\ owner[p] = id /\ Listed(p) THEN raw[p]
    ELSE IF snap[id].pub = p \/ owner[p] = id THEN Unsampled(prevSample[p], raw[p])
    ELSE 0

CountedOf(id) == [p \in Pub |-> Counted(id, p)]
DueOf(id)     == [p \in Pub |-> Due(id, p)]

(* A row's bill covers its lifetime and all that is due, and, for a sample  *)
(* that starts from the counter, all that was counted.                      *)
Covered(id) ==
    /\ bill[id] >= Total(CountedOf(id))
    /\ bill[id] >= peers[id].life + Total(DueOf(id))

BillsCover == \A id \in Id : Exists(peers[id]) => Covered(id)

(* No counter exceeds the bytes carried. *)
CountersBounded ==
    /\ carried <= MaxBytes
    /\ \A p \in Pub : raw[p] <= carried /\ dev[p] <= carried

(* A key belongs to one row, and so does what a run listed; between runs    *)
(* nothing is listed.                                                       *)
KeysHeld ==
    /\ \A id \in Id : Exists(peers[id]) => owner[peers[id].pub] = id
    /\ \A i, j \in Id : Exists(snap[i]) /\ snap[i].pub = snap[j].pub => i = j
    /\ \A p \in Pub : owner[p] <= lastId
    /\ pc = "idle" => \A id \in Id : snap[id] = NoRow

BillingInv == IInv /\ CountersBounded /\ KeysHeld /\ BillsCover
-----------------------------------------------------------------------------
(* What is counted and due per key stays within the range of totals, and no *)
(* more is due than was counted.                                            *)
LEMMA ChargeTypes ==
    ASSUME TypeOK, CountersBounded, NEW id \in Id
    PROVE  /\ CountedOf(id) \in Charges
           /\ DueOf(id) \in Charges
           /\ \A p \in Pub : Due(id, p) <= Counted(id, p)
<1> SUFFICES ASSUME NEW p \in Pub
             PROVE  /\ Counted(id, p) \in 0..Cap
                    /\ Due(id, p) \in 0..Cap
                    /\ Due(id, p) <= Counted(id, p)
  BY DEF CountedOf, DueOf, Charges
<1>1. /\ raw[p] \in Nat /\ dev[p] \in Nat /\ prevSample[p] \in Nat \cup {NoSample}
      /\ raw[p] <= MaxBytes /\ dev[p] <= MaxBytes
  BY BoundAssumption DEF TypeOK, CountersBounded
<1>2. /\ Advance(dev[p], raw[p]) \in Nat /\ Advance(dev[p], raw[p]) <= raw[p]
      /\ Unsampled(prevSample[p], dev[p]) \in Nat /\ Unsampled(prevSample[p], dev[p]) <= dev[p]
      /\ Unsampled(prevSample[p], raw[p]) \in Nat /\ Unsampled(prevSample[p], raw[p]) <= raw[p]
  BY <1>1, AdvanceFacts, UnsampledFacts
<1> QED
  BY <1>1, <1>2, BoundAssumption DEF Counted, Due, Cap

LEMMA ChargeTypesNext ==
    ASSUME TypeOK', CountersBounded', NEW id \in Id
    PROVE  CountedOf(id)' \in Charges /\ DueOf(id)' \in Charges
<1> SUFFICES ASSUME NEW p \in Pub
             PROVE  Counted(id, p)' \in 0..Cap /\ Due(id, p)' \in 0..Cap
  BY DEF CountedOf, DueOf, Charges
<1>1. /\ raw'[p] \in Nat /\ dev'[p] \in Nat /\ prevSample'[p] \in Nat \cup {NoSample}
      /\ raw'[p] <= MaxBytes /\ dev'[p] <= MaxBytes
  BY BoundAssumption DEF TypeOK, CountersBounded
<1>2. /\ Advance(dev'[p], raw'[p]) \in Nat /\ Advance(dev'[p], raw'[p]) <= raw'[p]
      /\ Unsampled(prevSample'[p], dev'[p]) \in Nat
      /\ Unsampled(prevSample'[p], dev'[p]) <= dev'[p]
      /\ Unsampled(prevSample'[p], raw'[p]) \in Nat
      /\ Unsampled(prevSample'[p], raw'[p]) <= raw'[p]
  BY <1>1, AdvanceFacts, UnsampledFacts
<1> QED
  BY <1>1, <1>2, BoundAssumption DEF Counted, Due, Cap

(* Nothing is charged to the row, and what is counted and due only shrinks. *)
LEMMA CoveredShrinks ==
    ASSUME TypeOK, TypeOK', CountersBounded, CountersBounded', NEW id \in Id,
           Covered(id),
           bill'[id] >= bill[id],
           peers'[id].life = peers[id].life,
           \A p \in Pub : Counted(id, p)' <= Counted(id, p) /\ Due(id, p)' <= Due(id, p)
    PROVE  Covered(id)'
<1>1. /\ CountedOf(id) \in Charges /\ DueOf(id) \in Charges
      /\ CountedOf(id)' \in Charges /\ DueOf(id)' \in Charges
  BY ChargeTypes, ChargeTypesNext
<1>2. \A p \in Pub : /\ CountedOf(id)'[p] <= CountedOf(id)[p]
                     /\ DueOf(id)'[p] <= DueOf(id)[p]
  BY DEF CountedOf, DueOf
<1>3. Total(CountedOf(id)') <= Total(CountedOf(id)) /\ Total(DueOf(id)') <= Total(DueOf(id))
  BY <1>1, <1>2, TotalMonotone
<1>4. /\ Total(CountedOf(id)) \in Nat /\ Total(DueOf(id)) \in Nat
      /\ Total(CountedOf(id)') \in Nat /\ Total(DueOf(id)') \in Nat
  BY TotalType
<1>5. bill[id] \in Nat /\ bill'[id] \in Nat /\ peers[id].life \in Nat
  BY RowFacts DEF TypeOK
<1> QED
  BY <1>3, <1>4, <1>5 DEF Covered, Total, Cells

(* The bill rises by k, and what is counted and due for key q by no more. *)
LEMMA CoveredRises ==
    ASSUME TypeOK, TypeOK', CountersBounded, CountersBounded', NEW id \in Id,
           Covered(id), NEW q \in Pub, NEW k \in Nat,
           bill'[id] = bill[id] + k,
           peers'[id].life = peers[id].life,
           \A p \in Pub \ {q} : Counted(id, p)' <= Counted(id, p) /\ Due(id, p)' <= Due(id, p),
           Counted(id, q)' <= Counted(id, q) + k,
           Due(id, q)' <= Due(id, q) + k
    PROVE  Covered(id)'
<1>1. /\ CountedOf(id) \in Charges /\ DueOf(id) \in Charges
      /\ CountedOf(id)' \in Charges /\ DueOf(id)' \in Charges
  BY ChargeTypes, ChargeTypesNext
<1>2. /\ \A p \in Pub \ {q} : /\ CountedOf(id)'[p] <= CountedOf(id)[p]
                              /\ DueOf(id)'[p] <= DueOf(id)[p]
      /\ CountedOf(id)'[q] <= CountedOf(id)[q] + k
      /\ DueOf(id)'[q] <= DueOf(id)[q] + k
  BY DEF CountedOf, DueOf
<1>3. /\ Total(CountedOf(id)') <= Total(CountedOf(id)) + k
      /\ Total(DueOf(id)') <= Total(DueOf(id)) + k
  BY <1>1, <1>2, TotalRise
<1>4. /\ Total(CountedOf(id)) \in Nat /\ Total(DueOf(id)) \in Nat
      /\ Total(CountedOf(id)') \in Nat /\ Total(DueOf(id)') \in Nat
  BY TotalType
<1>5. bill[id] \in Nat /\ bill'[id] \in Nat /\ peers[id].life \in Nat
  BY RowFacts DEF TypeOK
<1> QED
  BY <1>3, <1>4, <1>5 DEF Covered, Total, Cells
-----------------------------------------------------------------------------
(* The numbers a key's counted and due bytes are made of. *)
LEMMA KeyTypes ==
    ASSUME TypeOK, NEW p \in Pub
    PROVE  /\ raw[p] \in Nat /\ dev[p] \in Nat /\ prevSample[p] \in Nat \cup {NoSample}
           /\ Advance(dev[p], raw[p]) \in Nat
           /\ Unsampled(prevSample[p], raw[p]) \in Nat
           /\ Unsampled(prevSample[p], raw[p]) <= raw[p]
           /\ Unsampled(prevSample[p], dev[p]) \in Nat
           /\ Unsampled(prevSample[p], raw[p])
                <= Unsampled(prevSample[p], dev[p]) + Advance(dev[p], raw[p])
BY AdvanceFacts, UnsampledFacts, UnsampledSplits DEF TypeOK

(* A sample of row id, listed with key p: what the row's lifetime gains is  *)
(* what is no longer due, or all of it was counted.                         *)
LEMMA SampleCovered ==
    ASSUME TypeOK, TypeOK', CountersBounded, CountersBounded', NEW id \in Id,
           Covered(id), Sampling(id), NEW p \in Pub, snap[id].pub = p,
           bill' = bill,
           peers'[id].life = AccumulateLifetime(peers[id].life, dev[p], prevSample[p]),
           \A q \in Pub : Counted(id, q)' <= Counted(id, q),
           \A q \in Pub \ {p} : Due(id, q)' <= Due(id, q),
           Due(id, p)' = Advance(dev[p], raw[p])
    PROVE  Covered(id)'
<1> DEFINE life == peers[id].life
<1>1. life \in Nat /\ bill[id] \in Nat
  BY RowFacts DEF TypeOK
<1>2. /\ CountedOf(id) \in Charges /\ DueOf(id) \in Charges
      /\ CountedOf(id)' \in Charges /\ DueOf(id)' \in Charges
      /\ \A q \in Pub : Due(id, q) <= Counted(id, q)
  BY ChargeTypes, ChargeTypesNext
<1>3. /\ Total(CountedOf(id)) \in Nat /\ Total(DueOf(id)) \in Nat
      /\ Total(CountedOf(id)') \in Nat /\ Total(DueOf(id)') \in Nat
  BY TotalType
<1>4. Total(CountedOf(id)') <= Total(CountedOf(id))
  BY <1>2, TotalMonotone DEF CountedOf
<1>5. /\ raw[p] \in Nat /\ dev[p] \in Nat /\ prevSample[p] \in Nat \cup {NoSample}
      /\ Advance(dev[p], raw[p]) \in Nat
  BY KeyTypes
<1>6. CASE prevSample[p] = NoSample /\ dev[p] >= life
  <2>1. peers'[id].life = dev[p]
    BY <1>1, <1>5, <1>6 DEF AccumulateLifetime, NoSample
  <2>2. Counted(id, p) = dev[p] + Advance(dev[p], raw[p])
    BY DEF Counted
  <2>3. /\ \A q \in Pub \ {p} : DueOf(id)'[q] <= CountedOf(id)[q]
        /\ DueOf(id)'[p] + dev[p] <= CountedOf(id)[p]
    <3>1. ASSUME NEW q \in Pub \ {p} PROVE DueOf(id)'[q] <= CountedOf(id)[q]
      <4>1. Due(id, q)' <= Due(id, q) /\ Due(id, q) <= Counted(id, q)
        BY <1>2
      <4>2. DueOf(id)'[q] = Due(id, q)' /\ DueOf(id)[q] = Due(id, q)
            /\ CountedOf(id)[q] = Counted(id, q)
        BY DEF DueOf, CountedOf
      <4>3. DueOf(id)'[q] \in Nat /\ DueOf(id)[q] \in Nat /\ CountedOf(id)[q] \in Nat
        BY <1>2, BoundAssumption DEF Charges, Cap
      <4> QED
        BY <4>1, <4>2, <4>3
    <3>2. DueOf(id)'[p] = Due(id, p)' /\ CountedOf(id)[p] = Counted(id, p)
      BY DEF DueOf, CountedOf
    <3> QED
      BY <1>5, <2>2, <3>1, <3>2
  <2>4. Total(DueOf(id)') + dev[p] <= Total(CountedOf(id))
    BY <1>2, <1>5, <2>3, TotalDrop
  <2> QED
    BY <1>1, <1>3, <1>4, <1>5, <2>1, <2>4 DEF Covered, Total, Cells
<1>7. CASE ~(prevSample[p] = NoSample /\ dev[p] >= life)
  <2> DEFINE k == Unsampled(prevSample[p], dev[p])
  <2>1. peers'[id].life = life + k /\ k \in Nat
    BY <1>1, <1>5, <1>7 DEF AccumulateLifetime, Unsampled, Advance, NoSample
  <2>2. Due(id, p) = k + Advance(dev[p], raw[p])
    BY DEF Due
  <2> HIDE DEF k
  <2>3. /\ \A q \in Pub \ {p} : DueOf(id)'[q] <= DueOf(id)[q]
        /\ DueOf(id)'[p] + k <= DueOf(id)[p]
    <3>1. DueOf(id)'[p] = Due(id, p)' /\ DueOf(id)[p] = Due(id, p)
      BY DEF DueOf
    <3>2. \A q \in Pub \ {p} : DueOf(id)'[q] <= DueOf(id)[q]
      BY DEF DueOf
    <3> QED
      BY <1>5, <2>1, <2>2, <3>1, <3>2
  <2>4. Total(DueOf(id)') + k <= Total(DueOf(id))
    BY <1>2, <2>1, <2>3, TotalDrop
  <2> QED
    BY <1>1, <1>3, <1>4, <2>1, <2>4 DEF Covered, Total, Cells
<1> QED
  BY <1>6, <1>7
-----------------------------------------------------------------------------
(* A row in the table or in a listing holds a key. *)
LEMMA KeyOfRow ==
    ASSUME NEW r \in Row
    PROVE  /\ Exists(r) <=> r.pub \in Pub
           /\ \A p \in Pub : r.pub = p => Exists(r)
BY PubAssumption DEF Row, LiveRow, NoRow, Exists

(* What the proof of a step establishes besides IInv'. *)
BillingNext == CountersBounded' /\ KeysHeld' /\ BillsCover'

(* A step that leaves owners, samples, readings and what is listed alone,   *)
(* charges nobody and only lowers the kernel's counters.                    *)
LEMMA NothingCharged ==
    ASSUME BillingInv, IInv',
           UNCHANGED <<lastId, prevSample, dev, carried, owner, bill, todo>>,
           pc' = pc \/ (pc # "sample" /\ pc' \notin {"sample", "idle"}),
           \A p \in Pub : raw'[p] = raw[p] \/ raw'[p] = 0,
           \A i \in Id : snap'[i] = snap[i] \/ (Exists(snap[i]) /\ snap'[i].pub = snap[i].pub),
           \A i \in Id : Exists(peers'[i]) => /\ Exists(peers[i])
                                              /\ peers'[i].pub = peers[i].pub
                                              /\ peers'[i].life = peers[i].life
    PROVE  BillingNext
<1>0. TypeOK /\ TypeOK' /\ CountersBounded /\ KeysHeld
  BY DEF BillingInv, IInv
<1>1. CountersBounded'
  BY <1>0 DEF CountersBounded, TypeOK
<1>2. KeysHeld'
  <2>1. \A i \in Id : snap'[i].pub = snap[i].pub /\ (Exists(snap'[i]) => Exists(snap[i]))
    BY DEF Exists
  <2>2. \A i, j \in Id : Exists(snap'[i]) /\ snap'[i].pub = snap'[j].pub => i = j
    BY <1>0, <2>1 DEF KeysHeld
  <2>3. pc' = "idle" => \A id \in Id : snap'[id] = NoRow
    BY <1>0, RowFacts DEF KeysHeld
  <2>4. \A id \in Id : Exists(peers'[id]) => owner'[peers'[id].pub] = id
    BY <1>0 DEF KeysHeld
  <2> QED
    BY <1>0, <2>2, <2>3, <2>4 DEF KeysHeld
<1>3. ASSUME NEW id \in Id, Exists(peers'[id]) PROVE Covered(id)'
  <2>1. Exists(peers[id]) /\ Covered(id)
    BY <1>3 DEF BillingInv, BillsCover
  <2>2. ASSUME NEW p \in Pub
        PROVE  Counted(id, p)' <= Counted(id, p) /\ Due(id, p)' <= Due(id, p)
    <3>1. (snap'[id].pub = p <=> snap[id].pub = p) /\ (Listed(p)' <=> Listed(p))
          /\ (Sampling(id)' <=> Sampling(id))
      BY DEF Listed, Sampling
    <3>2. /\ raw[p] \in Nat /\ dev[p] \in Nat /\ prevSample[p] \in Nat \cup {NoSample}
          /\ Advance(dev[p], raw[p]) \in Nat /\ Unsampled(prevSample[p], raw[p]) \in Nat
          /\ Unsampled(prevSample[p], dev[p]) \in Nat
          /\ Advance(dev[p], 0) = 0 /\ Unsampled(prevSample[p], 0) = 0
      BY <1>0, AdvanceFacts, UnsampledFacts DEF TypeOK
    <3>3. CASE raw'[p] = raw[p]
      BY <3>1, <3>2, <3>3 DEF Counted, Due
    <3>4. CASE raw'[p] = 0
      BY <3>1, <3>2, <3>4 DEF Counted, Due
    <3> QED
      BY <3>3, <3>4
  <2>3. bill'[id] >= bill[id]
    BY <1>0 DEF TypeOK
  <2> QED
    BY <1>0, <1>1, <1>3, <2>1, <2>2, <2>3, CoveredShrinks
<1> QED
  BY <1>1, <1>2, <1>3 DEF BillingNext, BillsCover

(* A run lists the rows: each holds its key, and nothing was listed before. *)
LEMMA RunBeginBilling == BillingInv /\ IInv' /\ RunBegin => BillingNext
<1> SUFFICES ASSUME BillingInv, IInv', RunBegin PROVE BillingNext
  OBVIOUS
<1>0. TypeOK /\ TypeOK' /\ CountersBounded /\ KeysHeld
  BY DEF BillingInv, IInv
<1>1. /\ UNCHANGED <<peers, lastId, raw, prevSample, todo, dev, carried, owner, bill>>
      /\ pc = "idle" /\ pc' = "enforce" /\ snap' = peers
  BY DEF RunBegin, dbVars, kernVars, ghosts
<1>2. CountersBounded'
  BY <1>0, <1>1 DEF CountersBounded
<1>3. KeysHeld'
  BY <1>0, <1>1, RowFacts DEF KeysHeld, TypeOK, Exists
<1>4. ASSUME NEW id \in Id, Exists(peers'[id]) PROVE Covered(id)'
  <2>1. Covered(id)
    BY <1>1, <1>4 DEF BillingInv, BillsCover
  <2>2. ASSUME NEW p \in Pub
        PROVE  Counted(id, p)' <= Counted(id, p) /\ Due(id, p)' <= Due(id, p)
    <3>1. \A j \in Id : snap[j].pub # p
      BY <1>0, <1>1, PubAssumption DEF KeysHeld, NoRow
    <3>2. ASSUME NEW j \in Id, snap'[j].pub = p PROVE owner[p] = j
      <4>1. Exists(peers[j]) /\ peers[j].pub = p
        BY <1>0, <1>1, <3>2, KeyOfRow DEF TypeOK
      <4> QED
        BY <1>0, <4>1 DEF KeysHeld
    <3>3. Listed(p)' => snap'[owner[p]].pub = p
      BY <3>2 DEF Listed
    <3>4. ~Sampling(id)'
      BY <1>1 DEF Sampling
    <3>5. Counted(id, p) = IF owner[p] = id THEN raw[p] ELSE 0
      BY <3>1 DEF Counted
    <3>6. Due(id, p) = IF owner[p] = id THEN Unsampled(prevSample[p], raw[p]) ELSE 0
      BY <3>1 DEF Due, Listed
    <3>7. Counted(id, p)' = IF owner[p] = id THEN raw[p] ELSE 0
      BY <1>1, <3>2, <3>4 DEF Counted
    <3>8. Due(id, p)' = IF owner[p] = id THEN Unsampled(prevSample[p], raw[p]) ELSE 0
      BY <1>1, <3>2, <3>3, <3>4 DEF Due
    <3> QED
      BY <1>0, <3>5, <3>6, <3>7, <3>8, KeyTypes
  <2>3. bill'[id] >= bill[id] /\ peers'[id].life = peers[id].life
    BY <1>0, <1>1 DEF TypeOK
  <2> QED
    BY <1>0, <1>2, <2>1, <2>2, <2>3, CoveredShrinks
<1> QED
  BY <1>2, <1>3, <1>4 DEF BillingNext, BillsCover

(* The device is read: what was to be sampled from the counter is now to be *)
(* sampled from the reading.                                                *)
LEMMA ReadDeviceBilling == BillingInv /\ IInv' /\ ReadDevice => BillingNext
<1> SUFFICES ASSUME BillingInv, IInv', ReadDevice PROVE BillingNext
  OBVIOUS
<1>0. TypeOK /\ TypeOK' /\ CountersBounded /\ KeysHeld
  BY DEF BillingInv, IInv
<1>1. /\ UNCHANGED <<peers, lastId, raw, prevSample, snap, carried, owner, bill>>
      /\ pc = "device" /\ pc' = "sample" /\ dev' = raw
  BY DEF ReadDevice, dbVars, kernVars, ghosts
<1>2. CountersBounded'
  BY <1>0, <1>1 DEF CountersBounded
<1>3. KeysHeld'
  BY <1>0, <1>1 DEF KeysHeld
<1>4. ASSUME NEW id \in Id, Exists(peers'[id]) PROVE Covered(id)'
  <2>1. Covered(id)
    BY <1>1, <1>4 DEF BillingInv, BillsCover
  <2>2. ASSUME NEW p \in Pub
        PROVE  Counted(id, p)' <= Counted(id, p) /\ Due(id, p)' <= Due(id, p)
    <3>1. ~Sampling(id)
      BY <1>1 DEF Sampling
    <3>2. Listed(p)' <=> Listed(p)
      BY <1>1 DEF Listed
    <3>3. Advance(raw[p], raw[p]) = 0
      BY <1>0, AdvanceFacts DEF TypeOK
    <3> QED
      BY <1>0, <1>1, <3>1, <3>2, <3>3, KeyTypes DEF Counted, Due
  <2>3. bill'[id] >= bill[id] /\ peers'[id].life = peers[id].life
    BY <1>0, <1>1 DEF TypeOK
  <2> QED
    BY <1>0, <1>2, <2>1, <2>2, <2>3, CoveredShrinks
<1> QED
  BY <1>2, <1>3, <1>4 DEF BillingNext, BillsCover

(* A run ends, or the daemon stops: what was listed and read is forgotten,  *)
(* and samples only get dropped.                                            *)
LEMMA ForgetBilling ==
    ASSUME BillingInv, IInv',
           UNCHANGED <<peers, lastId, raw, carried, owner, bill>>,
           pc' = "idle",
           snap' = [id \in Id |-> NoRow],
           dev' = [p \in Pub |-> 0],
           \A p \in Pub : prevSample'[p] = prevSample[p] \/ prevSample'[p] = NoSample
    PROVE  BillingNext
<1>0. TypeOK /\ TypeOK' /\ CountersBounded /\ KeysHeld
  BY DEF BillingInv, IInv
<1>1. CountersBounded'
  BY <1>0 DEF CountersBounded, TypeOK
<1>2. KeysHeld'
  BY <1>0, RowFacts DEF KeysHeld
<1>3. ASSUME NEW id \in Id, Exists(peers'[id]) PROVE Covered(id)'
  <2>1. Covered(id)
    BY <1>3 DEF BillingInv, BillsCover
  <2>2. ASSUME NEW p \in Pub
        PROVE  Counted(id, p)' <= Counted(id, p) /\ Due(id, p)' <= Due(id, p)
    <3>1. \A j \in Id : snap'[j].pub # p
      BY PubAssumption DEF NoRow
    <3>2. Counted(id, p)' = IF owner[p] = id THEN raw[p] ELSE 0
      BY <3>1 DEF Counted
    <3>3. Due(id, p)' = IF owner[p] = id THEN Unsampled(prevSample'[p], raw[p]) ELSE 0
      BY <3>1 DEF Due, Listed
    <3>4. raw[p] \in Nat /\ Unsampled(prevSample[p], raw[p]) \in Nat
      BY <1>0, KeyTypes
    <3>5. Unsampled(NoSample, raw[p]) = 0
      BY <1>0, <3>4, UnsampledFacts
    <3>6. /\ Unsampled(prevSample'[p], raw[p]) \in Nat
          /\ Unsampled(prevSample'[p], raw[p]) <= Unsampled(prevSample[p], raw[p])
      <4>1. CASE prevSample'[p] = prevSample[p]
        BY <3>4, <4>1
      <4>2. CASE prevSample'[p] = NoSample
        BY <3>4, <3>5, <4>2
      <4> QED
        BY <4>1, <4>2
    <3>7. owner[p] = id => /\ raw[p] <= Counted(id, p)
                           /\ Unsampled(prevSample[p], raw[p]) <= Due(id, p)
      BY <1>0, KeyTypes DEF Counted, Due, Advance
    <3>8. 0 <= Counted(id, p) /\ 0 <= Due(id, p)
      BY <1>0, KeyTypes DEF Counted, Due
    <3>9. Counted(id, p) \in Nat /\ Due(id, p) \in Nat
      BY <1>0, KeyTypes DEF Counted, Due
    <3> QED
      BY <3>2, <3>3, <3>4, <3>6, <3>7, <3>8, <3>9
  <2>3. bill'[id] >= bill[id] /\ peers'[id].life = peers[id].life
    BY <1>0 DEF TypeOK
  <2> QED
    BY <1>0, <1>1, <2>1, <2>2, <2>3, CoveredShrinks
<1> QED
  BY <1>1, <1>2, <1>3 DEF BillingNext, BillsCover

(* What a sample does to what is counted and due: for the row and its key   *)
(* the reading is the new start, and nothing else moves.                    *)
LEMMA SampleMoves ==
    ASSUME BillingInv, NEW id \in Id, SamplePeer(id), NEW p, p = snap[id].pub
    PROVE  /\ p \in Pub /\ Sampling(id)
           /\ \A i \in Id, q \in Pub : Counted(i, q)' <= Counted(i, q)
           /\ \A i \in Id, q \in Pub : i # id \/ q # p => Due(i, q)' = Due(i, q)
           /\ Due(id, p)' = Advance(dev[p], raw[p])
           /\ Due(id, p) = Unsampled(prevSample[p], dev[p]) + Advance(dev[p], raw[p])
<1>0. TypeOK /\ KeysHeld
  BY DEF BillingInv, IInv
<1>1. /\ UNCHANGED <<raw, pc, snap, dev, owner>>
      /\ pc = "sample" /\ id \in todo /\ todo' = todo \ {id}
      /\ prevSample' = [prevSample EXCEPT ![p] = dev[p]]
  BY DEF SamplePeer, kernVars, ghosts
<1>2. Exists(snap[id]) /\ p \in Pub
  BY <1>0, <1>1, KeyOfRow DEF BillingInv, IInv, RunLocals, RowsOf, TypeOK
<1>3. /\ raw[p] \in Nat /\ dev[p] \in Nat
      /\ dev[p] + Advance(dev[p], raw[p]) >= raw[p]
      /\ Unsampled(dev[p], raw[p]) = Advance(dev[p], raw[p])
  BY <1>0, <1>2 DEF TypeOK, Advance, Unsampled, NoSample
<1>4. prevSample'[p] = dev[p] /\ \A q \in Pub \ {p} : prevSample'[q] = prevSample[q]
  BY <1>0, <1>1, <1>2 DEF TypeOK
<1>5. \A i \in Id \ {id} : snap[i].pub # p
  BY <1>0, <1>2 DEF KeysHeld
<1>6. /\ Sampling(id) /\ ~Sampling(id)'
      /\ \A i \in Id \ {id} : Sampling(i)' <=> Sampling(i)
      /\ \A q \in Pub : Listed(q)' <=> Listed(q)
  BY <1>1 DEF Sampling, Listed
<1>7. /\ Counted(id, p)' <= Counted(id, p)
      /\ Due(id, p)' = Advance(dev[p], raw[p])
      /\ Due(id, p) = Unsampled(prevSample[p], dev[p]) + Advance(dev[p], raw[p])
  BY <1>1, <1>3, <1>4, <1>6 DEF Counted, Due
<1>8. ASSUME NEW i \in Id, NEW q \in Pub, i # id \/ q # p
      PROVE  Counted(i, q)' <= Counted(i, q) /\ Due(i, q)' = Due(i, q)
  <2>1. Counted(i, q) \in Nat
    BY <1>0, KeyTypes DEF Counted
  <2>2. CASE i = id
    BY <1>1, <1>4, <1>6, <1>8, <2>1, <2>2 DEF Counted, Due
  <2>3. CASE i # id /\ q # p
    BY <1>1, <1>4, <1>6, <2>1, <2>3 DEF Counted, Due
  <2>4. CASE i # id /\ q = p
    <3>1. Listed(p) /\ Listed(p)' /\ snap[i].pub # p /\ snap'[i].pub # p
      BY <1>1, <1>5, <2>4 DEF Listed
    <3> QED
      BY <1>1, <2>1, <2>4, <3>1 DEF Counted, Due
  <2> QED
    BY <1>8, <2>2, <2>3, <2>4
<1> QED
  BY <1>2, <1>6, <1>7, <1>8

(* One row is sampled, and its lifetime is written or the write is lost. *)
LEMMA SamplePeerBilling ==
    ASSUME BillingInv, IInv', NEW id \in Id, SamplePeer(id)
    PROVE  BillingNext
<1> PICK p : p = snap[id].pub
  OBVIOUS
<1> DEFINE life == AccumulateLifetime(snap[id].life, dev[p], prevSample[p])
<1>0. TypeOK /\ TypeOK' /\ CountersBounded /\ KeysHeld
  BY DEF BillingInv, IInv
<1>1. /\ UNCHANGED <<lastId, raw, pc, snap, dev, carried, owner, bill>>
      /\ pc = "sample" /\ id \in todo
  BY DEF SamplePeer, kernVars, ghosts
<1>2. Exists(snap[id]) /\ p \in Pub /\ snap[id].life \in Nat
  BY <1>0, <1>1, KeyOfRow, RowFacts DEF BillingInv, IInv, RunLocals, RowsOf, TypeOK
<1>3. life \in Nat
  BY <1>0, <1>2, AccumulateGrows DEF TypeOK
<1>4. /\ Advance(dev[p], raw[p]) \in Nat
      /\ Unsampled(prevSample[p], dev[p]) \in Nat
  BY <1>0, <1>2, KeyTypes
<1>5. /\ Sampling(id)
      /\ \A i \in Id, q \in Pub : Counted(i, q)' <= Counted(i, q)
      /\ \A i \in Id, q \in Pub : i # id \/ q # p => Due(i, q)' = Due(i, q)
      /\ Due(id, p)' = Advance(dev[p], raw[p])
      /\ Due(id, p) = Unsampled(prevSample[p], dev[p]) + Advance(dev[p], raw[p])
  BY SampleMoves
<1>6. \A i \in Id, q \in Pub : Due(i, q) \in Nat
  BY <1>0, KeyTypes DEF Due
<1>7. CountersBounded'
  BY <1>0, <1>1 DEF CountersBounded
<1>8. \/ peers' = peers
      \/ Exists(peers[id]) /\ peers' = [peers EXCEPT ![id].life = life]
  BY DEF SamplePeer, UpdatePeerStats
<1> HIDE DEF life
<1>9. ASSUME NEW i \in Id, Exists(peers[i]), peers'[i].life = peers[i].life
      PROVE  Covered(i)'
  <2>1. Covered(i) /\ bill'[i] >= bill[i]
    BY <1>0, <1>1, <1>9 DEF BillingInv, BillsCover, TypeOK
  <2>2. \A q \in Pub : Counted(i, q)' <= Counted(i, q) /\ Due(i, q)' <= Due(i, q)
    BY <1>2, <1>4, <1>5, <1>6
  <2> QED
    BY <1>0, <1>7, <1>9, <2>1, <2>2, CoveredShrinks
<1>10. CASE peers' = peers
  <2>1. KeysHeld'
    BY <1>0, <1>1, <1>10 DEF KeysHeld
  <2>2. \A i \in Id : Exists(peers'[i]) => Covered(i)'
    BY <1>9, <1>10
  <2> QED
    BY <1>7, <2>1, <2>2 DEF BillingNext, BillsCover
<1>11. CASE Exists(peers[id]) /\ peers' = [peers EXCEPT ![id].life = life]
  <2>1. peers \in [Id -> Row]
    BY <1>0 DEF TypeOK
  <2>2. /\ \A i \in Id : Exists(peers'[i]) <=> Exists(peers[i])
        /\ \A i \in Id \ {id} : peers'[i] = peers[i]
        /\ peers'[id].life = life
        /\ peers'[id].pub = peers[id].pub
    BY <1>3, <1>11, <2>1, LifeWrite
  <2>3. KeysHeld'
    BY <1>0, <1>1, <2>2 DEF KeysHeld
  <2>4. snap[id].life = peers[id].life
    BY <1>1, <1>2, <1>11 DEF BillingInv, IInv, SnapshotCurrent
  <2>5. Covered(id)'
    <3>1. Covered(id)
      BY <1>11 DEF BillingInv, BillsCover
    <3>2. peers'[id].life = AccumulateLifetime(peers[id].life, dev[p], prevSample[p])
      BY <2>2, <2>4 DEF life
    <3>3. \A q \in Pub \ {p} : Due(id, q)' <= Due(id, q)
      BY <1>5, <1>6
    <3> QED
      BY <1>0, <1>1, <1>2, <1>5, <1>7, <3>1, <3>2, <3>3, SampleCovered
  <2>6. \A i \in Id : Exists(peers'[i]) => Covered(i)'
    BY <1>9, <2>2, <2>5
  <2> QED
    BY <1>7, <2>3, <2>6 DEF BillingNext, BillsCover
<1> QED
  BY <1>8, <1>10, <1>11
-----------------------------------------------------------------------------
(* The run's steps. *)
LEMMA RunStepBilling == BillingInv /\ RunStep => BillingInv'
<1> SUFFICES ASSUME BillingInv, RunStep PROVE BillingInv'
  OBVIOUS
<1>0. TypeOK /\ IInv' /\ peers \in [Id -> Row] /\ snap \in [Id -> Row]
  BY RunStepIInv DEF BillingInv, IInv, TypeOK
<1> SUFFICES BillingNext
  BY <1>0 DEF BillingInv, BillingNext
<1>1. CASE RunBegin
  BY <1>0, <1>1, RunBeginBilling
<1>2. ASSUME NEW id \in Id, Enforce(id) PROVE BillingNext
  <2>1. Exists(snap[id]) /\ snap' = [snap EXCEPT ![id].susp = TRUE]
    BY <1>2 DEF Enforce, ShouldAutoSuspend
  <2>2. \A i \in Id : snap'[i] = snap[i] \/ (Exists(snap[i]) /\ snap'[i].pub = snap[i].pub)
    BY <1>0, <2>1, SuspWrite
  <2>3. \A i \in Id : Exists(peers'[i]) => /\ Exists(peers[i])
                                           /\ peers'[i].pub = peers[i].pub
                                           /\ peers'[i].life = peers[i].life
    <3>1. \/ peers' = peers
          \/ Exists(peers[id]) /\ peers' = [peers EXCEPT ![id].susp = TRUE]
      BY <1>2 DEF Enforce, SetPeerSuspended
    <3>2. CASE peers' = peers
      BY <3>2
    <3>3. CASE Exists(peers[id]) /\ peers' = [peers EXCEPT ![id].susp = TRUE]
      BY <1>0, <3>3, SuspWrite
    <3> QED
      BY <3>1, <3>2, <3>3
  <2> QED
    BY <1>0, <1>2, <2>2, <2>3, NothingCharged DEF Enforce, kernVars, ghosts
<1>3. CASE ApplyPeers
  <2>1. \A p \in Pub : raw'[p] = raw[p] \/ raw'[p] = 0
    BY <1>3 DEF ApplyPeers
  <2> QED
    BY <1>0, <1>3, <2>1, NothingCharged DEF ApplyPeers, dbVars, ghosts
<1>4. CASE BackendError
  BY <1>0, <1>4, NothingCharged DEF BackendError, dbVars, kernVars, ghosts
<1>5. CASE ReadDevice
  BY <1>0, <1>5, ReadDeviceBilling
<1>6. ASSUME NEW id \in Id, SamplePeer(id) PROVE BillingNext
  BY <1>0, <1>6, SamplePeerBilling
<1>7. CASE Prune
  <2>1. \A p \in Pub : prevSample'[p] = prevSample[p] \/ prevSample'[p] = NoSample
    BY <1>7 DEF Prune
  <2> QED
    BY <1>0, <1>7, <2>1, ForgetBilling DEF Prune, dbVars, kernVars, ghosts
<1> QED
  BY <1>1, <1>2, <1>3, <1>4, <1>5, <1>6, <1>7 DEF RunStep
-----------------------------------------------------------------------------
(* A row takes a key: it is charged what the kernel has counted on it,      *)
(* unless it was the last to hold it, and others lose the key.              *)
LEMMA TakeKeyMoves ==
    ASSUME TypeOK, NEW id \in Id, NEW p \in Pub, TakeKey(id, p),
           UNCHANGED <<raw, prevSample, pc, snap, todo, dev>>
    PROVE  /\ owner'[p] = id /\ \A q \in Pub \ {p} : owner'[q] = owner[q]
           /\ \E k \in Nat :
                 /\ bill'[id] = bill[id] + k
                 /\ Counted(id, p)' <= Counted(id, p) + k
                 /\ Due(id, p)' <= Due(id, p) + k
           /\ \A q \in Pub \ {p} : Counted(id, q)' <= Counted(id, q) /\ Due(id, q)' <= Due(id, q)
           /\ \A i \in Id \ {id} :
                 /\ bill'[i] = bill[i]
                 /\ \A q \in Pub : Counted(i, q)' <= Counted(i, q) /\ Due(i, q)' <= Due(i, q)
<1>1. owner'[p] = id /\ \A q \in Pub \ {p} : owner'[q] = owner[q]
  BY DEF TakeKey, TypeOK
<1>2. /\ bill'[id] = IF owner[p] = id THEN bill[id] ELSE bill[id] + raw[p]
      /\ \A i \in Id \ {id} : bill'[i] = bill[i]
  BY DEF TakeKey, TypeOK
<1>3. /\ \A i \in Id : Sampling(i)' <=> Sampling(i)
      /\ \A q \in Pub : Listed(q)' <=> Listed(q)
  BY DEF Sampling, Listed
<1>4. \A i \in Id, q \in Pub : Counted(i, q) \in Nat /\ Due(i, q) \in Nat
  BY KeyTypes DEF Counted, Due
<1>5. \A i \in Id, q \in Pub : owner'[q] = owner[q]
          => Counted(i, q)' = Counted(i, q) /\ Due(i, q)' = Due(i, q)
  BY <1>3 DEF Counted, Due
<1>6. ASSUME NEW i \in Id \ {id}
      PROVE  Counted(i, p)' <= Counted(i, p) /\ Due(i, p)' <= Due(i, p)
  BY <1>1, <1>3, <1>4, KeyTypes DEF Counted, Due
<1>7. Counted(id, p)' <= Counted(id, p) + raw[p] /\ Due(id, p)' <= Due(id, p) + raw[p]
  BY <1>1, <1>3, <1>4, KeyTypes DEF Counted, Due
<1>8. \E k \in Nat : /\ bill'[id] = bill[id] + k
                     /\ Counted(id, p)' <= Counted(id, p) + k
                     /\ Due(id, p)' <= Due(id, p) + k
  <2>1. CASE owner[p] = id
    <3>1. bill'[id] = bill[id] + 0
      BY <1>2, <2>1 DEF TypeOK
    <3>2. Counted(id, p)' <= Counted(id, p) + 0 /\ Due(id, p)' <= Due(id, p) + 0
      BY <1>1, <1>4, <1>5, <2>1
    <3> QED
      BY <3>1, <3>2
  <2>2. CASE owner[p] # id
    BY <1>2, <1>7, <2>2, KeyTypes
  <2> QED
    BY <2>1, <2>2
<1>9. ASSUME NEW i \in Id, NEW q \in Pub \ {p}
      PROVE  Counted(i, q)' <= Counted(i, q) /\ Due(i, q)' <= Due(i, q)
  BY <1>1, <1>4, <1>5
<1> QED
  BY <1>1, <1>2, <1>6, <1>8, <1>9

(* Nothing is charged to a row that was never inserted. *)
LEMMA FreshCovered ==
    ASSUME BillingInv, NEW id \in Id, lastId < id
    PROVE  Covered(id) /\ peers[id].life = 0
<1>0. TypeOK /\ CountersBounded /\ KeysHeld
  BY DEF BillingInv, IInv
<1>1. ~Exists(peers[id]) /\ ~Exists(snap[id])
  BY <1>0 DEF BillingInv, IInv, IdsFresh, TypeOK
<1>2. peers[id] = NoRow
  BY <1>0, <1>1, RowFacts DEF TypeOK, Row
<1>3. ASSUME NEW p \in Pub PROVE Counted(id, p) = 0 /\ Due(id, p) = 0
  <2>1. snap[id].pub # p
    BY <1>0, <1>1, KeyOfRow DEF TypeOK
  <2>2. owner[p] # id
    BY <1>0, BoundAssumption DEF KeysHeld, TypeOK, Id
  <2> QED
    BY <2>1, <2>2 DEF Counted, Due
<1>4. Total(CountedOf(id)) = 0 /\ Total(DueOf(id)) = 0
  BY <1>3, TotalZero DEF CountedOf, DueOf
<1> QED
  BY <1>0, <1>2, <1>4 DEF Covered, NoRow, TypeOK

(* A handler writes row id with key p. *)
LEMMA TakeKeyBilling ==
    ASSUME BillingInv, IInv', NEW id \in Id, NEW p \in Pub, TakeKey(id, p), KeyFree(id, p),
           UNCHANGED <<late, kernVars, runVars>>,
           lastId' >= lastId, id <= lastId',
           peers'[id].pub = p,
           \A i \in Id \ {id} : peers'[i] = peers[i],
           Covered(id), peers'[id].life = peers[id].life
    PROVE  BillingNext
<1>0. TypeOK /\ TypeOK' /\ CountersBounded /\ KeysHeld
  BY DEF BillingInv, IInv
<1>1. UNCHANGED <<raw, prevSample, pc, snap, todo, dev, carried>>
  BY DEF kernVars, runVars, TakeKey
<1>2. CountersBounded'
  BY <1>0, <1>1 DEF CountersBounded
<1>3. /\ owner'[p] = id /\ \A q \in Pub \ {p} : owner'[q] = owner[q]
      /\ \E k \in Nat :
            /\ bill'[id] = bill[id] + k
            /\ Counted(id, p)' <= Counted(id, p) + k
            /\ Due(id, p)' <= Due(id, p) + k
      /\ \A q \in Pub \ {p} : Counted(id, q)' <= Counted(id, q) /\ Due(id, q)' <= Due(id, q)
      /\ \A i \in Id \ {id} :
            /\ bill'[i] = bill[i]
            /\ \A q \in Pub : Counted(i, q)' <= Counted(i, q) /\ Due(i, q)' <= Due(i, q)
  BY <1>0, <1>1, TakeKeyMoves
<1>4. KeysHeld'
  <2>1. ASSUME NEW i \in Id, Exists(peers'[i]) PROVE owner'[peers'[i].pub] = i
    <3>1. CASE i = id
      BY <1>3, <3>1
    <3>2. CASE i # id
      <4>1. peers[i].pub \in Pub \ {p} /\ owner[peers[i].pub] = i
        BY <1>0, <2>1, <3>2, KeyOfRow DEF KeyFree, KeysHeld, TypeOK
      <4> QED
        BY <1>3, <3>2, <4>1
    <3> QED
      BY <3>1, <3>2
  <2>2. \A q \in Pub : owner'[q] <= lastId'
    <3>1. ASSUME NEW q \in Pub \ {p} PROVE owner'[q] <= lastId'
      <4>1. owner'[q] = owner[q] /\ owner[q] <= lastId /\ owner[q] \in Int
        BY <1>0, <1>3, BoundAssumption DEF KeysHeld, TypeOK, Id
      <4>2. lastId \in Int /\ lastId' \in Int
        BY <1>0, BoundAssumption DEF TypeOK
      <4> QED
        BY <4>1, <4>2
    <3> QED
      BY <1>3, <3>1
  <2> QED
    BY <1>0, <1>1, <2>1, <2>2 DEF KeysHeld
<1>5. ASSUME NEW i \in Id, Exists(peers'[i]) PROVE Covered(i)'
  <2>1. CASE i # id
    <3>1. Covered(i) /\ peers'[i].life = peers[i].life /\ bill'[i] >= bill[i]
      BY <1>0, <1>3, <1>5, <2>1 DEF BillingInv, BillsCover, TypeOK
    <3> QED
      BY <1>0, <1>2, <1>3, <2>1, <3>1, CoveredShrinks
  <2>2. CASE i = id
    <3>1. PICK k \in Nat : /\ bill'[id] = bill[id] + k
                           /\ Counted(id, p)' <= Counted(id, p) + k
                           /\ Due(id, p)' <= Due(id, p) + k
      BY <1>3
    <3> QED
      BY <1>0, <1>2, <1>3, <2>2, <3>1, CoveredRises
  <2> QED
    BY <2>1, <2>2
<1> QED
  BY <1>2, <1>4, <1>5 DEF BillingNext, BillsCover

(* A PATCH keeps the key of the row it read. *)
LEMMA PatchedKey ==
    ASSUME NEW r \in LiveRow, NEW new \in Patched(r)
    PROVE  new.pub = r.pub
BY DEF Patched, LiveRow

(* UpdatePeer writes one row: its key is the new one, its lifetime stays.   *)
LEMMA UpdatePeerKey ==
    ASSUME TypeOK, NEW id \in Id, Exists(peers[id]), NEW row \in LiveRow
    PROVE  /\ UpdatePeer(id, row)[id].pub = row.pub
           /\ UpdatePeer(id, row)[id].life = peers[id].life
           /\ \A i \in Id \ {id} : UpdatePeer(id, row)[i] = peers[i]
BY DEF TypeOK, UpdatePeer, LiveRow

(* The handlers' steps. *)
LEMMA HandlerStepBilling == BillingInv /\ HandlerStep => BillingInv'
<1> SUFFICES ASSUME BillingInv, HandlerStep PROVE BillingInv'
  OBVIOUS
<1>0. TypeOK /\ IInv' /\ peers \in [Id -> Row]
  BY HandlerStepIInv DEF BillingInv, IInv, TypeOK
<1> SUFFICES BillingNext
  BY <1>0 DEF BillingInv, BillingNext
<1>1. ASSUME NEW p \in Pub, NEW l \in Limits, NEW e \in BOOLEAN, handleCreatePeer(p, l, e)
      PROVE  BillingNext
  <2> DEFINE row == [NoRow EXCEPT !.pub = p, !.limit = l, !.exp = e]
  <2>0. PICK n : n = lastId + 1
    OBVIOUS
  <2>1. n \in Id /\ lastId' = n /\ lastId < n /\ lastId' >= lastId /\ n <= lastId'
    BY <1>0, <1>1, <2>0, BoundAssumption DEF handleCreatePeer, TypeOK, Id
  <2>2. row.pub = p /\ row.life = 0
    BY DEF NoRow
  <2> HIDE DEF row
  <2>3. peers' = [peers EXCEPT ![n] = row]
    BY <1>1, <2>0 DEF handleCreatePeer, row
  <2>4. peers'[n] = row /\ \A i \in Id \ {n} : peers'[i] = peers[i]
    BY <1>0, <2>1, <2>3
  <2>5. KeyFree(n, p)
    BY <1>1, BoundAssumption DEF handleCreatePeer, KeyFree, Id
  <2>6. TakeKey(n, p) /\ UNCHANGED <<late, kernVars, runVars>>
    BY <1>1, <2>0 DEF handleCreatePeer
  <2>7. Covered(n) /\ peers'[n].life = peers[n].life
    BY <2>1, <2>2, <2>4, FreshCovered
  <2> QED
    BY <1>0, <2>1, <2>2, <2>4, <2>5, <2>6, <2>7, TakeKeyBilling
<1>2. ASSUME NEW id \in Id, handleDeletePeer(id) PROVE BillingNext
  <2>1. \A i \in Id : Exists(peers'[i]) => peers'[i] = peers[i]
    BY <1>0, <1>2, RowFacts DEF handleDeletePeer
  <2> QED
    BY <1>0, <1>2, <2>1, NothingCharged DEF handleDeletePeer, kernVars, runVars, ghosts
<1>3. ASSUME NEW id \in Id, NEW v \in BOOLEAN, setSuspend(id, v) PROVE BillingNext
  <2>1. Exists(peers[id]) /\ peers' = [peers EXCEPT ![id].susp = v]
    BY <1>3 DEF setSuspend, SetPeerSuspended
  <2>2. \A i \in Id : /\ Exists(peers'[i]) <=> Exists(peers[i])
                      /\ peers'[i].life = peers[i].life /\ peers'[i].pub = peers[i].pub
    BY <1>0, <2>1, SuspWrite
  <2> QED
    BY <1>0, <1>3, <2>2, NothingCharged DEF setSuspend, kernVars, runVars, ghosts
<1>4. ASSUME NEW h \in Handler, NEW op \in {"patch", "reset", "rotate"}, NEW id \in Id,
             GetPeer(h, op, id)
      PROVE  BillingNext
  BY <1>0, <1>4, NothingCharged DEF GetPeer, dbVars, kernVars, runVars, ghosts
<1>5. ASSUME NEW h \in Handler, RequestFails(h) PROVE BillingNext
  BY <1>0, <1>5, NothingCharged DEF RequestFails, dbVars, kernVars, runVars, ghosts
<1>6. ASSUME NEW h \in Handler, NEW new \in Patched(req[h].row), handleUpdatePeer(h, new)
      PROVE  BillingNext
  <2>0. PICK id, p : id = req[h].id /\ p = new.pub
    OBVIOUS
  <2>1. req[h] # NoRequest
    BY <1>6, NoRequestIsNone DEF handleUpdatePeer
  <2>2. id \in Id /\ new \in LiveRow /\ p \in Pub /\ p = req[h].row.pub
    BY <1>0, <2>0, <2>1, RequestFacts, PatchedRows, PatchedKey DEF LiveRow
  <2>3. Exists(peers[id]) /\ peers' = UpdatePeer(id, new) /\ TakeKey(id, p) /\ KeyFree(id, p)
    BY <1>6, <2>0, <2>2 DEF handleUpdatePeer
  <2>4. /\ peers'[id].pub = p /\ peers'[id].life = peers[id].life
        /\ \A i \in Id \ {id} : peers'[i] = peers[i]
    BY <1>0, <2>0, <2>2, <2>3, UpdatePeerKey
  <2>5. id <= lastId
    BY <1>0, <2>2, <2>3, BoundAssumption DEF BillingInv, IInv, IdsFresh, TypeOK, Id
  <2>6. lastId' = lastId /\ UNCHANGED <<late, kernVars, runVars>>
    BY <1>6 DEF handleUpdatePeer
  <2>7. /\ lastId' >= lastId /\ id <= lastId'
        /\ TakeKey(id, p) /\ KeyFree(id, p)
        /\ Covered(id)
    BY <1>0, <2>2, <2>3, <2>5, <2>6 DEF TypeOK, BillingInv, BillsCover
  <2>8. UNCHANGED <<late, kernVars, runVars>>
    BY <2>6
  <2> QED
    BY <1>0, <2>2, <2>4, <2>7, <2>8, TakeKeyBilling
<1>7. ASSUME NEW h \in Handler, handleResetPeerTraffic(h) PROVE BillingNext
  <2>1. \A i \in Id : Exists(peers'[i]) => /\ Exists(peers[i])
                                           /\ peers'[i].pub = peers[i].pub
                                           /\ peers'[i].life = peers[i].life
    BY <1>0, <1>7, RowFacts DEF handleResetPeerTraffic, LiveRow, Exists
  <2> QED
    BY <1>0, <1>7, <2>1, NothingCharged DEF handleResetPeerTraffic, kernVars, runVars, ghosts
<1>8. ASSUME NEW h \in Handler, NEW p \in Pub, handleIssueClientKey(h, p) PROVE BillingNext
  <2> DEFINE rotated == [req[h].row EXCEPT !.pub = p, !.offset = 0, !.life = 0]
  <2>0. PICK id : id = req[h].id
    OBVIOUS
  <2>1. req[h] # NoRequest
    BY <1>8, NoRequestIsNone DEF handleIssueClientKey
  <2>2. id \in Id /\ rotated \in LiveRow /\ rotated.pub = p
    <3>1. id \in Id /\ req[h].row \in LiveRow
      BY <1>0, <2>0, <2>1, RequestFacts
    <3>2. rotated \in LiveRow
      BY <3>1, RowWrites
    <3>3. rotated.pub = p
      BY <3>1 DEF LiveRow
    <3> QED
      BY <3>1, <3>2, <3>3
  <2> HIDE DEF rotated
  <2>3. Exists(peers[id]) /\ peers' = UpdatePeer(id, rotated) /\ TakeKey(id, p) /\ owner[p] = 0
    BY <1>8, <2>0 DEF handleIssueClientKey, rotated
  <2>4. KeyFree(id, p)
    <3>1. \A i \in Id : Exists(peers[i]) => owner[peers[i].pub] = i
      BY DEF BillingInv, KeysHeld
    <3>2. 0 \notin Id
      BY DEF Id
    <3> QED
      BY <1>0, <2>3, <3>1, <3>2, KeyOfRow DEF KeyFree
  <2>5. /\ peers'[id].pub = p /\ peers'[id].life = peers[id].life
        /\ \A i \in Id \ {id} : peers'[i] = peers[i]
    BY <1>0, <2>2, <2>3, UpdatePeerKey
  <2>6. id <= lastId
    BY <1>0, <2>2, <2>3, BoundAssumption DEF BillingInv, IInv, IdsFresh, TypeOK, Id
  <2>7. lastId' = lastId /\ UNCHANGED <<late, kernVars, runVars>>
    BY <1>8 DEF handleIssueClientKey
  <2>8. /\ lastId' >= lastId /\ id <= lastId'
        /\ TakeKey(id, p)
        /\ Covered(id)
    BY <1>0, <2>2, <2>3, <2>6, <2>7 DEF TypeOK, BillingInv, BillsCover
  <2>9. UNCHANGED <<late, kernVars, runVars>>
    BY <2>7
  <2> QED
    BY <1>0, <2>2, <2>4, <2>5, <2>8, <2>9, TakeKeyBilling
<1> QED
  BY <1>1, <1>2, <1>3, <1>4, <1>5, <1>6, <1>7, <1>8 DEF HandlerStep
-----------------------------------------------------------------------------
(* The kernel carries a byte: whoever may be charged for it is billed.      *)
LEMMA CarryBilling ==
    ASSUME BillingInv, IInv', NEW p \in Pub, Carry(p)
    PROVE  BillingNext
<1>0. TypeOK /\ TypeOK' /\ CountersBounded /\ KeysHeld
  BY DEF BillingInv, IInv
<1>1. /\ UNCHANGED <<peers, lastId, prevSample, pc, snap, todo, dev, owner>>
      /\ raw'[p] = raw[p] + 1 /\ \A q \in Pub \ {p} : raw'[q] = raw[q]
      /\ carried' = carried + 1 /\ carried < MaxBytes
      /\ \A i \in Id : bill'[i] = IF owner[p] = i \/ snap[i].pub = p THEN bill[i] + 1 ELSE bill[i]
  BY <1>0 DEF Carry, dbVars, runVars, Payers, TypeOK
<1>2. CountersBounded'
  <2>1. carried' \in Nat /\ carried' <= MaxBytes
    BY <1>0, <1>1, BoundAssumption DEF TypeOK
  <2>2. \A q \in Pub : raw'[q] <= carried' /\ dev'[q] <= carried'
    BY <1>0, <1>1 DEF CountersBounded, TypeOK
  <2> QED
    BY <2>1, <2>2 DEF CountersBounded
<1>3. KeysHeld'
  BY <1>0, <1>1 DEF KeysHeld
<1>4. ASSUME NEW i \in Id, Exists(peers'[i]) PROVE Covered(i)'
  <2>1. Covered(i) /\ peers'[i].life = peers[i].life /\ bill[i] \in Nat
    BY <1>0, <1>1, <1>4 DEF BillingInv, BillsCover, TypeOK
  <2>2. /\ (Sampling(i)' <=> Sampling(i))
        /\ \A q \in Pub : Listed(q)' <=> Listed(q)
    BY <1>1 DEF Sampling, Listed
  <2>3. \A q \in Pub : Counted(i, q) \in Nat /\ Due(i, q) \in Nat
    BY <1>0, KeyTypes DEF Counted, Due
  <2>4. \A q \in Pub \ {p} : Counted(i, q)' <= Counted(i, q) /\ Due(i, q)' <= Due(i, q)
    BY <1>1, <2>2, <2>3 DEF Counted, Due
  <2>5. CASE owner[p] = i \/ snap[i].pub = p
    <3>0. /\ raw[p] \in Nat /\ raw[p] + 1 \in Nat /\ dev[p] \in Nat
          /\ prevSample[p] \in Nat \cup {NoSample}
      BY <1>0 DEF TypeOK
    <3>1. /\ Advance(dev[p], raw[p] + 1) <= Advance(dev[p], raw[p]) + 1
          /\ Advance(dev[p], raw[p] + 1) \in Nat /\ Advance(dev[p], raw[p]) \in Nat
      BY <3>0, AdvanceFacts
    <3>2. /\ Unsampled(prevSample[p], raw[p] + 1) <= Unsampled(prevSample[p], raw[p]) + 1
          /\ Unsampled(prevSample[p], raw[p] + 1) \in Nat
          /\ Unsampled(prevSample[p], raw[p]) \in Nat
          /\ Unsampled(prevSample[p], dev[p]) \in Nat
      BY <3>0, UnsampledFacts
    <3>3. Counted(i, p)' <= Counted(i, p) + 1 /\ Due(i, p)' <= Due(i, p) + 1
      BY <1>1, <2>2, <3>0, <3>1, <3>2 DEF Counted, Due
    <3>4. bill'[i] = bill[i] + 1
      BY <1>1, <2>5
    <3> QED
      BY <1>0, <1>2, <2>1, <2>4, <3>3, <3>4, CoveredRises
  <2>6. CASE ~(owner[p] = i \/ snap[i].pub = p)
    <3>1. Counted(i, p)' <= Counted(i, p) /\ Due(i, p)' <= Due(i, p)
      BY <1>1, <2>6 DEF Counted, Due
    <3>2. bill'[i] >= bill[i]
      BY <1>1, <2>1, <2>6
    <3> QED
      BY <1>0, <1>2, <2>1, <2>4, <3>1, <3>2, CoveredShrinks
  <2> QED
    BY <2>5, <2>6
<1> QED
  BY <1>2, <1>3, <1>4 DEF BillingNext, BillsCover

(* The environment's steps. *)
LEMMA EnvironmentBilling == BillingInv /\ Environment => BillingInv'
<1> SUFFICES ASSUME BillingInv, Environment PROVE BillingInv'
  OBVIOUS
<1>0. TypeOK /\ IInv'
  BY EnvironmentIInv DEF BillingInv, IInv
<1> SUFFICES BillingNext
  BY <1>0 DEF BillingInv, BillingNext
<1>1. ASSUME NEW p \in Pub, Carry(p) PROVE BillingNext
  BY <1>0, <1>1, CarryBilling
<1>2. CASE ExpiryPasses
  BY <1>0, <1>2, NothingCharged DEF ExpiryPasses, kernVars, runVars, ghosts
<1>3. CASE LinkRecreated
  <2>1. \A p \in Pub : raw'[p] = 0
    BY <1>3 DEF LinkRecreated
  <2> QED
    BY <1>0, <1>3, <2>1, NothingCharged DEF LinkRecreated, dbVars, runVars, ghosts
<1>4. CASE Restart
  <2>1. \A p \in Pub : prevSample'[p] = NoSample
    BY <1>4 DEF Restart
  <2> QED
    BY <1>0, <1>4, <2>1, ForgetBilling DEF Restart, dbVars, kernVars, ghosts
<1> QED
  BY <1>1, <1>2, <1>3, <1>4 DEF Environment
-----------------------------------------------------------------------------
(* Nothing is carried, held or charged at first. *)
LEMMA InitBilling == Init => BillingInv
<1> SUFFICES ASSUME Init PROVE BillingInv
  OBVIOUS
<1>1. IInv
  BY InitIInv
<1>2. CountersBounded
  BY BoundAssumption DEF Init, CountersBounded
<1>3. KeysHeld
  BY RowFacts DEF Init, KeysHeld
<1>4. BillsCover
  BY RowFacts DEF Init, BillsCover
<1> QED
  BY <1>1, <1>2, <1>3, <1>4 DEF BillingInv

(* Every step preserves the invariant. *)
LEMMA NextBilling == BillingInv /\ [Next]_vars => BillingInv'
<1> SUFFICES ASSUME BillingInv, [Next]_vars PROVE BillingInv'
  OBVIOUS
<1>1. CASE Next
  BY <1>1, RunStepBilling, HandlerStepBilling, EnvironmentBilling DEF Next
<1>2. CASE UNCHANGED vars
  <2>1. IInv'
    BY NextIInv DEF BillingInv
  <2>2. BillingNext
    BY <1>2, <2>1, NothingCharged DEF vars, dbVars, kernVars, runVars, ghosts
  <2> QED
    BY <2>1, <2>2 DEF BillingInv, BillingNext
<1> QED
  BY <1>1, <1>2

(* The bills cover the lifetimes in every reachable state. *)
LEMMA SpecBilling == Spec => []BillingInv
BY InitBilling, NextBilling, PTL DEF Spec

(* A row is never charged a byte the kernel did not count on one of its     *)
(* keys: for any number of keys, rows, concurrent requests and rotations,   *)
(* through every counter reset, restart and failed write.                   *)
THEOREM NoRowOverbilled == Spec => []NeverOverbilled
<1>1. BillingInv => NeverOverbilled
  <2> SUFFICES ASSUME BillingInv, NEW id \in Id, Exists(peers[id])
               PROVE  peers[id].life <= bill[id]
    BY DEF NeverOverbilled
  <2>1. Covered(id) /\ TypeOK
    BY DEF BillingInv, BillsCover, IInv
  <2>2. Total(DueOf(id)) \in Nat
    BY TotalType
  <2>3. peers[id].life \in Nat /\ bill[id] \in Nat
    BY <2>1, RowFacts DEF TypeOK
  <2> QED
    BY <2>1, <2>2, <2>3 DEF Covered
<1> QED
  BY <1>1, SpecBilling, PTL
-----------------------------------------------------------------------------
(***************************************************************************)
(* Without a counter reset, a failed write, a deleted row or a rotated key *)
(* every byte is billed exactly once.  Restarts, runs that fail half way   *)
(* and samples that get dropped are among what may happen.                 *)
(***************************************************************************)
NothingLost ==
    /\ Ops \cap {"delete", "rotate"} = {}
    /\ Faults \cap {"recreate", "store"} = {}

(* A row keeps its key: what a run listed and what a request read is still  *)
(* there.                                                                   *)
RowsStay ==
    /\ \A id \in Id : Exists(snap[id]) => snap[id].pub = peers[id].pub
    /\ \A h \in Handler : req[h] # NoRequest =>
          req[h].op # "rotate" /\ peers[req[h].id].pub = req[h].row.pub

(* A key the kernel has, has counted on, or that was sampled is that of a   *)
(* row, which the run about to apply the peers has listed.                  *)
KeysListed ==
    \A p \in Pub :
        kern[p] # "absent" \/ raw[p] # 0 \/ prevSample[p] # NoSample
            => \E id \in Id : peers[id].pub = p /\ (pc = "enforce" => snap[id].pub = p)

(* What the kernel counts on a row's key is the row's bill, and the last    *)
(* sample is its lifetime.                                                  *)
Settled(id) ==
    \A p \in Pub : peers[id].pub = p =>
        /\ bill[id] = raw[p]
        /\ peers[id].life <= raw[p]
        /\ prevSample[p] # NoSample => prevSample[p] = peers[id].life
        /\ Sampling(id) => peers[id].life <= dev[p] /\ dev[p] <= raw[p]

AllSettled == \A id \in Id : Exists(peers[id]) => Settled(id)

(* A row that was never inserted has no bill. *)
FreshUnbilled == \A id \in Id : id > lastId => bill[id] = 0

ExactInv == BillingInv /\ RowsStay /\ KeysListed /\ AllSettled /\ FreshUnbilled

ExactNext == RowsStay' /\ KeysListed' /\ AllSettled' /\ FreshUnbilled'

(* A step that leaves keys, counters, samples and lifetimes alone.          *)
LEMMA SettledStays ==
    ASSUME ExactInv, BillingInv',
           UNCHANGED <<raw, prevSample, bill, dev, todo, lastId>>,
           pc' = pc \/ pc' \notin {"sample", "enforce"},
           \A p \in Pub : kern'[p] = "absent" \/ kern[p] # "absent",
           \A i \in Id : snap'[i].pub = snap[i].pub,
           \A i \in Id : peers'[i].pub = peers[i].pub /\ peers'[i].life = peers[i].life,
           \A h \in Handler : req'[h] # NoRequest =>
               req'[h].op # "rotate" /\ peers[req'[h].id].pub = req'[h].row.pub /\ req'[h].id \in Id
    PROVE  ExactNext
<1>1. RowsStay'
  BY DEF ExactInv, RowsStay, Exists
<1>2. KeysListed'
  BY DEF ExactInv, KeysListed
<1>3. AllSettled'
  BY DEF ExactInv, AllSettled, Settled, Sampling, Exists
<1>4. FreshUnbilled'
  BY DEF ExactInv, FreshUnbilled
<1> QED
  BY <1>1, <1>2, <1>3, <1>4 DEF ExactNext

(* The requests in flight still name the rows they read. *)
LEMMA RequestsStay ==
    ASSUME ExactInv
    PROVE  \A h \in Handler : req[h] # NoRequest =>
             req[h].op # "rotate" /\ peers[req[h].id].pub = req[h].row.pub /\ req[h].id \in Id
BY RequestFacts DEF ExactInv, RowsStay, BillingInv, IInv

(* A sample settles the row: its lifetime becomes the reading.              *)
LEMMA SamplePeerExact ==
    ASSUME NothingLost, ExactInv, BillingInv', NEW id \in Id, SamplePeer(id)
    PROVE  ExactNext
<1> PICK p : p = snap[id].pub
  OBVIOUS
<1> DEFINE life == AccumulateLifetime(snap[id].life, dev[p], prevSample[p])
<1>0. TypeOK /\ KeysHeld /\ peers \in [Id -> Row]
  BY DEF ExactInv, BillingInv, IInv, TypeOK
<1>1. /\ UNCHANGED <<kern, raw, pc, snap, dev, req, bill>>
      /\ pc = "sample" /\ id \in todo /\ todo' = todo \ {id}
      /\ prevSample' = [prevSample EXCEPT ![p] = dev[p]]
  BY DEF SamplePeer, kernVars, ghosts
<1>2. Exists(snap[id]) /\ p \in Pub
  BY <1>0, <1>1, KeyOfRow DEF ExactInv, BillingInv, IInv, RunLocals, RowsOf, TypeOK
<1>3. peers[id].pub = p /\ Exists(peers[id])
  BY <1>0, <1>2, KeyOfRow DEF ExactInv, RowsStay
<1>4. snap[id].life = peers[id].life /\ peers[id].life \in Nat
  BY <1>0, <1>1, <1>2, <1>3, RowFacts DEF ExactInv, BillingInv, IInv, SnapshotCurrent
<1>5. /\ dev[p] \in Nat /\ raw[p] \in Nat /\ prevSample[p] \in Nat \cup {NoSample}
      /\ peers[id].life <= dev[p] /\ dev[p] <= raw[p] /\ bill[id] = raw[p]
      /\ prevSample[p] # NoSample => prevSample[p] = peers[id].life
  BY <1>0, <1>1, <1>2, <1>3 DEF ExactInv, AllSettled, Settled, Sampling, TypeOK
<1>6. life = dev[p]
  BY <1>4, <1>5 DEF AccumulateLifetime, NoSample
<1> HIDE DEF life
<1>7. peers' = [peers EXCEPT ![id].life = life]
  BY <1>3 DEF SamplePeer, UpdatePeerStats, Outcomes, NothingLost, life
<1>8. /\ \A i \in Id : Exists(peers'[i]) <=> Exists(peers[i])
      /\ \A i \in Id \ {id} : peers'[i] = peers[i]
      /\ peers'[id].life = dev[p] /\ peers'[id].pub = p
  BY <1>0, <1>3, <1>5, <1>6, <1>7, LifeWrite
<1>9. prevSample'[p] = dev[p] /\ \A q \in Pub \ {p} : prevSample'[q] = prevSample[q]
  BY <1>0, <1>1, <1>2 DEF TypeOK
<1>a. FreshUnbilled'
  BY <1>1 DEF ExactInv, FreshUnbilled, SamplePeer
<1>10. RowsStay'
  BY <1>1, <1>3, <1>8, RequestsStay DEF ExactInv, RowsStay
<1>11. KeysListed'
  BY <1>1, <1>3, <1>8, <1>9 DEF ExactInv, KeysListed
<1>12. ASSUME NEW i \in Id, Exists(peers'[i]) PROVE Settled(i)'
  <2>1. CASE i = id
    BY <1>1, <1>5, <1>8, <1>9, <2>1 DEF Settled, Sampling
  <2>2. CASE i # id
    <3>1. Settled(i) /\ peers'[i] = peers[i] /\ Exists(peers[i])
      BY <1>8, <1>12, <2>2 DEF ExactInv, AllSettled
    <3>2. peers[i].pub # p
      BY <1>0, <1>2, <1>3, <2>2, <3>1 DEF KeysHeld
    <3>3. Sampling(i)' <=> Sampling(i)
      BY <1>1, <2>2 DEF Sampling
    <3> QED
      BY <1>1, <1>9, <3>1, <3>2, <3>3 DEF Settled
  <2> QED
    BY <2>1, <2>2
<1> QED
  BY <1>a, <1>10, <1>11, <1>12 DEF ExactNext, AllSettled

(* The run's steps. *)
LEMMA RunStepExact == NothingLost /\ ExactInv /\ RunStep => ExactInv'
<1> SUFFICES ASSUME NothingLost, ExactInv, RunStep PROVE ExactInv'
  OBVIOUS
<1>0. TypeOK /\ TypeOK' /\ IInv /\ KeysHeld /\ BillingInv' /\ peers \in [Id -> Row] /\ snap \in [Id -> Row]
  BY RunStepBilling DEF ExactInv, BillingInv, IInv, TypeOK
<1> SUFFICES ExactNext
  BY <1>0 DEF ExactInv, ExactNext
<1>b. UNCHANGED <<lastId, bill>> => FreshUnbilled'
  BY DEF ExactInv, FreshUnbilled
<1>a. \A p \in Pub, i, j \in Id : peers[i].pub = p /\ peers[j].pub = p => i = j
  BY <1>0, KeyOfRow DEF KeysHeld
<1>1. CASE RunBegin
  <2>1. /\ UNCHANGED <<peers, lastId, kern, raw, prevSample, todo, dev, req, bill>>
        /\ pc = "idle" /\ pc' = "enforce" /\ snap' = peers
    BY <1>1 DEF RunBegin, dbVars, kernVars, ghosts
  <2>2. RowsStay' /\ KeysListed' /\ AllSettled'
    BY <2>1 DEF ExactInv, RowsStay, KeysListed, AllSettled, Settled, Sampling
  <2> QED
    BY <1>b, <2>1, <2>2 DEF ExactNext
<1>2. ASSUME NEW id \in Id, Enforce(id) PROVE ExactNext
  <2>1. Exists(snap[id]) /\ snap' = [snap EXCEPT ![id].susp = TRUE]
    BY <1>2 DEF Enforce, ShouldAutoSuspend
  <2>2. \A i \in Id : snap'[i].pub = snap[i].pub
    BY <1>0, <2>1, SuspWrite
  <2>3. \A i \in Id : peers'[i].pub = peers[i].pub /\ peers'[i].life = peers[i].life
    <3>1. \/ peers' = peers
          \/ Exists(peers[id]) /\ peers' = [peers EXCEPT ![id].susp = TRUE]
      BY <1>2 DEF Enforce, SetPeerSuspended
    <3>2. CASE peers' = peers
      BY <3>2
    <3>3. CASE Exists(peers[id]) /\ peers' = [peers EXCEPT ![id].susp = TRUE]
      BY <1>0, <3>3, SuspWrite
    <3> QED
      BY <3>1, <3>2, <3>3
  <2> QED
    BY <1>0, <1>2, <2>2, <2>3, RequestsStay, SettledStays DEF Enforce, kernVars, ghosts
<1>3. CASE ApplyPeers
  <2>1. /\ UNCHANGED <<peers, lastId, prevSample, snap, todo, dev, req, bill>>
        /\ pc = "enforce" /\ pc' = "device"
    BY <1>3 DEF ApplyPeers, dbVars, ghosts
  <2>2. ASSUME NEW p \in Pub PROVE raw'[p] = raw[p] /\ (kern'[p] # "absent" => p \in PubsOf(snap))
    <3>1. raw'[p] = IF p \in PubsOf(snap) THEN raw[p] ELSE 0
      BY <1>3 DEF ApplyPeers
    <3>2. raw[p] # 0 => p \in PubsOf(snap)
      BY <2>1, PubAssumption DEF ExactInv, KeysListed, PubsOf
    <3> QED
      BY <1>3, <3>1, <3>2 DEF ApplyPeers
  <2>3. KeysListed'
    <3>1. ASSUME NEW p \in Pub, p \in PubsOf(snap) PROVE \E id \in Id : peers[id].pub = p
      <4>1. PICK id \in Id : snap[id].pub = p
        BY <3>1 DEF PubsOf
      <4>2. Exists(snap[id])
        BY <1>0, <4>1, KeyOfRow
      <4> QED
        BY <4>1, <4>2 DEF ExactInv, RowsStay
    <3> QED
      BY <2>1, <2>2, <3>1 DEF ExactInv, KeysListed
  <2>4. RowsStay' /\ AllSettled'
    BY <2>1, <2>2 DEF ExactInv, RowsStay, AllSettled, Settled, Sampling
  <2> QED
    BY <1>b, <2>1, <2>3, <2>4 DEF ExactNext
<1>4. CASE BackendError
  <2>1. \A p \in Pub : kern'[p] = "absent" \/ kern[p] # "absent"
    BY <1>4 DEF BackendError, kernVars
  <2> QED
    BY <1>0, <1>4, <2>1, RequestsStay, SettledStays DEF BackendError, dbVars, kernVars, ghosts
<1>5. CASE ReadDevice
  <2>1. /\ UNCHANGED <<peers, lastId, kern, raw, prevSample, snap, req, bill>>
        /\ pc' = "sample" /\ dev' = raw
    BY <1>5 DEF ReadDevice, dbVars, kernVars, ghosts
  <2>2. RowsStay' /\ KeysListed'
    BY <2>1 DEF ExactInv, RowsStay, KeysListed
  <2>3. AllSettled'
    BY <1>0, <2>1 DEF ExactInv, AllSettled, Settled, TypeOK
  <2> QED
    BY <1>b, <2>1, <2>2, <2>3 DEF ExactNext
<1>6. ASSUME NEW id \in Id, SamplePeer(id) PROVE ExactNext
  BY <1>0, <1>6, SamplePeerExact
<1>7. CASE Prune
  <2>1. /\ UNCHANGED <<peers, lastId, kern, raw, todo, req, bill>>
        /\ pc' = "idle" /\ snap' = [id \in Id |-> NoRow]
        /\ \A p \in Pub : prevSample'[p] = prevSample[p] \/ prevSample'[p] = NoSample
    BY <1>7 DEF Prune, dbVars, kernVars, ghosts
  <2>2. RowsStay' /\ KeysListed' /\ AllSettled'
    BY <2>1, RowFacts DEF ExactInv, RowsStay, KeysListed, AllSettled, Settled, Sampling
  <2> QED
    BY <1>b, <2>1, <2>2 DEF ExactNext
<1> QED
  BY <1>1, <1>2, <1>3, <1>4, <1>5, <1>6, <1>7 DEF RunStep

(* A row is inserted: its key is new to the kernel and to the samples.      *)
LEMMA CreateExact ==
    ASSUME ExactInv, BillingInv', NEW p \in Pub, NEW l \in Limits, NEW e \in BOOLEAN,
           handleCreatePeer(p, l, e)
    PROVE  ExactNext
<1> DEFINE row == [NoRow EXCEPT !.pub = p, !.limit = l, !.exp = e]
<1> PICK n : n = lastId + 1
  OBVIOUS
<1>0. TypeOK /\ IInv /\ KeysHeld /\ peers \in [Id -> Row]
  BY DEF ExactInv, BillingInv, IInv, TypeOK
<1>1. /\ UNCHANGED <<kern, raw, prevSample, pc, snap, todo, dev, req>>
      /\ n \in Id /\ lastId' = n /\ lastId < n /\ KeyFree(0, p) /\ TakeKey(n, p)
  BY <1>0, BoundAssumption DEF handleCreatePeer, kernVars, runVars, TypeOK, Id
<1>2. row.pub = p /\ row.life = 0
  BY DEF NoRow
<1> HIDE DEF row
<1>3. peers'[n] = row /\ \A i \in Id \ {n} : peers'[i] = peers[i]
  BY <1>0, <1>1 DEF handleCreatePeer, row
<1>4. \A i \in Id : peers[i].pub # p
  BY <1>1, BoundAssumption DEF KeyFree, Id
<1>5. kern[p] = "absent" /\ raw[p] = 0 /\ prevSample[p] = NoSample
  BY <1>4 DEF ExactInv, KeysListed
<1>6. ~Exists(peers[n]) /\ ~Exists(snap[n]) /\ n \notin todo
  BY <1>0, <1>1 DEF IInv, IdsFresh, RunLocals, RowsOf, TypeOK
<1>7. \A q \in Pub : peers[n].pub # q
  BY <1>0, <1>1, <1>6, KeyOfRow
<1>8. bill'[n] = 0 /\ \A i \in Id \ {n} : bill'[i] = bill[i]
  BY <1>0, <1>1, <1>5 DEF TakeKey, ExactInv, FreshUnbilled, TypeOK
<1>9. RowsStay'
  <2>1. \A h \in Handler : req[h] # NoRequest => req[h].id # n
    <3>1. ASSUME NEW h \in Handler, req[h] # NoRequest PROVE req[h].row.pub \in Pub
      BY <1>0, <3>1, RequestFacts DEF LiveRow
    <3> QED
      BY <1>7, <3>1, RequestsStay
  <2> QED
    BY <1>1, <1>3, <1>6, <2>1, RequestsStay DEF ExactInv, RowsStay
<1>10. KeysListed'
  BY <1>1, <1>3, <1>5, <1>7 DEF ExactInv, KeysListed
<1>11. AllSettled'
  BY <1>1, <1>2, <1>3, <1>5, <1>6, <1>8 DEF ExactInv, AllSettled, Settled, Sampling
<1>12. FreshUnbilled'
  BY <1>0, <1>1, <1>8, BoundAssumption DEF ExactInv, FreshUnbilled, Id, TypeOK
<1> QED
  BY <1>9, <1>10, <1>11, <1>12 DEF ExactNext

(* The handlers' steps. *)
LEMMA HandlerStepExact == NothingLost /\ ExactInv /\ HandlerStep => ExactInv'
<1> SUFFICES ASSUME NothingLost, ExactInv, HandlerStep PROVE ExactInv'
  OBVIOUS
<1>0. TypeOK /\ KeysHeld /\ BillingInv' /\ peers \in [Id -> Row]
  BY HandlerStepBilling DEF ExactInv, BillingInv, IInv, TypeOK
<1> SUFFICES ExactNext
  BY <1>0 DEF ExactInv, ExactNext
<1>1. ASSUME NEW p \in Pub, NEW l \in Limits, NEW e \in BOOLEAN, handleCreatePeer(p, l, e)
      PROVE  ExactNext
  BY <1>0, <1>1, CreateExact
<1>2. ASSUME NEW id \in Id, handleDeletePeer(id) PROVE ExactNext
  BY <1>2 DEF handleDeletePeer, NothingLost
<1>3. ASSUME NEW id \in Id, NEW v \in BOOLEAN, setSuspend(id, v) PROVE ExactNext
  <2>1. Exists(peers[id]) /\ peers' = [peers EXCEPT ![id].susp = v]
    BY <1>3 DEF setSuspend, SetPeerSuspended
  <2>2. \A i \in Id : peers'[i].life = peers[i].life /\ peers'[i].pub = peers[i].pub
    BY <1>0, <2>1, SuspWrite
  <2>3. \A p \in Pub : kern'[p] = "absent" \/ kern[p] # "absent"
    BY <1>3 DEF setSuspend, kernVars
  <2> QED
    BY <1>0, <1>3, <2>2, <2>3, RequestsStay, SettledStays
       DEF setSuspend, kernVars, runVars, ghosts
<1>4. ASSUME NEW h \in Handler, NEW op \in {"patch", "reset", "rotate"}, NEW id \in Id,
             GetPeer(h, op, id)
      PROVE  ExactNext
  <2>1. op # "rotate" /\ req' = [req EXCEPT ![h] = [op |-> op, id |-> id, row |-> peers[id]]]
    BY <1>4 DEF GetPeer, NothingLost
  <2>2. \A g \in Handler : req'[g] # NoRequest =>
          req'[g].op # "rotate" /\ peers[req'[g].id].pub = req'[g].row.pub /\ req'[g].id \in Id
    BY <1>0, <2>1, RequestsStay DEF TypeOK
  <2>3. \A p \in Pub : kern'[p] = "absent" \/ kern[p] # "absent"
    BY <1>4 DEF GetPeer, kernVars
  <2> QED
    BY <1>0, <1>4, <2>2, <2>3, SettledStays DEF GetPeer, dbVars, kernVars, runVars, ghosts
<1>5. ASSUME NEW h \in Handler, RequestFails(h) PROVE ExactNext
  <2>1. \A g \in Handler : req'[g] # NoRequest => req'[g] = req[g]
    BY <1>0, <1>5 DEF RequestFails, TypeOK
  <2>2. \A p \in Pub : kern'[p] = "absent" \/ kern[p] # "absent"
    BY <1>5 DEF RequestFails, kernVars
  <2>3. \A g \in Handler : req'[g] # NoRequest =>
          req'[g].op # "rotate" /\ peers[req'[g].id].pub = req'[g].row.pub /\ req'[g].id \in Id
    BY <2>1, RequestsStay
  <2> QED
    BY <1>0, <1>5, <2>2, <2>3, SettledStays DEF RequestFails, dbVars, kernVars, runVars, ghosts
<1>6. ASSUME NEW h \in Handler, NEW new \in Patched(req[h].row), handleUpdatePeer(h, new)
      PROVE  ExactNext
  <2> PICK id, p : id = req[h].id /\ p = new.pub
    OBVIOUS
  <2>1. req[h] # NoRequest
    BY <1>6, NoRequestIsNone DEF handleUpdatePeer
  <2>2. id \in Id /\ new \in LiveRow /\ p \in Pub /\ p = req[h].row.pub
    BY <1>0, <2>1, RequestFacts, PatchedRows, PatchedKey DEF LiveRow
  <2>3. Exists(peers[id]) /\ peers' = UpdatePeer(id, new) /\ TakeKey(id, p) /\ peers[id].pub = p
    BY <1>6, <2>1, <2>2, RequestsStay DEF handleUpdatePeer
  <2>4. \A i \in Id : peers'[i].pub = peers[i].pub /\ peers'[i].life = peers[i].life
    <3>1. /\ peers'[id].pub = new.pub /\ peers'[id].life = peers[id].life
          /\ \A i \in Id \ {id} : peers'[i] = peers[i]
      BY <1>0, <2>2, <2>3, UpdatePeerKey
    <3>2. new.pub = peers[id].pub
      BY <2>2, <2>3
    <3> QED
      BY <3>1, <3>2
  <2>5. bill' = bill
    BY <1>0, <2>2, <2>3 DEF TakeKey, KeysHeld, TypeOK
  <2>6. \A g \in Handler : req'[g] # NoRequest => req'[g] = req[g]
    BY <1>0, <1>6 DEF handleUpdatePeer, TypeOK
  <2>7. \A g \in Handler : req'[g] # NoRequest =>
          req'[g].op # "rotate" /\ peers[req'[g].id].pub = req'[g].row.pub /\ req'[g].id \in Id
    BY <2>6, RequestsStay
  <2>8. \A q \in Pub : kern'[q] = "absent" \/ kern[q] # "absent"
    BY <1>6 DEF handleUpdatePeer, kernVars
  <2>9. UNCHANGED <<raw, prevSample, dev, todo, lastId, pc, snap>>
    BY <1>6 DEF handleUpdatePeer, kernVars, runVars
  <2> QED
    BY <1>0, <2>4, <2>5, <2>7, <2>8, <2>9, SettledStays
<1>7. ASSUME NEW h \in Handler, handleResetPeerTraffic(h) PROVE ExactNext
  <2>1. \A i \in Id : peers'[i].pub = peers[i].pub /\ peers'[i].life = peers[i].life
    BY <1>0, <1>7, RowFacts DEF handleResetPeerTraffic, LiveRow
  <2>2. \A g \in Handler : req'[g] # NoRequest => req'[g] = req[g]
    BY <1>0, <1>7 DEF handleResetPeerTraffic, TypeOK
  <2>3. \A g \in Handler : req'[g] # NoRequest =>
          req'[g].op # "rotate" /\ peers[req'[g].id].pub = req'[g].row.pub /\ req'[g].id \in Id
    BY <2>2, RequestsStay
  <2>4. \A q \in Pub : kern'[q] = "absent" \/ kern[q] # "absent"
    BY <1>7 DEF handleResetPeerTraffic, kernVars
  <2>5. UNCHANGED <<raw, prevSample, bill, dev, todo, lastId, pc, snap>>
    BY <1>7 DEF handleResetPeerTraffic, kernVars, runVars, ghosts
  <2> QED
    BY <1>0, <2>1, <2>3, <2>4, <2>5, SettledStays
<1>8. ASSUME NEW h \in Handler, NEW p \in Pub, handleIssueClientKey(h, p) PROVE ExactNext
  <2>1. req[h] # NoRequest /\ req[h].op = "rotate"
    BY <1>8, NoRequestIsNone DEF handleIssueClientKey
  <2> QED
    BY <2>1, RequestsStay
<1> QED
  BY <1>1, <1>2, <1>3, <1>4, <1>5, <1>6, <1>7, <1>8 DEF HandlerStep

(* A carried byte goes to the one row that holds the key. *)
LEMMA CarryExact ==
    ASSUME ExactInv, BillingInv', NEW p \in Pub, Carry(p)
    PROVE  ExactNext
<1>0. TypeOK /\ KeysHeld /\ IInv /\ peers \in [Id -> Row] /\ snap \in [Id -> Row]
  BY DEF ExactInv, BillingInv, IInv, TypeOK
<1>1. /\ UNCHANGED <<peers, lastId, kern, prevSample, pc, snap, todo, dev, req, owner>>
      /\ raw'[p] = raw[p] + 1 /\ \A q \in Pub \ {p} : raw'[q] = raw[q]
      /\ kern[p] # "absent"
      /\ \A i \in Id : bill'[i] = IF owner[p] = i \/ snap[i].pub = p THEN bill[i] + 1 ELSE bill[i]
  BY <1>0 DEF Carry, dbVars, runVars, Payers, TypeOK
<1>2. RowsStay'
  BY <1>1 DEF ExactInv, RowsStay
<1>3. KeysListed'
  BY <1>1 DEF ExactInv, KeysListed
<1>4. FreshUnbilled'
  <2>1. ASSUME NEW i \in Id, i > lastId PROVE owner[p] # i /\ snap[i].pub # p
    <3>1. ~Exists(snap[i])
      BY <1>0, <2>1 DEF IInv, IdsFresh
    <3>2. owner[p] \in Int /\ owner[p] <= lastId /\ lastId \in Int
      BY <1>0, BoundAssumption DEF KeysHeld, TypeOK, Id
    <3> QED
      BY <1>0, <2>1, <3>1, <3>2, KeyOfRow DEF Id
  <2> QED
    BY <1>1, <2>1 DEF ExactInv, FreshUnbilled
<1>5. ASSUME NEW i \in Id, Exists(peers'[i]) PROVE Settled(i)'
  <2>1. Settled(i) /\ Exists(peers[i]) /\ (Sampling(i)' <=> Sampling(i))
    BY <1>1, <1>5 DEF ExactInv, AllSettled, Sampling
  <2>2. peers[i].pub \in Pub /\ owner[peers[i].pub] = i
    BY <1>0, <2>1, KeyOfRow DEF KeysHeld
  <2>3. CASE peers[i].pub = p
    <3>1. bill'[i] = bill[i] + 1
      BY <1>1, <2>2, <2>3
    <3>2. raw[p] \in Nat /\ dev[p] \in Nat /\ peers[i].life \in Nat
      BY <1>0, RowFacts DEF TypeOK
    <3> QED
      BY <1>1, <2>1, <2>3, <3>1, <3>2 DEF Settled
  <2>4. CASE peers[i].pub # p
    <3>1. PICK j \in Id : peers[j].pub = p
      BY <1>1 DEF ExactInv, KeysListed
    <3>2. owner[p] = j /\ j # i
      BY <1>0, <2>4, <3>1, KeyOfRow DEF KeysHeld
    <3>3. snap[i].pub # p
      BY <1>0, <2>4, KeyOfRow DEF ExactInv, RowsStay
    <3>4. bill'[i] = bill[i]
      BY <1>1, <3>2, <3>3
    <3> QED
      BY <1>1, <2>1, <2>4, <3>4 DEF Settled
  <2> QED
    BY <2>3, <2>4
<1> QED
  BY <1>2, <1>3, <1>4, <1>5 DEF ExactNext, AllSettled

(* Every step preserves it. *)
LEMMA NextExact == NothingLost /\ ExactInv /\ [Next]_vars => ExactInv'
<1> SUFFICES ASSUME NothingLost, ExactInv, [Next]_vars PROVE ExactInv'
  OBVIOUS
<1>0. BillingInv'
  BY NextBilling DEF ExactInv
<1>1. CASE RunStep
  BY <1>1, RunStepExact
<1>2. CASE HandlerStep
  BY <1>2, HandlerStepExact
<1>3. ASSUME NEW p \in Pub, Carry(p) PROVE ExactInv'
  BY <1>0, <1>3, CarryExact DEF ExactInv, ExactNext
<1>4. CASE ExpiryPasses \/ UNCHANGED vars
  <2>1. UNCHANGED <<peers, lastId, kern, raw, prevSample, pc, snap, todo, dev, req, bill>>
    BY <1>4 DEF ExpiryPasses, vars, dbVars, kernVars, runVars, ghosts
  <2>2. ExactNext
    BY <1>0, <2>1, RequestsStay, SettledStays
  <2> QED
    BY <1>0, <2>2 DEF ExactInv, ExactNext
<1>5. CASE LinkRecreated
  BY <1>5 DEF LinkRecreated, NothingLost
<1>6. CASE Restart
  <2>1. /\ UNCHANGED <<peers, lastId, kern, raw, bill>>
        /\ pc' = "idle" /\ snap' = [id \in Id |-> NoRow]
        /\ req' = [h \in Handler |-> NoRequest]
        /\ \A p \in Pub : prevSample'[p] = NoSample
    BY <1>6 DEF Restart, dbVars, kernVars, ghosts
  <2>2. RowsStay' /\ KeysListed' /\ AllSettled' /\ FreshUnbilled'
    BY <2>1, RowFacts DEF ExactInv, RowsStay, KeysListed, AllSettled, Settled, Sampling, FreshUnbilled
  <2> QED
    BY <1>0, <2>2 DEF ExactInv
<1> QED
  BY <1>1, <1>2, <1>3, <1>4, <1>5, <1>6 DEF Next, Environment

(* Nothing is counted at first. *)
LEMMA InitExact == Init => ExactInv
<1> SUFFICES ASSUME Init PROVE ExactInv
  OBVIOUS
<1>1. BillingInv
  BY InitBilling
<1>2. RowsStay /\ KeysListed /\ AllSettled /\ FreshUnbilled
  BY RowFacts DEF Init, RowsStay, KeysListed, AllSettled, FreshUnbilled
<1> QED
  BY <1>1, <1>2 DEF ExactInv

(* Where counters are not reset, writes do not fail and rows keep their     *)
(* keys, every byte is billed once and only once: for any number of keys,   *)
(* rows and requests, through restarts and half-done runs.                  *)
THEOREM EveryByteBilledOnce == NothingLost => (Spec => []BilledExactlyOnce)
<1> SUFFICES ASSUME NothingLost PROVE Spec => []BilledExactlyOnce
  OBVIOUS
<1>1. ExactInv => BilledExactlyOnce
  <2> SUFFICES ASSUME ExactInv, NEW id \in Id, Exists(peers[id]), NEW p, p = peers[id].pub
               PROVE  bill[id] = IF prevSample[p] = NoSample THEN raw[p]
                                 ELSE peers[id].life + (raw[p] - prevSample[p])
    BY DEF BilledExactlyOnce
  <2>1. TypeOK
    BY DEF ExactInv, BillingInv, IInv
  <2>2. p \in Pub /\ Settled(id)
    BY <2>1, KeyOfRow DEF ExactInv, AllSettled, TypeOK
  <2>3. raw[p] \in Nat /\ peers[id].life \in Nat
    BY <2>1, <2>2, RowFacts DEF TypeOK
  <2> QED
    BY <2>2, <2>3 DEF Settled
<1>2. ExactInv /\ [Next]_vars => ExactInv'
  BY NextExact
<1> QED
  BY <1>1, <1>2, InitExact, PTL DEF Spec
=============================================================================
