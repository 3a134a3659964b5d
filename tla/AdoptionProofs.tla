--------------------------- MODULE AdoptionProofs ---------------------------
(***************************************************************************)
(* For any keys, rows, bounds, requests and failures, adopting interfaces  *)
(* while they are sampled: a row is charged no byte twice, but for the     *)
(* counter it was adopted with when its key was already sampled, and is    *)
(* not over a quota by bytes from before its adoption.                     *)
(*                                                                         *)
(* The accounting of an adopted row is that of PeerAccounting for a bill   *)
(* that includes what may count twice, so the proofs about billing are     *)
(* instantiated with that bill.                                            *)
(***************************************************************************)
EXTENDS Adoption, PeerAccountingProofs

(* What a row may be charged.                                               *)
charged == [id \in Id |-> bill[id] + again[id]]

B == INSTANCE PeerAccountingProofs WITH bill <- charged

(* The instance's constants satisfy its assumptions. *)
LEMMA Assumed ==
    /\ NoPub \notin Pub /\ B!IsFiniteSet(Pub)
    /\ MaxId \in Nat /\ MaxBytes \in Nat /\ Limits \subseteq Nat
    /\ Ops \subseteq B!AllOps /\ Faults \subseteq B!AllFaults
BY PubAssumption, PubFinite, BoundAssumption, LimitsAssumption, OpsAssumption
   DEF IsFiniteSet, B!IsFiniteSet, AllOps, B!AllOps, AllFaults, B!AllFaults

(* What does not mention the bill is the same in the instance. *)
LEMMA Same ==
    /\ B!Id = Id /\ B!NoRow = NoRow /\ B!LiveRow = LiveRow /\ B!Row = Row
    /\ B!NoSample = NoSample /\ B!NoRequest = NoRequest /\ B!Request = Request
    /\ \A r : B!Exists(r) = Exists(r)
    /\ \A f : B!Outcomes(f) = Outcomes(f)
    /\ \A rows : B!RowsOf(rows) = RowsOf(rows) /\ B!PubsOf(rows) = PubsOf(rows)
BY DEF B!Id, Id, B!NoRow, NoRow, B!LiveRow, LiveRow, B!Row, Row, B!NoSample, NoSample,
       B!NoRequest, NoRequest, B!Request, Request, B!Exists, Exists, B!Outcomes, Outcomes,
       B!RowsOf, RowsOf, B!PubsOf, PubsOf

LEMMA SamePolicy ==
    /\ \A r : B!ShouldAutoSuspend(r) = ShouldAutoSuspend(r)
    /\ B!Enforced = Enforced
<1>1. \A r : B!ShouldAutoSuspend(r) = ShouldAutoSuspend(r)
  BY DEF B!ShouldAutoSuspend, ShouldAutoSuspend, B!Exists, Exists, B!IsExpired, IsExpired,
         B!TrafficLimitExceeded, TrafficLimitExceeded, B!Effective, Effective
<1> QED
  BY <1>1 DEF B!Enforced, Enforced, B!Id, Id

LEMMA SameWrites ==
    /\ \A id, v : B!SetPeerSuspended(id, v) = SetPeerSuspended(id, v)
    /\ \A id, v : B!UpdatePeerStats(id, v) = UpdatePeerStats(id, v)
    /\ \A id, r : B!UpdatePeer(id, r) = UpdatePeer(id, r)
    /\ \A id, p : B!KeyFree(id, p) = KeyFree(id, p)
    /\ \A life, cur, prev :
          B!AccumulateLifetime(life, cur, prev) = AccumulateLifetime(life, cur, prev)
    /\ \A r : B!Patched(r) = Patched(r)
    /\ \A p : B!Payers(p) = Payers(p)
BY DEF B!SetPeerSuspended, SetPeerSuspended, B!UpdatePeerStats, UpdatePeerStats,
       B!UpdatePeer, UpdatePeer, B!KeyFree, KeyFree, B!AccumulateLifetime, AccumulateLifetime,
       B!Patched, Patched, B!Payers, Payers, B!Id, Id, B!Exists, Exists, B!NoSample, NoSample
-----------------------------------------------------------------------------
(* A step of the reconciler charges nobody. *)
LEMMA RunStepMaps == RunStep /\ again' = again => B!RunStep /\ bill' = bill
<1> SUFFICES ASSUME RunStep, again' = again PROVE B!RunStep /\ bill' = bill
  OBVIOUS
<1>0. bill' = bill
  BY DEF RunStep, RunBegin, Enforce, ApplyPeers, BackendError, ReadDevice, SamplePeer, Prune, ghosts
<1>1. charged' = charged
  BY <1>0 DEF charged
<1> USE Same, SamePolicy, SameWrites
    DEF B!dbVars, dbVars, B!kernVars, kernVars, B!ghosts, ghosts
<1>2. CASE RunBegin
  BY <1>1, <1>2 DEF RunBegin, B!RunBegin, B!RunStep
<1>3. ASSUME NEW id \in Id, Enforce(id) PROVE B!RunStep
  <2>1. B!Enforce(id)
    BY <1>1, <1>3 DEF Enforce, B!Enforce
  <2> QED
    BY <2>1 DEF B!RunStep
<1>4. CASE ApplyPeers
  <2>1. B!ApplyPeers
    BY <1>1, <1>4 DEF ApplyPeers, B!ApplyPeers
  <2> QED
    BY <1>0, <2>1 DEF B!RunStep
<1>5. CASE BackendError
  BY <1>1, <1>5 DEF BackendError, B!BackendError, B!RunStep
<1>6. CASE ReadDevice
  BY <1>1, <1>6 DEF ReadDevice, B!ReadDevice, B!RunStep
<1>7. ASSUME NEW id \in Id, SamplePeer(id) PROVE B!RunStep
  <2>1. B!SamplePeer(id)
    BY <1>1, <1>7 DEF SamplePeer, B!SamplePeer
  <2> QED
    BY <2>1 DEF B!RunStep
<1>8. CASE Prune
  BY <1>1, <1>8 DEF Prune, B!Prune, B!RunStep
<1> QED
  BY <1>0, <1>2, <1>3, <1>4, <1>5, <1>6, <1>7, <1>8 DEF RunStep

(* Nor does what replaces a bill: the ids, keys and counters are numbers.   *)
Numbers == raw \in [Pub -> Nat] /\ bill \in [Id -> Nat] /\ again \in [Id -> Nat]

(* A handler that gives a row a key charges the row what the key counted.   *)
LEMMA TakeKeyMaps ==
    ASSUME Numbers, again' = again, NEW id \in Id, NEW p \in Pub, TakeKey(id, p)
    PROVE  B!TakeKey(id, p)
<1>1. PICK k \in Nat : k = IF owner[p] = id THEN 0 ELSE raw[p]
  BY DEF Numbers
<1>2. bill' = [bill EXCEPT ![id] = bill[id] + k]
  <2>1. bill[id] + k = IF owner[p] = id THEN bill[id] ELSE bill[id] + raw[p]
    BY <1>1 DEF Numbers
  <2> QED
    BY <2>1 DEF TakeKey
<1>3. charged' = [charged EXCEPT ![id] = charged[id] + k]
  <2>1. \A i \in Id : bill'[i] + again'[i] = IF i = id THEN charged[id] + k ELSE charged[i]
    BY <1>2 DEF charged, Numbers
  <2>2. charged' = [i \in Id |-> IF i = id THEN charged[id] + k ELSE charged[i]]
    BY <2>1 DEF charged
  <2>3. [charged EXCEPT ![id] = charged[id] + k]
           = [i \in Id |-> IF i = id THEN charged[id] + k ELSE charged[i]]
    BY DEF charged
  <2> QED
    BY <2>2, <2>3
<1>4. charged[id] + k = IF owner[p] = id THEN charged[id] ELSE charged[id] + raw[p]
  BY <1>1 DEF charged, Numbers
<1> QED
  BY <1>3, <1>4 DEF TakeKey, B!TakeKey

LEMMA HandlerStepMaps ==
    ASSUME Numbers, again' = again, lastId \in Nat, HandlerStep,
           \A h \in Handler : req[h] # NoRequest => req[h].id \in Id /\ req[h].row \in LiveRow
    PROVE  B!HandlerStep
<1> USE Same, SameWrites DEF B!dbVars, dbVars, B!kernVars, kernVars, B!runVars, runVars
<1>1. ASSUME NEW p \in Pub, NEW l \in Limits, NEW e \in BOOLEAN,
             "expire" \in Ops \/ ~e, handleCreatePeer(p, l, e)
      PROVE  B!HandlerStep
  <2>1. lastId + 1 \in Id
    BY <1>1, BoundAssumption DEF handleCreatePeer, Id
  <2>2. B!TakeKey(lastId + 1, p)
    BY <1>1, <2>1, TakeKeyMaps DEF handleCreatePeer
  <2>3. B!handleCreatePeer(p, l, e)
    BY <1>1, <2>2 DEF handleCreatePeer, B!handleCreatePeer
  <2> QED
    BY <1>1, <2>3 DEF B!HandlerStep
<1>2. ghosts' = ghosts => B!ghosts' = B!ghosts
  BY DEF ghosts, B!ghosts, charged
<1>3. ASSUME NEW id \in Id, handleDeletePeer(id) PROVE B!HandlerStep
  <2>1. B!handleDeletePeer(id)
    BY <1>2, <1>3 DEF handleDeletePeer, B!handleDeletePeer
  <2> QED
    BY <2>1 DEF B!HandlerStep
<1>4. ASSUME NEW id \in Id, NEW v \in BOOLEAN, setSuspend(id, v) PROVE B!HandlerStep
  <2>1. B!setSuspend(id, v)
    BY <1>2, <1>4 DEF setSuspend, B!setSuspend
  <2> QED
    BY <2>1 DEF B!HandlerStep
<1>5. ASSUME NEW h \in Handler, NEW op \in {"patch", "reset", "rotate"}, NEW id \in Id,
             GetPeer(h, op, id)
      PROVE  B!HandlerStep
  <2>1. B!GetPeer(h, op, id)
    BY <1>2, <1>5 DEF GetPeer, B!GetPeer
  <2> QED
    BY <2>1 DEF B!HandlerStep
<1>6. ASSUME NEW h \in Handler, RequestFails(h) PROVE B!HandlerStep
  <2>1. B!RequestFails(h)
    BY <1>2, <1>6 DEF RequestFails, B!RequestFails
  <2> QED
    BY <2>1 DEF B!HandlerStep
<1>7. ASSUME NEW h \in Handler, NEW new \in Patched(req[h].row),
             "expire" \in Ops \/ ~new.exp, handleUpdatePeer(h, new)
      PROVE  B!HandlerStep
  <2>1. req[h].id \in Id /\ new.pub \in Pub
    <3>1. req[h].id \in Id /\ req[h].row \in LiveRow
      BY <1>7 DEF handleUpdatePeer, NoRequest
    <3> QED
      BY <1>7, <3>1 DEF Patched, LiveRow
  <2>2. B!TakeKey(req[h].id, new.pub)
    BY <1>7, <2>1, TakeKeyMaps DEF handleUpdatePeer
  <2>3. B!handleUpdatePeer(h, new)
    BY <1>7, <2>2 DEF handleUpdatePeer, B!handleUpdatePeer
  <2> QED
    BY <1>7, <2>3 DEF B!HandlerStep
<1>8. ASSUME NEW h \in Handler, handleResetPeerTraffic(h) PROVE B!HandlerStep
  <2>1. B!handleResetPeerTraffic(h)
    BY <1>2, <1>8 DEF handleResetPeerTraffic, B!handleResetPeerTraffic
  <2> QED
    BY <2>1 DEF B!HandlerStep
<1>9. ASSUME NEW h \in Handler, NEW p \in Pub, handleIssueClientKey(h, p) PROVE B!HandlerStep
  <2>1. req[h].id \in Id
    BY <1>9 DEF handleIssueClientKey, NoRequest
  <2>2. B!TakeKey(req[h].id, p)
    BY <1>9, <2>1, TakeKeyMaps DEF handleIssueClientKey
  <2>3. B!handleIssueClientKey(h, p)
    BY <1>9, <2>2 DEF handleIssueClientKey, B!handleIssueClientKey
  <2> QED
    BY <2>3 DEF B!HandlerStep
<1> QED
  BY <1>1, <1>3, <1>4, <1>5, <1>6, <1>7, <1>8, <1>9 DEF HandlerStep

LEMMA CarryMaps ==
    ASSUME Numbers, again' = again, NEW p \in Pub, Carry(p)
    PROVE  B!Carry(p)
<1>1. charged' = [id \in Id |-> IF id \in Payers(p) THEN charged[id] + 1 ELSE charged[id]]
  BY DEF Carry, charged, Numbers
<1> QED
  BY <1>1, Same, SameWrites DEF Carry, B!Carry, B!dbVars, dbVars, B!runVars, runVars

LEMMA FaultMaps ==
    again' = again =>
        /\ LinkRecreated => B!LinkRecreated
        /\ Restart => B!Restart
<1>1. again' = again /\ ghosts' = ghosts => B!ghosts' = B!ghosts
  BY DEF ghosts, B!ghosts, charged
<1> QED
  BY <1>1, Same DEF LinkRecreated, B!LinkRecreated, Restart, B!Restart,
     B!dbVars, dbVars, B!kernVars, kernVars, B!runVars, runVars
-----------------------------------------------------------------------------
(* The plan's rows are live ones whose lifetime is the counter's when the   *)
(* plan was made: the counter has moved on by no more than what was counted *)
(* since.                                                                   *)
PlanHolds ==
    /\ after \in [Pub -> Nat]
    /\ Keys \subseteq Pub
    /\ \A p \in Keys : /\ plan.rows[p] \in LiveRow /\ plan.rows[p].pub = p
                       /\ raw[p] <= plan.rows[p].life + after[p]
    /\ plan # NoPlan => plan.skip \in BOOLEAN /\ plan.rows = [p \in Keys |-> plan.rows[p]]

(* No row outlives its interface, only a link that is up has peers. *)
InterfaceHolds ==
    /\ managed \/ RowsOf(peers) = {}
    /\ live \/ \A p \in Pub : kern[p] = "absent"

AdoptInv == B!BillingInv /\ Numbers /\ PlanHolds /\ InterfaceHolds

(* The accounting's invariant is the instance's. *)
LEMMA SameInv ==
    /\ Numbers => (B!IInv <=> IInv)
    /\ Numbers' => (B!IInv' <=> IInv')
<1>1. Numbers => charged \in [Id -> Nat]
  BY DEF Numbers, charged
<1>2. Numbers' => charged' \in [Id -> Nat]
  BY DEF Numbers, charged
<1> USE Same DEF Numbers, IInv, B!IInv, TypeOK, B!TypeOK, RunLocals, B!RunLocals, IdsFresh,
                 B!IdsFresh, SnapshotCurrent, B!SnapshotCurrent
<1>3. Numbers => (B!IInv <=> IInv)
  BY <1>1
<1>4. Numbers' => (B!IInv' <=> IInv')
  BY <1>2
<1> QED
  BY <1>3, <1>4

LEMMA InvFacts ==
    ASSUME AdoptInv
    PROVE  /\ IInv /\ TypeOK
           /\ \A h \in Handler : req[h] # NoRequest => req[h].id \in Id /\ req[h].row \in LiveRow
           /\ lastId \in Nat
<1>1. IInv
  BY SameInv DEF AdoptInv, B!BillingInv
<1> QED
  BY <1>1, RequestFacts, BoundAssumption DEF IInv, TypeOK

(* A plan that stays holds while counters only go down to zero; without a   *)
(* plan there is nothing to hold.                                           *)
LEMMA PlanStays ==
    ASSUME PlanHolds, Numbers, Numbers', after' = after, plan' = plan,
           \A p \in Pub : raw'[p] = raw[p] \/ raw'[p] = 0
    PROVE  PlanHolds'
<1>1. \A p \in Keys : raw'[p] <= plan.rows[p].life + after[p]
  BY DEF PlanHolds, Numbers, LiveRow
<1> QED
  BY <1>1 DEF PlanHolds, Keys

LEMMA NoPlanHolds ==
    ASSUME after' \in [Pub -> Nat], plan' = NoPlan
    PROVE  PlanHolds'
BY DEF PlanHolds, Keys, NoPlan
-----------------------------------------------------------------------------
(* Rows come only from creates, the kernel's peers only from ApplyPeers,    *)
(* and only a byte carried raises a counter.                                *)
LEMMA RunStepKeeps ==
    ASSUME IInv, RunStep
    PROVE  /\ \A p \in Pub : raw'[p] = raw[p] \/ raw'[p] = 0
           /\ RowsOf(peers') = RowsOf(peers)
           /\ pc' = "device" \/ kern' = kern
<1>0. TypeOK
  BY DEF IInv
<1>1. CASE UNCHANGED <<peers, kernVars>>
  BY <1>1 DEF kernVars
<1>2. ASSUME NEW id \in Id, Enforce(id) PROVE RowsOf(peers') = RowsOf(peers) /\ kernVars' = kernVars
  <2>1. peers' = peers \/ peers' = SetPeerSuspended(id, TRUE)
    BY <1>2 DEF Enforce
  <2>2. RowsOf(SetPeerSuspended(id, TRUE)) = RowsOf(peers)
    BY <1>0 DEF SetPeerSuspended, RowsOf, Exists, TypeOK, Row, LiveRow, NoRow
  <2> QED
    BY <1>2, <2>1, <2>2 DEF Enforce
<1>3. CASE ApplyPeers
  BY <1>0, <1>3 DEF ApplyPeers, dbVars, TypeOK
<1>4. ASSUME NEW id \in Id, SamplePeer(id) PROVE RowsOf(peers') = RowsOf(peers) /\ kernVars' = kernVars
  <2>1. PICK life : peers' = peers \/ peers' = UpdatePeerStats(id, life)
    BY <1>4 DEF SamplePeer
  <2>2. RowsOf(UpdatePeerStats(id, life)) = RowsOf(peers)
    BY <1>0 DEF UpdatePeerStats, RowsOf, Exists, TypeOK, Row, LiveRow, NoRow
  <2> QED
    BY <1>4, <2>1, <2>2 DEF SamplePeer
<1> QED
  BY <1>1, <1>2, <1>3, <1>4
     DEF RunStep, RunBegin, BackendError, ReadDevice, Prune, dbVars, kernVars

(* A handler leaves the kernel alone; it inserts a row with a new id, or    *)
(* writes or deletes one that is there.                                     *)
LEMMA HandlerStepKeeps ==
    ASSUME IInv, HandlerStep
    PROVE  /\ kernVars' = kernVars /\ pc' = pc
           /\ lastId' = lastId => RowsOf(peers') \subseteq RowsOf(peers)
<1>0. TypeOK
  BY DEF IInv
<1>1. ASSUME NEW p \in Pub, NEW l \in Limits, NEW e \in BOOLEAN, handleCreatePeer(p, l, e)
      PROVE  kernVars' = kernVars /\ pc' = pc /\ lastId' # lastId
  BY <1>0, <1>1, BoundAssumption DEF handleCreatePeer, TypeOK, runVars
<1>2. ASSUME NEW id \in Id, Exists(peers[id]), \A i \in Id \ {id} : peers'[i] = peers[i]
      PROVE  RowsOf(peers') \subseteq RowsOf(peers)
  BY <1>2 DEF RowsOf
<1>3. ASSUME NEW id \in Id, NEW v \in BOOLEAN, handleDeletePeer(id) \/ setSuspend(id, v)
      PROVE  kernVars' = kernVars /\ pc' = pc /\ RowsOf(peers') \subseteq RowsOf(peers)
  <2>1. \A i \in Id \ {id} : peers'[i] = peers[i]
    BY <1>0, <1>3 DEF handleDeletePeer, setSuspend, SetPeerSuspended, TypeOK
  <2> QED
    BY <1>2, <1>3, <2>1 DEF handleDeletePeer, setSuspend, runVars
<1>4. ASSUME NEW h \in Handler,
             \/ \E op \in {"patch", "reset", "rotate"}, id \in Id : GetPeer(h, op, id)
             \/ RequestFails(h)
      PROVE  kernVars' = kernVars /\ pc' = pc /\ RowsOf(peers') \subseteq RowsOf(peers)
  BY <1>4 DEF GetPeer, RequestFails, dbVars, runVars
<1>5. ASSUME NEW h \in Handler,
             \/ \E new \in Patched(req[h].row) : handleUpdatePeer(h, new)
             \/ handleResetPeerTraffic(h)
             \/ \E p \in Pub : handleIssueClientKey(h, p)
      PROVE  kernVars' = kernVars /\ pc' = pc /\ RowsOf(peers') \subseteq RowsOf(peers)
  <2>1. req[h] # NoRequest
    BY <1>5, NoRequestIsNone DEF handleUpdatePeer, handleResetPeerTraffic, handleIssueClientKey
  <2>2. req[h].id \in Id
    BY <1>0, <2>1, RequestFacts
  <2>3. Exists(peers[req[h].id]) /\ kernVars' = kernVars /\ pc' = pc
    BY <1>5 DEF handleUpdatePeer, handleResetPeerTraffic, handleIssueClientKey, runVars
  <2>4. \A i \in Id \ {req[h].id} : peers'[i] = peers[i]
    BY <1>0, <1>5, <2>2
       DEF handleUpdatePeer, handleResetPeerTraffic, handleIssueClientKey, UpdatePeer, TypeOK
  <2> QED
    BY <1>2, <2>2, <2>3, <2>4
<1> QED
  BY <1>1, <1>3, <1>4, <1>5 DEF HandlerStep

(* The accounting's own steps. *)
LEMMA AccountingHolds == AdoptInv /\ AccountingStep => AdoptInv'
<1> SUFFICES ASSUME AdoptInv, AccountingStep PROVE AdoptInv'
  OBVIOUS
<1>0. IInv /\ TypeOK /\ Numbers /\ PlanHolds /\ InterfaceHolds /\ B!BillingInv
  BY InvFacts DEF AdoptInv
<1>1. IInv' /\ again' = again => Numbers'
  BY <1>0 DEF IInv, TypeOK, Numbers
<1>2. CASE RunStep /\ (pc = "idle" => managed) /\ live' = (live \/ pc' = "device")
           /\ UNCHANGED <<managed, plan, after, base, again>>
  <2>1. IInv' /\ Numbers'
    BY <1>0, <1>1, <1>2, RunStepIInv
  <2>2. B!BillingInv'
    BY <1>0, <1>2, RunStepMaps, Assumed, B!RunStepBilling
  <2>3. PlanHolds'
    BY <1>0, <1>2, <2>1, RunStepKeeps, PlanStays
  <2>4. InterfaceHolds'
    BY <1>0, <1>2, RunStepKeeps DEF InterfaceHolds
  <2> QED
    BY <2>1, <2>2, <2>3, <2>4 DEF AdoptInv
<1>3. CASE HandlerStep /\ (lastId' # lastId => managed) /\ UNCHANGED adoptVars
  <2>1. IInv' /\ Numbers'
    BY <1>0, <1>1, <1>3, HandlerStepIInv DEF adoptVars
  <2>2. B!BillingInv'
    BY <1>0, <1>3, InvFacts, HandlerStepMaps, Assumed, B!HandlerStepBilling DEF adoptVars
  <2>3. PlanHolds'
    BY <1>0, <1>3, <2>1, HandlerStepKeeps, PlanStays DEF adoptVars, kernVars
  <2>4. InterfaceHolds'
    BY <1>0, <1>3, HandlerStepKeeps DEF InterfaceHolds, adoptVars, kernVars
  <2> QED
    BY <2>1, <2>2, <2>3, <2>4 DEF AdoptInv
<1>4. ASSUME NEW p \in Pub, Carry(p),
             after' = IF plan = NoPlan THEN after ELSE [after EXCEPT ![p] = @ + 1],
             UNCHANGED <<managed, live, hook, plan, base, again>>
      PROVE  AdoptInv'
  <2>1. IInv' /\ Numbers'
    BY <1>0, <1>1, <1>4, EnvironmentIInv DEF Environment
  <2>2. B!BillingInv'
    <3>1. B!Environment
      BY <1>0, <1>4, CarryMaps DEF B!Environment
    <3> QED
      BY <1>0, <3>1, Assumed, B!EnvironmentBilling
  <2>3. PlanHolds'
    <3>1. CASE plan = NoPlan
      BY <1>0, <1>4, <3>1, NoPlanHolds DEF PlanHolds
    <3>2. CASE plan # NoPlan
      <4>1. after' \in [Pub -> Nat]
        BY <1>0, <1>4 DEF PlanHolds
      <4>2. \A q \in Keys : raw'[q] <= plan.rows[q].life + after'[q]
        BY <1>0, <1>4, <3>2 DEF PlanHolds, Carry, Numbers, LiveRow
      <4> QED
        BY <1>0, <1>4, <4>1, <4>2 DEF PlanHolds, Keys
    <3> QED
      BY <3>1, <3>2
  <2>4. InterfaceHolds'
    BY <1>0, <1>4 DEF InterfaceHolds, Carry, dbVars
  <2> QED
    BY <2>1, <2>2, <2>3, <2>4 DEF AdoptInv
<1>5. CASE LinkRecreated /\ UNCHANGED adoptVars
  <2>1. IInv' /\ Numbers'
    BY <1>0, <1>1, <1>5, EnvironmentIInv DEF Environment, adoptVars
  <2>2. B!BillingInv'
    BY <1>0, <1>5, FaultMaps, Assumed, B!EnvironmentBilling DEF adoptVars, B!Environment
  <2>3. PlanHolds'
    BY <1>0, <1>5, <2>1, PlanStays DEF adoptVars, LinkRecreated
  <2>4. InterfaceHolds'
    BY <1>0, <1>5 DEF InterfaceHolds, LinkRecreated, adoptVars, dbVars
  <2> QED
    BY <2>1, <2>2, <2>3, <2>4 DEF AdoptInv
<1>6. CASE Restart /\ hook' = FALSE /\ plan' = NoPlan
           /\ UNCHANGED <<managed, live, after, base, again>>
  <2>1. IInv' /\ Numbers'
    BY <1>0, <1>1, <1>6, EnvironmentIInv DEF Environment
  <2>2. B!BillingInv'
    BY <1>0, <1>6, FaultMaps, Assumed, B!EnvironmentBilling DEF B!Environment
  <2>3. PlanHolds'
    BY <1>0, <1>6, NoPlanHolds DEF PlanHolds
  <2>4. InterfaceHolds'
    BY <1>0, <1>6 DEF InterfaceHolds, Restart, dbVars, kernVars
  <2> QED
    BY <2>1, <2>2, <2>3, <2>4 DEF AdoptInv
<1> QED
  BY <1>2, <1>3, <1>4, <1>5, <1>6 DEF AccountingStep
-----------------------------------------------------------------------------
(* Plan, Skip, ImportFails and CreateInterface leave the accounting alone. *)
LEMMA AccountingUntouched ==
    ASSUME AdoptInv, vars' = vars, again' = again
    PROVE  /\ IInv' /\ Numbers' /\ B!BillingInv'
           /\ RowsOf(peers') = RowsOf(peers) /\ kern' = kern /\ raw' = raw
<1>1. Numbers'
  BY DEF AdoptInv, Numbers, vars, kernVars, ghosts
<1>2. B!BillingInv'
  <2>1. UNCHANGED B!vars
    BY DEF vars, B!vars, dbVars, B!dbVars, kernVars, B!kernVars, runVars, B!runVars,
           ghosts, B!ghosts, charged
  <2>2. B!BillingInv /\ [B!Next]_(B!vars) => B!BillingInv'
    BY Assumed, B!NextBilling
  <2> QED
    BY <2>1, <2>2 DEF AdoptInv
<1>3. IInv'
  BY <1>1, <1>2, SameInv DEF B!BillingInv
<1> QED
  BY <1>1, <1>2, <1>3 DEF vars, dbVars, kernVars, RowsOf

LEMMA PlanStepHolds ==
    ASSUME AdoptInv,
           \/ \E overwrite \in Overwrites, conf \in [Pub -> Stanza] : Plan(overwrite, conf)
           \/ Skip \/ ImportFails \/ CreateInterface
    PROVE  AdoptInv'
<1>0. IInv /\ TypeOK /\ Numbers /\ PlanHolds /\ InterfaceHolds
  BY InvFacts DEF AdoptInv
<1>1. vars' = vars /\ again' = again
  BY DEF Plan, Skip, ImportFails, CreateInterface
<1>2. IInv' /\ Numbers' /\ B!BillingInv' /\ InterfaceHolds'
  BY <1>0, <1>1, AccountingUntouched DEF InterfaceHolds, Plan, Skip, ImportFails, CreateInterface
<1>3. ASSUME NEW overwrite \in Overwrites, NEW conf \in [Pub -> Stanza], Plan(overwrite, conf)
      PROVE  PlanHolds'
  <2> DEFINE rows == [p \in Planned(conf) |-> PlannedRow(p, conf[p])]
  <2>1. ASSUME NEW p \in Pub
        PROVE  /\ PlannedRow(p, conf[p]) \in LiveRow
               /\ PlannedRow(p, conf[p]).pub = p /\ PlannedRow(p, conf[p]).life = raw[p]
    <3>1. PICK s \in Stanza : s = conf[p]
      OBVIOUS
    <3>2. s.limit \in Nat /\ s.exp \in BOOLEAN
      <4>1. CASE s = NoStanza
        BY <4>1 DEF NoStanza
      <4>2. CASE s \in [listed: {TRUE}, limit: Limits,
                        exp: IF "expire" \in Ops THEN BOOLEAN ELSE {FALSE}]
        BY <4>2, LimitsAssumption
      <4> QED
        BY <4>1, <4>2 DEF Stanza
    <3>3. raw[p] \in Nat
      BY <1>0 DEF Numbers
    <3> QED
      BY <3>1, <3>2, <3>3 DEF PlannedRow, LiveRow, NoRow
  <2>2. plan' = [made |-> TRUE, skip |-> managed /\ ~overwrite, rows |-> rows] /\ after' = [p \in Pub |-> 0]
    BY <1>3 DEF Plan
  <2>3. Planned(conf) \subseteq Pub /\ Keys' = Planned(conf)
    BY <2>2 DEF Planned, Keys
  <2>4. raw' = raw /\ raw \in [Pub -> Nat]
    BY <1>0, <1>1 DEF vars, kernVars, Numbers
  <2>5. \A p \in Keys' : /\ plan'.rows[p] = PlannedRow(p, conf[p])
                         /\ raw'[p] <= raw[p] + after'[p]
    BY <2>2, <2>3, <2>4
  <2>6. plan'.skip \in BOOLEAN
    BY <2>2
  <2>7. plan'.rows = [p \in Keys' |-> plan'.rows[p]]
    BY <2>2, <2>3
  <2> QED
    BY <2>1, <2>2, <2>3, <2>5, <2>6, <2>7 DEF PlanHolds
<1>4. ASSUME Skip \/ ImportFails PROVE PlanHolds'
  <2>1. after' = after /\ plan' = NoPlan
    BY <1>4 DEF Skip, ImportFails
  <2>2. after' \in [Pub -> Nat]
    BY <1>0, <2>1 DEF PlanHolds
  <2> QED
    BY <2>1, <2>2, NoPlanHolds
<1>5. ASSUME CreateInterface PROVE PlanHolds'
  <2>1. raw' = raw /\ after' = after /\ plan' = plan
    BY <1>1, <1>5 DEF CreateInterface, vars, kernVars
  <2>2. \A p \in Pub : raw'[p] = raw[p] \/ raw'[p] = 0
    BY <2>1
  <2> QED
    BY <1>0, <1>2, <2>1, <2>2, PlanStays
<1>6. PlanHolds'
  BY <1>3, <1>4, <1>5
<1> QED
  BY <1>2, <1>6 DEF AdoptInv

(* The host and the interface's removal: rows only go, all at once, and     *)
(* counters only go down to zero.                                           *)
LEMMA HostStepHolds ==
    ASSUME AdoptInv,
           DeleteInterface \/ (\E p \in Pub : HostAddsPeer(p)) \/ RunWithoutInterface
    PROVE  AdoptInv'
<1>0. IInv /\ TypeOK /\ Numbers /\ PlanHolds /\ InterfaceHolds /\ B!BillingInv
  BY InvFacts DEF AdoptInv
<1>1. UNCHANGED <<lastId, late, prevSample, snap, dev, carried, owner, bill, again, todo, req,
                  plan, after>>
  BY DEF DeleteInterface, HostAddsPeer, RunWithoutInterface, RemoveInterface, dbVars, runVars, ghosts
<1>2. /\ raw' \in [Pub -> Nat] /\ kern' \in [Pub -> {"absent", "closed", "open"}]
      /\ \A p \in Pub : raw'[p] = raw[p] \/ raw'[p] = 0
      /\ live' \/ \A p \in Pub : kern'[p] = "absent"
  <2>1. CASE RemoveInterface
    BY <1>0, <2>1 DEF RemoveInterface, TypeOK, InterfaceHolds
  <2>2. CASE UNCHANGED <<live, kern, raw>>
    BY <1>0, <2>2 DEF TypeOK, InterfaceHolds
  <2>3. ASSUME NEW p \in Pub, HostAddsPeer(p)
        PROVE  raw' = raw /\ live' /\ kern' \in [Pub -> {"absent", "closed", "open"}]
    BY <1>0, <2>3 DEF HostAddsPeer, TypeOK
  <2> QED
    BY <1>0, <2>1, <2>2, <2>3 DEF DeleteInterface, RunWithoutInterface, TypeOK
<1>3. /\ peers' = peers \/ peers' = [id \in Id |-> NoRow]
      /\ managed' \/ RowsOf(peers') = {}
      /\ pc' = pc \/ (pc = "idle" /\ pc' = "prune")
  BY <1>0, RowFacts
     DEF DeleteInterface, HostAddsPeer, RunWithoutInterface, InterfaceHolds, dbVars, runVars, RowsOf
<1>4. Numbers'
  BY <1>0, <1>1, <1>2 DEF Numbers
<1>5. IInv'
  <2>1. peers' \in [Id -> Row] /\ \A id \in Id : Exists(peers'[id]) => peers' = peers
    BY <1>0, <1>3, RowFacts DEF TypeOK
  <2>2. TypeOK'
    BY <1>0, <1>1, <1>2, <1>3, <2>1 DEF TypeOK
  <2> QED
    BY <1>0, <1>1, <1>3, <2>1, <2>2 DEF IInv, TypeOK, RunLocals, IdsFresh, SnapshotCurrent, RowsOf
<1>6. B!BillingInv'
  <2>1. B!IInv'
    BY <1>4, <1>5, SameInv
  <2>2. charged' = charged
    BY <1>1 DEF charged
  <2>3. \A i \in Id : Exists(peers'[i]) => /\ Exists(peers[i]) /\ peers'[i].pub = peers[i].pub
                                           /\ peers'[i].life = peers[i].life
    BY <1>3, RowFacts
  <2>4. B!BillingNext
    BY <1>0, <1>1, <1>2, <1>3, <2>1, <2>2, <2>3, Same, Assumed, B!NothingCharged
  <2> QED
    BY <2>1, <2>4 DEF B!BillingInv, B!BillingNext
<1>7. PlanHolds'
  BY <1>0, <1>1, <1>2, <1>4, PlanStays
<1> QED
  BY <1>2, <1>3, <1>4, <1>6, <1>7 DEF AdoptInv, InterfaceHolds
-----------------------------------------------------------------------------
(* A key charged alone. *)
LEMMA OneKey ==
    ASSUME NEW f \in B!Charges, NEW q \in Pub, NEW k \in Nat,
           \A p \in Pub \ {q} : f[p] = 0, f[q] <= k
    PROVE  B!Total(f) <= k
<1> DEFINE none == [p \in Pub |-> 0]
<1>1. none \in B!Charges
  BY BoundAssumption DEF B!Charges, B!Cap
<1>2. B!Total(none) = 0
  <2>1. \A p \in Pub : none[p] = 0
    OBVIOUS
  <2> QED
    BY <2>1, Assumed, B!TotalZero
<1>3. \A p \in Pub \ {q} : f[p] <= none[p]
  OBVIOUS
<1>4. f[q] <= none[q] + k
  OBVIOUS
<1>5. B!Total(f) <= B!Total(none) + k
  BY <1>1, <1>3, <1>4, Assumed, B!TotalRise
<1> QED
  BY <1>2, <1>5

(* The ids of an import's rows, one for each key it plans. *)
LEMMA Import ==
    ASSUME AdoptInv, NewIds \subseteq Id, NEW key \in [NewIds -> Keys], ImportInterface(key)
    PROVE  /\ Cardinality(Keys) \in Nat /\ lastId + Cardinality(Keys) <= MaxId
           /\ \A p \in Keys : \E id \in NewIds : key[id] = p
           /\ \A i, j \in NewIds : key[i] = key[j] => i = j
<1> PICK n : n = Cardinality(Keys)
  OBVIOUS
<1>1. IsFiniteSet(Keys) /\ n \in Nat
  <2>1. Keys \in SUBSET Pub
    BY DEF AdoptInv, PlanHolds
  <2> QED
    BY <2>1, PubFinite, FS_Subset, FS_CardinalityType
<1>2. lastId \in Nat /\ lastId <= MaxId
  BY BoundAssumption, InvFacts DEF TypeOK
<1>3. IsFiniteSet(NewIds) /\ Cardinality(NewIds) = n
  <2>1. lastId + 1 \in Int /\ lastId + n \in Int
    BY <1>1, <1>2
  <2>2. /\ IsFiniteSet(lastId + 1 .. lastId + n)
        /\ Cardinality(lastId + 1 .. lastId + n)
             = IF lastId + 1 > lastId + n THEN 0 ELSE (lastId + n) - (lastId + 1) + 1
    BY <2>1, FS_Interval
  <2> QED
    BY <1>1, <1>2, <2>2 DEF NewIds
<1>4. lastId + n <= MaxId
  <2>1. CASE n = 0
    BY <1>2, <2>1
  <2>2. CASE n > 0
    <3>1. lastId + n \in NewIds
      BY <1>1, <1>2, <2>2 DEF NewIds
    <3>2. lastId + n \in Id
      BY <3>1
    <3> QED
      BY <3>2, BoundAssumption DEF Id
  <2> QED
    BY <1>1, <2>1, <2>2
<1>5. \A i, j \in NewIds : key[i] = key[j] => i = j
  BY DEF ImportInterface
<1>6. key \in Injection(NewIds, Keys)
  BY <1>5 DEF Injection, IsInjective
<1>7. key \in Surjection(NewIds, Keys)
  BY <1>1, <1>3, <1>6, FS_Injection
<1> QED
  BY <1>1, <1>4, <1>5, <1>7 DEF Surjection

(* An imported row is charged its key's counter, once more when the key is  *)
(* already sampled: that covers what samples may still add for its key.     *)
LEMMA ImportHolds ==
    ASSUME AdoptInv, NewIds \subseteq Id, NEW key \in [NewIds -> Keys], ImportInterface(key)
    PROVE  AdoptInv'
<1>0. /\ IInv /\ TypeOK /\ Numbers /\ PlanHolds /\ InterfaceHolds
      /\ B!CountersBounded /\ B!KeysHeld
  BY InvFacts DEF AdoptInv, B!BillingInv
<1> DEFINE row(id) == plan.rows[key[id]]
<1>1. ASSUME NEW id \in NewIds
      PROVE  /\ id \in Id /\ key[id] \in Keys /\ key[id] \in Pub
             /\ row(id) \in LiveRow /\ row(id).pub = key[id] /\ row(id).life \in Nat
             /\ raw[key[id]] <= row(id).life + after[key[id]] /\ after[key[id]] \in Nat
  BY <1>0 DEF PlanHolds, LiveRow
<1>2. /\ lastId \in Nat /\ lastId' \in 0..MaxId /\ lastId' >= lastId
      /\ \A id \in NewIds : id > lastId /\ id <= lastId'
  <2>1. lastId' = lastId + Cardinality(Keys)
    BY DEF ImportInterface
  <2>2. lastId \in Nat
    BY InvFacts
  <2> QED
    BY <2>1, <2>2, Import, BoundAssumption DEF NewIds
<1>3. /\ UNCHANGED <<late, kern, raw, prevSample, pc, snap, todo, dev, req, carried, live, after>>
      /\ managed' /\ plan' = NoPlan
      /\ DOMAIN key = NewIds
      /\ \A id \in Id : peers'[id] = IF id \in NewIds THEN row(id) ELSE NoRow
      /\ \A id \in Id : bill'[id] = IF id \in NewIds THEN row(id).life + after[key[id]] ELSE bill[id]
      /\ \A id \in Id : again'[id] = IF id \in NewIds /\ Sampled(key[id]) THEN row(id).life ELSE 0
  BY DEF ImportInterface, kernVars, runVars
<1>4. Numbers'
  <2>1. raw' \in [Pub -> Nat]
    BY <1>0, <1>3 DEF Numbers
  <2>2. bill' \in [Id -> Nat]
    <3>1. \A id \in Id : bill'[id] \in Nat
      BY <1>0, <1>1, <1>3 DEF Numbers
    <3>2. bill' = [id \in Id |-> bill'[id]]
      BY DEF ImportInterface
    <3> QED
      BY <3>1, <3>2
  <2>3. again' \in [Id -> Nat]
    <3>1. \A id \in Id : again'[id] \in Nat
      BY <1>1, <1>3
    <3>2. again' = [id \in Id |-> again'[id]]
      BY DEF ImportInterface
    <3> QED
      BY <3>1, <3>2
  <2> QED
    BY <2>1, <2>2, <2>3 DEF Numbers
<1>5. /\ owner' \in [Pub -> Id \cup {0}]
      /\ \A p \in Pub : owner'[p] <= lastId'
      /\ \A id \in NewIds, p \in Pub : owner'[p] = id <=> p = key[id]
  <2>1. \A p \in Pub : owner'[p] = IF p \in Keys THEN CHOOSE id \in NewIds : key[id] = p ELSE owner[p]
    BY <1>3 DEF ImportInterface
  <2>2. ASSUME NEW p \in Keys PROVE owner'[p] \in NewIds /\ key[owner'[p]] = p
    <3>1. \E id \in NewIds : key[id] = p
      BY Import
    <3>2. owner'[p] = CHOOSE id \in NewIds : key[id] = p
      BY <1>0, <2>1 DEF PlanHolds
    <3> QED
      BY <3>1, <3>2
  <2>3. ASSUME NEW p \in Pub, p \notin Keys
        PROVE  owner'[p] \in Id \cup {0} /\ owner'[p] <= lastId /\ owner'[p] \in Int
    <3>1. owner'[p] = owner[p] /\ owner[p] \in Id \cup {0}
      BY <1>0, <2>1, <2>3 DEF TypeOK
    <3> QED
      BY <1>0, <2>3, <3>1, BoundAssumption DEF B!KeysHeld, Id
  <2>4. \A i, j \in NewIds : key[i] = key[j] => i = j
    BY Import
  <2>5. \A id \in NewIds : id \in Int /\ lastId' \in Int
    BY <1>1, <1>2, BoundAssumption DEF Id
  <2>6. owner' = [p \in Pub |-> owner'[p]]
    BY DEF ImportInterface
  <2>7. \A p \in Pub : owner'[p] \in Id \cup {0}
    BY <1>1, <2>2, <2>3
  <2>8. \A p \in Pub : owner'[p] <= lastId'
    BY <1>2, <2>2, <2>3, <2>5
  <2>9. \A id \in NewIds, p \in Pub : owner'[p] = id <=> p = key[id]
    BY <1>1, <1>2, <2>2, <2>3, <2>4, <2>5
  <2> QED
    BY <2>6, <2>7, <2>8, <2>9
<1>6. IInv'
  <2>1. peers' \in [Id -> Row]
    <3>1. \A id \in Id : peers'[id] \in Row
      BY <1>1, <1>3, RowFacts
    <3>2. peers' = [id \in Id |-> peers'[id]]
      BY DEF ImportInterface
    <3> QED
      BY <3>1, <3>2
  <2>2. TypeOK'
    BY <1>0, <1>2, <1>3, <1>4, <1>5, <2>1 DEF TypeOK, Numbers
  <2>3. RunLocals'
    BY <1>0, <1>3 DEF IInv, RunLocals, RowsOf
  <2>4. ASSUME NEW id \in Id, id > lastId PROVE ~Exists(snap[id])
    BY <1>0, <2>4 DEF IInv, IdsFresh
  <2>5. IdsFresh'
    <3> SUFFICES ASSUME NEW id \in Id, id > lastId' PROVE ~Exists(peers'[id]) /\ ~Exists(snap'[id])
      BY DEF IdsFresh
    <3>1. id \in Int /\ lastId' \in Int /\ id > lastId
      BY <1>2, BoundAssumption DEF Id
    <3>2. id \notin NewIds
      BY <1>2, <3>1
    <3> QED
      BY <1>3, <2>4, <3>1, <3>2, RowFacts
  <2>6. SnapshotCurrent'
    <3>1. \A id \in Id : Exists(peers'[id]) => ~Exists(snap'[id])
      BY <1>1, <1>2, <1>3, <2>4, RowFacts
    <3> QED
      BY <3>1 DEF SnapshotCurrent
  <2> QED
    BY <2>2, <2>3, <2>5, <2>6 DEF IInv
<1>7. B!CountersBounded' /\ B!KeysHeld'
  <2>1. B!CountersBounded'
    BY <1>0, <1>3 DEF B!CountersBounded
  <2>2. \A id \in Id : Exists(peers'[id]) => owner'[peers'[id].pub] = id
    BY <1>1, <1>3, <1>5, RowFacts
  <2> QED
    BY <1>0, <1>3, <1>5, <2>1, <2>2, Same DEF B!KeysHeld
<1>8. B!IInv' /\ B!TypeOK'
  BY <1>4, <1>6, SameInv DEF B!IInv
<1>9. ASSUME NEW id \in Id, Exists(peers'[id]) PROVE B!Covered(id)'
  <2>1. id \in NewIds
    BY <1>3, <1>9, RowFacts
  <2> PICK p, r, c : p = key[id] /\ r = row(id) /\ c = raw[p]
    OBVIOUS
  <2>2. /\ p \in Pub /\ r.life \in Nat /\ after[p] \in Nat /\ c \in Nat /\ c <= r.life + after[p]
        /\ raw'[p] = c /\ peers'[id].life = r.life
    BY <1>0, <1>1, <1>3, <2>1 DEF Numbers
  <2>3. snap[id] = NoRow
    <3>1. ~Exists(snap[id]) /\ snap[id] \in Row
      BY <1>0, <1>2, <2>1 DEF IInv, IdsFresh, TypeOK
    <3> QED
      BY <3>1, RowFacts DEF Row
  <2>4. \A q \in Pub : snap'[id].pub # q
    BY <1>3, <2>3, PubAssumption DEF NoRow
  <2>5. B!CountedOf(id)' \in B!Charges /\ B!DueOf(id)' \in B!Charges
    BY <1>7, <1>8, Same, Assumed, B!ChargeTypesNext
  <2>6. \A q \in Pub \ {p} : B!Counted(id, q)' = 0 /\ B!Due(id, q)' = 0
    BY <1>5, <2>1, <2>4 DEF B!Counted, B!Due
  <2>7. B!Counted(id, p)' = c
    BY <1>5, <2>1, <2>2, <2>4 DEF B!Counted
  <2>8. B!Due(id, p)' <= c
    <3>1. prevSample'[p] \in Nat \cup {B!NoSample}
      BY <1>8, <2>2 DEF B!TypeOK
    <3>2. B!Unsampled(prevSample'[p], c) <= c
      BY <2>2, <3>1, Assumed, B!UnsampledFacts
    <3> QED
      BY <1>5, <2>1, <2>2, <2>4, <3>2 DEF B!Due
  <2>9. ~Sampled(p) => B!Due(id, p)' = 0
    <3>1. ASSUME ~Sampled(p) PROVE ~B!Listed(p)' /\ prevSample'[p] = NoSample
      BY <1>3, <2>2, <3>1, Same, PubAssumption DEF Sampled, PubsOf, B!Listed
    <3>2. ASSUME ~Sampled(p) PROVE B!Due(id, p)' = B!Unsampled(NoSample, c)
      BY <1>5, <2>1, <2>2, <2>4, <3>1, <3>2 DEF B!Due
    <3>3. B!Unsampled(NoSample, c) = 0
      BY Same DEF B!Unsampled
    <3> QED
      BY <3>2, <3>3
  <2>10. charged'[id] = r.life + after[p] + (IF Sampled(p) THEN r.life ELSE 0)
    BY <1>3, <2>1 DEF charged
  <2>11. B!Total(B!CountedOf(id)') <= c
    <3>1. \A q \in Pub \ {p} : B!CountedOf(id)'[q] = 0
      BY <2>6 DEF B!CountedOf
    <3>2. B!CountedOf(id)'[p] <= c
      BY <2>2, <2>7 DEF B!CountedOf
    <3> QED
      BY <2>2, <2>5, <3>1, <3>2, OneKey
  <2> PICK k : k = IF Sampled(p) THEN c ELSE 0
    OBVIOUS
  <2>12. B!Total(B!DueOf(id)') <= k /\ k \in Nat
    <3>1. \A q \in Pub \ {p} : B!DueOf(id)'[q] = 0
      BY <2>6 DEF B!DueOf
    <3>2. B!DueOf(id)'[p] <= k /\ k \in Nat
      BY <2>2, <2>8, <2>9 DEF B!DueOf
    <3> QED
      BY <2>2, <2>5, <3>1, <3>2, OneKey
  <2>13. B!Total(B!CountedOf(id)') \in Nat /\ B!Total(B!DueOf(id)') \in Nat
    BY Assumed, B!TotalType
  <2> QED
    BY <2>2, <2>10, <2>11, <2>12, <2>13 DEF B!Covered, B!Total, B!Cells
<1>10. B!BillingInv'
  BY <1>7, <1>8, <1>9, Same DEF B!BillingInv, B!BillsCover
<1>11. PlanHolds' /\ InterfaceHolds'
  BY <1>0, <1>3, NoPlanHolds DEF PlanHolds, InterfaceHolds
<1> QED
  BY <1>4, <1>10, <1>11 DEF AdoptInv
-----------------------------------------------------------------------------
(* Every step preserves the invariant. *)
LEMMA AdoptNextHolds == AdoptInv /\ [AdoptNext]_allVars => AdoptInv'
<1> SUFFICES ASSUME AdoptInv, [AdoptNext]_allVars PROVE AdoptInv'
  OBVIOUS
<1>1. CASE AccountingStep
  BY <1>1, AccountingHolds
<1>2. CASE \/ \E overwrite \in Overwrites, conf \in [Pub -> Stanza] : Plan(overwrite, conf)
           \/ Skip \/ ImportFails \/ CreateInterface
  BY <1>2, PlanStepHolds
<1>3. CASE DeleteInterface \/ (\E p \in Pub : HostAddsPeer(p)) \/ RunWithoutInterface
  BY <1>3, HostStepHolds
<1>4. CASE NewIds \subseteq Id /\ \E key \in [NewIds -> Keys] : ImportInterface(key)
  BY <1>4, ImportHolds
<1>5. CASE UNCHANGED allVars
  <2>1. /\ vars' = vars /\ again' = again /\ raw' = raw /\ after' = after
        /\ plan' = plan /\ managed' = managed /\ live' = live
    BY <1>5 DEF allVars, adoptVars, vars, kernVars
  <2>2. Numbers' /\ B!BillingInv' /\ RowsOf(peers') = RowsOf(peers) /\ kern' = kern
    BY <2>1, AccountingUntouched
  <2>3. PlanHolds /\ Numbers /\ InterfaceHolds
    BY DEF AdoptInv
  <2>4. PlanHolds' /\ InterfaceHolds'
    BY <2>1, <2>2, <2>3, PlanStays DEF InterfaceHolds
  <2> QED
    BY <2>2, <2>4 DEF AdoptInv
<1> QED
  BY <1>1, <1>2, <1>3, <1>4, <1>5 DEF AdoptNext, AdoptStep

(* At first there are no rows, no peers and no plan. *)
LEMMA AdoptInitHolds == AdoptInit => AdoptInv
<1> SUFFICES ASSUME AdoptInit PROVE AdoptInv
  OBVIOUS
<1>1. Numbers /\ PlanHolds
  BY DEF AdoptInit, Init, Numbers, PlanHolds, Keys, NoPlan
<1>2. B!BillingInv
  <2>1. charged = [id \in Id |-> 0]
    BY DEF AdoptInit, Init, charged
  <2>2. B!Init
    BY <2>1, Same DEF AdoptInit, Init, B!Init
  <2> QED
    BY <2>2, Assumed, B!InitBilling
<1>3. InterfaceHolds
  BY RowFacts DEF AdoptInit, Init, InterfaceHolds, RowsOf
<1> QED
  BY <1>1, <1>2, <1>3 DEF AdoptInv

LEMMA SpecHolds == AdoptSpec => []AdoptInv
BY AdoptInitHolds, AdoptNextHolds, PTL DEF AdoptSpec

(* Adoption keeps the accounting's types: the old rows an import deletes    *)
(* are not written again by a run that listed them, no row outlives its     *)
(* interface, and only a link that is up has peers.                         *)
THEOREM AdoptionTypeCorrect == AdoptSpec => []AdoptTypeOK
<1>1. AdoptInv => AdoptTypeOK
  <2> SUFFICES ASSUME AdoptInv PROVE AdoptTypeOK
    OBVIOUS
  <2>1. TypeOK /\ PlanHolds /\ InterfaceHolds
    BY InvFacts DEF AdoptInv
  <2>2. ASSUME plan # NoPlan PROVE plan.skip \in BOOLEAN /\ plan.rows \in [Keys -> LiveRow]
    <3>1. plan.rows = [p \in Keys |-> plan.rows[p]] /\ \A p \in Keys : plan.rows[p] \in LiveRow
      BY <2>1, <2>2 DEF PlanHolds
    <3> QED
      BY <2>1, <2>2, <3>1 DEF PlanHolds
  <2> QED
    BY <2>1, <2>2 DEF AdoptTypeOK, InterfaceHolds
<1> QED
  BY <1>1, SpecHolds, PTL

(* However plans, imports, overwrites, samples, runs and restarts follow    *)
(* each other, an adopted row has at most the bytes counted for it, and     *)
(* once more the counter it was adopted with when its key was sampled.      *)
THEOREM AdoptedRowNotOverbilled == AdoptSpec => []AdoptedBillBound
<1>1. AdoptInv => AdoptedBillBound
  <2> SUFFICES ASSUME AdoptInv, NEW id \in Id, Exists(peers[id])
               PROVE  peers[id].life <= bill[id] + again[id]
    BY DEF AdoptedBillBound
  <2>1. B!Covered(id)
    BY Same DEF AdoptInv, B!BillingInv, B!BillsCover
  <2>2. B!Total(B!DueOf(id)) \in Nat
    BY Assumed, B!TotalType
  <2>3. charged[id] \in Nat /\ charged[id] = bill[id] + again[id]
    BY DEF charged, AdoptInv, Numbers
  <2>4. peers[id].life \in Nat
    BY InvFacts, RowFacts DEF TypeOK
  <2> QED
    BY <2>1, <2>2, <2>3, <2>4 DEF B!Covered
<1> QED
  BY <1>1, SpecHolds, PTL
-----------------------------------------------------------------------------
(* What a row was adopted with limits no later offset or lifetime: not      *)
(* those of the row, nor those of a request that read it and writes it      *)
(* back.  Rotating a key zeroes the offset, so no request rotates.          *)
QuotaHolds ==
    /\ base \in [Id -> Nat]
    /\ \A id \in Id : id > lastId => base[id] = 0
    /\ \A id \in Id : Exists(peers[id]) =>
          base[id] <= peers[id].offset /\ base[id] <= peers[id].life
    /\ \A h \in Handler : req[h] # NoRequest =>
          /\ req[h].op # "rotate" /\ req[h].id <= lastId
          /\ base[req[h].id] <= req[h].row.offset /\ base[req[h].id] <= req[h].row.life
    /\ \A p \in Keys : plan.rows[p].limit > 0 => plan.rows[p].offset = plan.rows[p].life

QuotaInv == AdoptInv /\ QuotaHolds

(* A row that was there has its lifetime and an offset not below base,      *)
(* other rows are new; a new request read a row.                            *)
LEMMA QuotaStep ==
    ASSUME QuotaInv, IInv', base' = base, lastId' >= lastId,
           plan' = plan \/ plan' = NoPlan,
           \A id \in Id : Exists(peers'[id]) =>
               \/ id > lastId
               \/ /\ Exists(peers[id]) /\ peers'[id].life >= peers[id].life
                  /\ peers'[id].offset >= base[id],
           \A h \in Handler : req'[h] # NoRequest =>
               \/ req'[h] = req[h]
               \/ /\ req'[h].op # "rotate" /\ Exists(peers[req'[h].id])
                  /\ req'[h].row = peers[req'[h].id]
    PROVE  QuotaHolds'
<1>0. IInv /\ TypeOK /\ TypeOK' /\ QuotaHolds /\ lastId \in Nat
  BY InvFacts DEF QuotaInv, IInv
<1>1. lastId' \in Int /\ \A id \in Id : id \in Int /\ base[id] \in Nat
  BY <1>0, BoundAssumption DEF TypeOK, QuotaHolds, Id
<1>2. ASSUME NEW id \in Id, id > lastId' PROVE base'[id] = 0
  BY <1>0, <1>1, <1>2 DEF QuotaHolds
<1>3. ASSUME NEW id \in Id, Exists(peers'[id])
      PROVE  base'[id] <= peers'[id].offset /\ base'[id] <= peers'[id].life
  <2>1. peers'[id].offset \in Nat /\ peers'[id].life \in Nat
    BY <1>0, <1>3, RowFacts DEF TypeOK, LiveRow
  <2>2. CASE id > lastId
    BY <1>0, <2>1, <2>2 DEF QuotaHolds
  <2>3. CASE /\ Exists(peers[id]) /\ peers'[id].life >= peers[id].life
             /\ peers'[id].offset >= base[id]
    <3>1. base[id] <= peers[id].life /\ peers[id].life \in Nat
      BY <1>0, <2>3, RowFacts DEF QuotaHolds, TypeOK
    <3> QED
      BY <1>1, <2>1, <2>3, <3>1
  <2> QED
    BY <1>3, <2>2, <2>3
<1>4. ASSUME NEW h \in Handler, req'[h] # NoRequest
      PROVE  /\ req'[h].op # "rotate" /\ req'[h].id <= lastId'
             /\ base'[req'[h].id] <= req'[h].row.offset /\ base'[req'[h].id] <= req'[h].row.life
  <2>1. req'[h].id \in Id
    BY <1>0, <1>4 DEF TypeOK, Request
  <2>2. CASE req'[h] = req[h]
    <3>1. /\ req[h].op # "rotate" /\ req[h].id <= lastId
          /\ base[req[h].id] <= req[h].row.offset /\ base[req[h].id] <= req[h].row.life
      BY <1>0, <1>4, <2>2 DEF QuotaHolds
    <3> QED
      BY <1>0, <1>1, <2>1, <2>2, <3>1
  <2>3. CASE /\ req'[h].op # "rotate" /\ Exists(peers[req'[h].id])
             /\ req'[h].row = peers[req'[h].id]
    <3>1. req'[h].id <= lastId
      BY <1>0, <1>1, <2>1, <2>3 DEF IInv, IdsFresh
    <3>2. /\ base[req'[h].id] <= peers[req'[h].id].offset
          /\ base[req'[h].id] <= peers[req'[h].id].life
      BY <1>0, <2>1, <2>3 DEF QuotaHolds
    <3> QED
      BY <1>0, <1>1, <2>1, <2>3, <3>1, <3>2
  <2> QED
    BY <1>4, <2>2, <2>3
<1>5. \A p \in Keys' : plan'.rows[p].limit > 0 => plan'.rows[p].offset = plan'.rows[p].life
  BY <1>0 DEF QuotaHolds, Keys, NoPlan
<1> QED
  BY <1>0, <1>2, <1>3, <1>4, <1>5 DEF QuotaHolds

(* Writing the suspension or the statistics of a row leaves its offset. *)
LEMMA OffsetStays ==
    ASSUME NEW rows \in [Id -> Row], NEW id \in Id, Exists(rows[id]), NEW i \in Id
    PROVE  /\ \A v : [rows EXCEPT ![id].susp = v][i].offset = rows[i].offset
           /\ \A n : [rows EXCEPT ![id].life = n][i].offset = rows[i].offset
<1>1. rows[id] \in LiveRow
  BY RowFacts
<1>2. \A v : /\ [rows[id] EXCEPT !.susp = v].offset = rows[id].offset
             /\ [rows[id] EXCEPT !.life = v].offset = rows[id].offset
  BY <1>1 DEF LiveRow
<1> QED
  BY <1>2

(* A run stores no offset. *)
LEMMA RunKeepsOffset ==
    ASSUME IInv, RunStep, NEW i \in Id
    PROVE  peers'[i].offset = peers[i].offset
<1>0. TypeOK /\ peers \in [Id -> Row]
  BY DEF IInv, TypeOK
<1>1. ASSUME NEW id \in Id, Enforce(id) PROVE peers'[i].offset = peers[i].offset
  <2>1. peers' = peers \/ peers' = SetPeerSuspended(id, TRUE)
    BY <1>1 DEF Enforce
  <2>2. Exists(peers[id]) => \A v : [peers EXCEPT ![id].susp = v][i].offset = peers[i].offset
    BY <1>0, OffsetStays
  <2> QED
    BY <2>1, <2>2 DEF SetPeerSuspended
<1>2. ASSUME NEW id \in Id, SamplePeer(id) PROVE peers'[i].offset = peers[i].offset
  <2>1. PICK life : peers' = peers \/ peers' = UpdatePeerStats(id, life)
    BY <1>2 DEF SamplePeer
  <2>2. Exists(peers[id]) => \A n : [peers EXCEPT ![id].life = n][i].offset = peers[i].offset
    BY <1>0, OffsetStays
  <2> QED
    BY <2>1, <2>2 DEF UpdatePeerStats
<1>3. CASE RunBegin \/ ApplyPeers \/ BackendError \/ ReadDevice \/ Prune
  BY <1>3 DEF RunBegin, ApplyPeers, BackendError, ReadDevice, Prune, dbVars
<1> QED
  BY <1>1, <1>2, <1>3 DEF RunStep

(* A handler writes back the offset it read, or takes the lifetime it read  *)
(* for one; only rotate zeroes it.                                          *)
LEMMA HandlerKeepsBase ==
    ASSUME QuotaInv, HandlerStep, NEW i \in Id, Exists(peers[i]), Exists(peers'[i])
    PROVE  peers'[i].offset >= base[i]
<1>0. /\ IInv /\ TypeOK /\ QuotaHolds /\ lastId \in Nat /\ peers \in [Id -> Row]
  BY InvFacts DEF QuotaInv, TypeOK
<1>1. /\ base[i] \in Nat /\ peers[i].offset \in Nat /\ peers[i].offset >= base[i]
  BY <1>0, RowFacts DEF QuotaHolds, LiveRow
<1>2. ASSUME NEW p \in Pub, NEW l \in Limits, NEW e \in BOOLEAN, handleCreatePeer(p, l, e)
      PROVE  peers'[i] = peers[i]
  <2>1. i <= lastId
    BY <1>0, BoundAssumption DEF IInv, IdsFresh, Id
  <2> QED
    BY <1>0, <1>2, <2>1, BoundAssumption DEF handleCreatePeer, Id
<1>3. ASSUME NEW id \in Id, handleDeletePeer(id) PROVE peers'[i] = peers[i]
  BY <1>0, <1>3, RowFacts DEF handleDeletePeer
<1>4. ASSUME NEW id \in Id, NEW v \in BOOLEAN, setSuspend(id, v)
      PROVE  peers'[i].offset = peers[i].offset
  <2>1. Exists(peers[id]) /\ peers' = [peers EXCEPT ![id].susp = v]
    BY <1>4 DEF setSuspend, SetPeerSuspended
  <2> QED
    BY <1>0, <2>1, OffsetStays
<1>5. ASSUME NEW h \in Handler, NEW new \in Patched(req[h].row), handleUpdatePeer(h, new)
      PROVE  peers'[i].offset = peers[i].offset \/ peers'[i].offset >= base[i]
  <2> PICK id, r : id = req[h].id /\ r = req[h].row
    OBVIOUS
  <2>1. req[h] # NoRequest
    BY <1>5, NoRequestIsNone DEF handleUpdatePeer
  <2>2. id \in Id /\ r \in LiveRow /\ base[id] <= r.offset
    BY <1>0, <2>1, RequestFacts DEF QuotaHolds
  <2>3. new.offset = r.offset
    BY <2>2 DEF Patched, LiveRow
  <2>4. new \in LiveRow
    BY <2>2, PatchedRows
  <2>5. peers' = [peers EXCEPT ![id] = [new EXCEPT !.life = peers[id].life]]
    BY <1>5 DEF handleUpdatePeer, UpdatePeer
  <2>6. [new EXCEPT !.life = peers[id].life].offset = new.offset
    BY <2>4 DEF LiveRow
  <2> QED
    BY <1>0, <2>2, <2>3, <2>5, <2>6
<1>6. ASSUME NEW h \in Handler, handleResetPeerTraffic(h)
      PROVE  peers'[i].offset = peers[i].offset \/ peers'[i].offset >= base[i]
  <2> PICK id, n : id = req[h].id /\ n = req[h].row.life
    OBVIOUS
  <2>1. req[h] # NoRequest
    BY <1>6, NoRequestIsNone DEF handleResetPeerTraffic
  <2>2. id \in Id /\ base[id] <= n
    BY <1>0, <2>1, RequestFacts DEF QuotaHolds
  <2>3. Exists(peers[id]) /\ peers' = [peers EXCEPT ![id].offset = n]
    BY <1>6 DEF handleResetPeerTraffic
  <2>4. [peers[id] EXCEPT !.offset = n].offset = n
    BY <1>0, <2>2, <2>3, RowFacts DEF LiveRow
  <2> QED
    BY <1>0, <2>2, <2>3, <2>4
<1>7. ASSUME NEW h \in Handler, NEW p \in Pub, handleIssueClientKey(h, p) PROVE FALSE
  <2>1. req[h] # NoRequest /\ req[h].op = "rotate"
    BY <1>7, NoRequestIsNone DEF handleIssueClientKey
  <2> QED
    BY <1>0, <2>1 DEF QuotaHolds
<1>8. ASSUME NEW h \in Handler,
             \/ \E op \in {"patch", "reset", "rotate"}, id \in Id : GetPeer(h, op, id)
             \/ RequestFails(h)
      PROVE  peers'[i] = peers[i]
  BY <1>8 DEF GetPeer, RequestFails, dbVars
<1> QED
  BY <1>1, <1>2, <1>3, <1>4, <1>5, <1>6, <1>7, <1>8 DEF HandlerStep

(* A request in flight stays, ends, or has just read a row. *)
LEMMA RequestsRead ==
    ASSUME TypeOK, HandlerStep, "rotate" \notin Ops, NEW h \in Handler, req'[h] # NoRequest
    PROVE  \/ req'[h] = req[h]
           \/ /\ req'[h].op # "rotate" /\ Exists(peers[req'[h].id])
              /\ req'[h].row = peers[req'[h].id]
<1>1. ASSUME NEW g \in Handler, NEW op \in {"patch", "reset", "rotate"}, NEW id \in Id,
             GetPeer(g, op, id)
      PROVE  \/ req'[h] = req[h]
             \/ /\ req'[h].op # "rotate" /\ Exists(peers[req'[h].id])
                /\ req'[h].row = peers[req'[h].id]
  <2> PICK r : r = peers[id]
    OBVIOUS
  <2>1. op # "rotate" /\ Exists(r) /\ req' = [req EXCEPT ![g] = [op |-> op, id |-> id, row |-> r]]
    BY <1>1 DEF GetPeer
  <2>2. req'[h] = req[h] \/ req'[h] = [op |-> op, id |-> id, row |-> r]
    BY <2>1 DEF TypeOK
  <2> QED
    BY <2>1, <2>2
<1>2. ASSUME NEW g \in Handler, req' = [req EXCEPT ![g] = NoRequest] PROVE req'[h] = req[h]
  BY <1>2 DEF TypeOK
<1>3. ASSUME req' = req PROVE req'[h] = req[h]
  BY <1>3
<1> QED
  BY <1>1, <1>2, <1>3
     DEF HandlerStep, handleCreatePeer, handleDeletePeer, setSuspend, RequestFails,
         handleUpdatePeer, handleResetPeerTraffic, handleIssueClientKey

(* The row of a plan with a limit starts at its counter. *)
LEMMA PlanQuota ==
    ASSUME QuotaInv, NEW overwrite \in Overwrites, NEW conf \in [Pub -> Stanza],
           Plan(overwrite, conf)
    PROVE  QuotaHolds'
<1>1. \A p \in Pub : PlannedRow(p, conf[p]).limit > 0 =>
                        PlannedRow(p, conf[p]).offset = PlannedRow(p, conf[p]).life
  BY DEF PlannedRow, NoRow
<1>2. Keys' = Planned(conf) /\ \A p \in Planned(conf) : plan'.rows[p] = PlannedRow(p, conf[p])
  BY DEF Plan, Keys
<1>3. \A p \in Keys' : plan'.rows[p].limit > 0 => plan'.rows[p].offset = plan'.rows[p].life
  BY <1>1, <1>2 DEF Planned
<1>4. UNCHANGED <<base, lastId, peers, req>>
  BY DEF Plan, vars, dbVars
<1> QED
  BY <1>3, <1>4 DEF QuotaInv, QuotaHolds

(* An import replaces all rows. *)
LEMMA ImportQuota ==
    ASSUME QuotaInv, NewIds \subseteq Id, NEW key \in [NewIds -> Keys], ImportInterface(key)
    PROVE  QuotaHolds'
<1>0. TypeOK /\ PlanHolds /\ QuotaHolds /\ lastId \in Nat /\ lastId' = lastId + Cardinality(Keys)
  BY InvFacts DEF QuotaInv, AdoptInv, ImportInterface
<1>1. Cardinality(Keys) \in Nat
  BY Import DEF QuotaInv
<1>2. DOMAIN key = NewIds /\ \A id \in NewIds : id \in Int /\ id > lastId /\ id <= lastId'
  BY <1>0, <1>1 DEF NewIds
<1> DEFINE row(id) == plan.rows[key[id]]
<1>3. ASSUME NEW id \in NewIds
      PROVE  /\ row(id) \in LiveRow /\ row(id).life \in Nat /\ row(id).offset \in Nat
             /\ row(id).limit > 0 => row(id).offset = row(id).life
  BY <1>0 DEF PlanHolds, QuotaHolds, LiveRow
<1>4. \A id \in Id :
        /\ base'[id] = IF id \in NewIds /\ row(id).limit > 0 THEN row(id).life ELSE 0
        /\ peers'[id] = IF id \in NewIds THEN row(id) ELSE NoRow
  BY <1>2 DEF ImportInterface
<1>5. base' \in [Id -> Nat]
  <2>1. \A id \in Id : base'[id] \in Nat
    BY <1>3, <1>4
  <2>2. base' = [id \in Id |-> base'[id]]
    BY DEF ImportInterface
  <2> QED
    BY <2>1, <2>2
<1>6. ASSUME NEW id \in Id, id > lastId' PROVE base'[id] = 0
  BY <1>2, <1>0, <1>1, <1>4, <1>6, BoundAssumption DEF Id
<1>7. ASSUME NEW id \in Id, Exists(peers'[id])
      PROVE  base'[id] <= peers'[id].offset /\ base'[id] <= peers'[id].life
  <2>1. id \in NewIds
    BY <1>4, <1>7, RowFacts
  <2> QED
    BY <1>3, <1>4, <2>1
<1>8. ASSUME NEW h \in Handler, req'[h] # NoRequest
      PROVE  /\ req'[h].op # "rotate" /\ req'[h].id <= lastId'
             /\ base'[req'[h].id] <= req'[h].row.offset /\ base'[req'[h].id] <= req'[h].row.life
  <2> PICK q : q = req[h]
    OBVIOUS
  <2>1. req'[h] = q /\ q # NoRequest
    BY <1>8 DEF ImportInterface
  <2>2. /\ q.op # "rotate" /\ q.id <= lastId /\ q.id \in Id
        /\ q.row.offset \in Nat /\ q.row.life \in Nat
    BY <1>0, <2>1 DEF QuotaHolds, TypeOK, Request, LiveRow
  <2>3. q.id \in Int /\ q.id \notin NewIds
    BY <1>0, <1>2, <2>2, BoundAssumption DEF Id
  <2> QED
    BY <1>0, <1>1, <1>4, <2>1, <2>2, <2>3
<1>9. \A p \in Keys' : plan'.rows[p].limit > 0 => plan'.rows[p].offset = plan'.rows[p].life
  BY DEF ImportInterface, Keys, NoPlan
<1> QED
  BY <1>5, <1>6, <1>7, <1>8, <1>9 DEF QuotaHolds

(* Every step preserves it as long as no key is rotated. *)
LEMMA QuotaNext ==
    ASSUME "rotate" \notin Ops, QuotaInv, [AdoptNext]_allVars
    PROVE  QuotaInv'
<1>0. IInv /\ TypeOK /\ peers \in [Id -> Row] /\ lastId \in Nat
  BY InvFacts DEF QuotaInv, TypeOK
<1>1. AdoptInv' /\ IInv'
  <2>1. AdoptInv'
    BY AdoptNextHolds DEF QuotaInv
  <2>2. IInv'
    BY <2>1, SameInv DEF AdoptInv, B!BillingInv
  <2> QED
    BY <2>1, <2>2
<1>2. \A i \in Id : Exists(peers[i]) =>
         /\ peers[i].life \in Nat /\ peers[i].offset \in Nat /\ base[i] \in Nat
         /\ peers[i].offset >= base[i]
  BY <1>0, RowFacts DEF QuotaInv, QuotaHolds, LiveRow
<1> SUFFICES QuotaHolds'
  BY <1>1 DEF QuotaInv
<1>3. CASE RunStep /\ UNCHANGED <<plan, base>>
  <2>1. req' = req /\ lastId' = lastId
    BY <1>3 DEF RunStep, RunBegin, Enforce, ApplyPeers, BackendError, ReadDevice, SamplePeer,
                Prune, dbVars
  <2>2. ASSUME NEW i \in Id, Exists(peers'[i])
        PROVE  /\ Exists(peers[i]) /\ peers'[i].life >= peers[i].life
               /\ peers'[i].offset >= base[i]
    <3>1. Exists(peers[i])
      BY <1>0, <1>3, <2>2, RunStepKeeps DEF RowsOf
    <3> QED
      BY <1>0, <1>2, <1>3, <2>2, <3>1, LifetimeStep, RunKeepsOffset DEF Next
  <2> QED
    BY <1>0, <1>1, <1>3, <2>1, <2>2, QuotaStep
<1>4. CASE HandlerStep /\ UNCHANGED <<plan, base>>
  <2>1. lastId' >= lastId
    <3>1. lastId' = lastId \/ lastId' = lastId + 1
      BY <1>4
         DEF HandlerStep, handleCreatePeer, handleDeletePeer, setSuspend, GetPeer, RequestFails,
             handleUpdatePeer, handleResetPeerTraffic, handleIssueClientKey, dbVars
    <3> QED
      BY <1>0, <3>1
  <2>2. ASSUME NEW i \in Id, Exists(peers'[i])
        PROVE  \/ i > lastId
               \/ /\ Exists(peers[i]) /\ peers'[i].life >= peers[i].life
                  /\ peers'[i].offset >= base[i]
    <3>1. CASE Exists(peers[i])
      BY <1>0, <1>4, <2>2, <3>1, LifetimeStep, HandlerKeepsBase DEF Next
    <3>2. CASE ~Exists(peers[i])
      <4>1. lastId' # lastId
        BY <1>0, <1>4, <2>2, <3>2, HandlerStepKeeps DEF RowsOf
      <4>2. PICK p \in Pub, l \in Limits, e \in BOOLEAN : handleCreatePeer(p, l, e)
        BY <1>4, <4>1
           DEF HandlerStep, handleDeletePeer, setSuspend, GetPeer, RequestFails,
               handleUpdatePeer, handleResetPeerTraffic, handleIssueClientKey, dbVars
      <4>3. i = lastId + 1
        BY <1>0, <2>2, <3>2, <4>2 DEF handleCreatePeer
      <4> QED
        BY <1>0, <4>3
    <3> QED
      BY <3>1, <3>2
  <2>3. \A h \in Handler : req'[h] # NoRequest =>
               \/ req'[h] = req[h]
               \/ /\ req'[h].op # "rotate" /\ Exists(peers[req'[h].id])
                  /\ req'[h].row = peers[req'[h].id]
    BY <1>0, <1>4, RequestsRead
  <2> QED
    BY <1>1, <1>4, <2>1, <2>2, <2>3, QuotaStep
<1>5. CASE /\ UNCHANGED <<base, lastId>> /\ (plan' = plan \/ plan' = NoPlan)
           /\ peers' = peers \/ peers' = [id \in Id |-> NoRow]
           /\ req' = req \/ req' = [h \in Handler |-> NoRequest]
  <2>1. \A i \in Id : Exists(peers'[i]) =>
           /\ Exists(peers[i]) /\ peers'[i].life >= peers[i].life /\ peers'[i].offset >= base[i]
    BY <1>2, <1>5, RowFacts
  <2>2. \A h \in Handler : req'[h] # NoRequest => req'[h] = req[h]
    BY <1>5
  <2> QED
    BY <1>0, <1>1, <1>5, <2>1, <2>2, QuotaStep
<1>6. ASSUME NEW overwrite \in Overwrites, NEW conf \in [Pub -> Stanza], Plan(overwrite, conf)
      PROVE  QuotaHolds'
  BY <1>6, PlanQuota
<1>7. ASSUME NewIds \subseteq Id, NEW key \in [NewIds -> Keys], ImportInterface(key)
      PROVE  QuotaHolds'
  BY <1>7, ImportQuota
<1>8. CASE AccountingStep
  <2>1. ASSUME NEW p \in Pub, Carry(p), UNCHANGED <<plan, base>> PROVE QuotaHolds'
    BY <1>5, <2>1 DEF Carry, dbVars
  <2>2. CASE LinkRecreated /\ UNCHANGED adoptVars
    BY <1>5, <2>2 DEF LinkRecreated, dbVars, adoptVars
  <2>3. CASE Restart /\ plan' = NoPlan /\ base' = base
    BY <1>5, <2>3 DEF Restart, dbVars
  <2> QED
    BY <1>3, <1>4, <1>8, <2>1, <2>2, <2>3 DEF AccountingStep, adoptVars
<1>9. CASE Skip \/ ImportFails \/ CreateInterface \/ UNCHANGED allVars
  BY <1>5, <1>9 DEF Skip, ImportFails, CreateInterface, allVars, vars, dbVars, adoptVars
<1>10. CASE DeleteInterface \/ (\E p \in Pub : HostAddsPeer(p)) \/ RunWithoutInterface
  BY <1>5, <1>10 DEF DeleteInterface, HostAddsPeer, RunWithoutInterface, dbVars
<1> QED
  BY <1>6, <1>7, <1>8, <1>9, <1>10 DEF AdoptNext, AdoptStep

(* "Existing lifetime kernel totals don't immediately auto-suspend peers on *)
(* adopt": whatever is planned, imported and sampled, unless keys are       *)
(* rotated, which zeroes the offset the limit came with.                    *)
THEOREM QuotaNotUsedUpByAdoption == "rotate" \notin Ops => (AdoptSpec => []QuotaFromAdoption)
<1> SUFFICES ASSUME "rotate" \notin Ops PROVE AdoptSpec => []QuotaFromAdoption
  OBVIOUS
<1>1. AdoptInit => QuotaInv
  <2> SUFFICES ASSUME AdoptInit PROVE QuotaHolds
    BY AdoptInitHolds DEF QuotaInv
  <2> QED
    BY RowFacts DEF AdoptInit, Init, QuotaHolds, Keys, NoPlan
<1>2. QuotaInv /\ [AdoptNext]_allVars => QuotaInv'
  BY QuotaNext
<1>3. QuotaInv /\ AdoptedBillBound => QuotaFromAdoption
  <2> SUFFICES ASSUME QuotaInv, AdoptedBillBound, NEW id \in Id, Exists(peers[id]),
                      TrafficLimitExceeded(peers[id])
               PROVE  bill[id] + again[id] - base[id] >= peers[id].limit
    BY DEF QuotaFromAdoption
  <2>1. peers[id] \in LiveRow /\ peers[id].limit > 0 /\ Effective(peers[id]) >= peers[id].limit
    BY InvFacts, RowFacts DEF QuotaInv, TypeOK, TrafficLimitExceeded
  <2>2. peers[id].life - peers[id].offset >= peers[id].limit
    BY <2>1 DEF Effective, LiveRow
  <2>3. base[id] <= peers[id].offset /\ base[id] \in Nat
    BY DEF QuotaInv, QuotaHolds
  <2>4. peers[id].life <= bill[id] + again[id]
    BY DEF AdoptedBillBound
  <2>5. bill[id] \in Nat /\ again[id] \in Nat
    BY DEF QuotaInv, AdoptInv, Numbers
  <2> QED
    BY <2>1, <2>2, <2>3, <2>4, <2>5 DEF LiveRow
<1> QED
  BY <1>1, <1>2, <1>3, AdoptedRowNotOverbilled, PTL DEF AdoptSpec
=============================================================================
