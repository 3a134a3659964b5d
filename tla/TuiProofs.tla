------------------------------ MODULE TuiProofs ------------------------------
(***************************************************************************)
(* For any rows, any number of fetches in flight and any number of events: *)
(* a screen of the terminal UI awaits one call at most, acts on what it    *)
(* names, never shows an older state of the daemon than it has shown or    *)
(* was told of, and keeps its cursor on a row.                             *)
(***************************************************************************)
EXTENDS Tui, FiniteSetTheorems, TLAPS

Fields == {"tab", "mode", "cursor", "ifaces", "peers", "detailIf", "detailPeer",
           "confirm", "form", "busy", "seen", "need"}

FieldsOK ==
    /\ DOMAIN m = Fields /\ DOMAIN m.form = {"create", "edit", "title", "options"}
    /\ \A f \in fetches : DOMAIN f = {"stale", "at", "ifaces", "peers", "ver"}
    /\ \A c \in calls : DOMAIN c = {"op", "target", "at", "ver"}

(* A prompt asks about what a yes deletes, a form that edits a row is about *)
(* that row for good.                                                       *)
DialogsOK ==
    /\ m.confirm.arg = m.confirm.text
    /\ m.form.create \/ (m.form.options = {} /\ m.form.title = m.form.edit)

Awaited == {c \in calls : c.at # "given up"}

CallsOK ==
    /\ \A c, d \in Awaited : c = d
    /\ m.busy = (Awaited # {})

Fresh == {f \in fetches : ~f.stale}

(* What is on its way back from the daemon was true of it at some time.     *)
(* There is one fetch at most whose reply will be shown, and it was sent    *)
(* after everything the screen shows or was told of.                        *)
VersionsOK ==
    /\ srv.ver \in Nat /\ m.seen \in 0..srv.ver /\ m.need \in 0..srv.ver
    /\ \A c \in calls : c.ver \in 0..srv.ver
    /\ \A f, g \in Fresh : f = g
    /\ \A f \in Fresh : f.at = "done" =>
          f.ver \in 0..srv.ver /\ m.seen <= f.ver /\ m.need <= f.ver

IInv == FieldsOK /\ DialogsOK /\ CallsOK /\ VersionsOK

(* The screen turns to something else; calls and replies are not concerned. *)
Turns ==
    /\ DOMAIN m' = Fields /\ DOMAIN m'.form = DOMAIN m.form
    /\ DialogsOK'
    /\ m'.busy = m.busy /\ m'.seen = m.seen /\ m'.need = m.need
-----------------------------------------------------------------------------
LEMMA StartsIn == Init => IInv
<1> SUFFICES ASSUME Init PROVE IInv
  OBVIOUS
<1>1. FieldsOK /\ DialogsOK
  BY DEF Init, Fields, FieldsOK, DialogsOK, NoConfirm, NoForm, Fetch
<1>2. CallsOK
  BY DEF Init, CallsOK, Awaited
<1>3. VersionsOK
  <2>1. srv.ver = 0 /\ m.seen = 0 /\ m.need = 0 /\ calls = {}
        /\ Fresh = {Fetch} /\ Fetch.at = "sent"
    BY DEF Init, Fresh, Fetch
  <2> QED
    BY <2>1 DEF VersionsOK
<1> QED
  BY <1>1, <1>2, <1>3 DEF IInv

LEMMA TurningKeeps ==
    ASSUME IInv, Turns, UNCHANGED <<srv, fetches, calls>>
    PROVE  IInv'
<1>1. CallsOK'
  BY DEF IInv, Turns, CallsOK, Awaited
<1>2. VersionsOK'
  BY DEF IInv, Turns, VersionsOK, Fresh
<1>3. FieldsOK'
  BY DEF IInv, Turns, FieldsOK
<1> QED
  BY <1>1, <1>2, <1>3 DEF IInv, Turns

(* A call is begun: it is the one awaited now. *)
LEMMA StartingKeeps ==
    ASSUME IInv, ~m.busy, NEW op, NEW target, calls' = calls \cup {Call(op, target)},
           DOMAIN m' = Fields, m'.form = m.form, DialogsOK', m'.busy = TRUE,
           m'.seen = m.seen, m'.need = m.need, UNCHANGED <<srv, fetches>>
    PROVE  IInv'
<1>1. Call(op, target).at = "sent" /\ Call(op, target).ver = 0
  BY DEF Call
<1>2. Awaited = {}
  BY DEF IInv, CallsOK
<1>3. Awaited' = {Call(op, target)}
  BY <1>1, <1>2 DEF Awaited
<1>4. CallsOK'
  BY <1>3 DEF CallsOK
<1>5. VersionsOK'
  <2>1. 0 \in 0..srv.ver
    BY DEF IInv, VersionsOK
  <2> QED
    BY <1>1, <2>1 DEF IInv, VersionsOK, Fresh
<1>6. FieldsOK'
  BY DEF IInv, FieldsOK, Call
<1> QED
  BY <1>4, <1>5, <1>6 DEF IInv

(* A fetch is begun: the replies of all others are stale. *)
LEMMA FetchingKeeps ==
    ASSUME IInv, fetches' = {[f EXCEPT !.stale = TRUE] : f \in fetches} \cup {Fetch},
           DOMAIN m' = Fields, DOMAIN m'.form = DOMAIN m.form, DialogsOK', CallsOK',
           m'.seen = m.seen, m'.need \in 0..srv.ver,
           calls' \subseteq calls, UNCHANGED srv
    PROVE  IInv'
<1>1. \A f \in Fresh' : f = Fetch
  <2>1. \A f \in fetches : [f EXCEPT !.stale = TRUE].stale
    BY DEF IInv, FieldsOK
  <2> QED
    BY <2>1 DEF Fresh
<1>2. Fetch.at # "done"
  BY DEF Fetch
<1>3. VersionsOK'
  BY <1>1, <1>2 DEF IInv, VersionsOK
<1>4. FieldsOK'
  BY DEF IInv, FieldsOK, Fetch
<1> QED
  BY <1>3, <1>4 DEF IInv
-----------------------------------------------------------------------------
(* The keys *)

LEMMA ListKeyKeeps == IInv /\ ListKey => IInv'
<1> SUFFICES ASSUME IInv, ListKey PROVE IInv'
  OBVIOUS
<1>1. /\ DOMAIN m = Fields /\ DOMAIN m.form = {"create", "edit", "title", "options"}
      /\ DialogsOK
  BY DEF IInv, FieldsOK
<1>2. ASSUME NEW t \in Tabs, SwitchTab(t) PROVE IInv'
  <2>1. Turns
    BY <1>1, <1>2 DEF SwitchTab, Shows, Turns, DialogsOK, Fields
  <2> QED
    BY <1>2, <2>1, TurningKeeps DEF SwitchTab, Shows
<1>3. CASE Down \/ Up \/ PageDown \/ PageUp
  <2>1. Turns
    BY <1>1, <1>3 DEF Down, Up, PageDown, PageUp, Shows, Turns, DialogsOK, Fields
  <2> QED
    BY <1>3, <2>1, TurningKeeps DEF Down, Up, PageDown, PageUp, Shows
<1>4. CASE RowPanic
  <2>1. Turns
    BY <1>1, <1>4 DEF RowPanic, Shows, Turns, DialogsOK, Fields
  <2> QED
    BY <1>4, <2>1, TurningKeeps DEF RowPanic, Shows
<1>5. CASE Refresh
  <2>1. m' = m /\ UNCHANGED <<srv, calls>>
        /\ fetches' = {[f EXCEPT !.stale = TRUE] : f \in fetches} \cup {Fetch}
    BY <1>5 DEF Refresh, beginFetch
  <2>2. DOMAIN m' = Fields /\ DOMAIN m'.form = DOMAIN m.form /\ DialogsOK' /\ CallsOK'
        /\ m'.seen = m.seen /\ m'.need \in 0..srv.ver
    BY <1>1, <2>1 DEF IInv, DialogsOK, CallsOK, Awaited, VersionsOK
  <2> QED
    BY <2>1, <2>2, FetchingKeeps
<1>6. CASE ReconcileKey
  <2>1. ~m.busy /\ calls' = calls \cup {Call("reconcile", <<"all", 0>>)}
        /\ m' = [m EXCEPT !.busy = TRUE] /\ UNCHANGED <<srv, fetches>>
    BY <1>6 DEF ReconcileKey, startMutate
  <2>2. DOMAIN m' = Fields /\ m'.form = m.form /\ DialogsOK' /\ m'.busy = TRUE
        /\ m'.seen = m.seen /\ m'.need = m.need
    BY <1>1, <2>1 DEF DialogsOK, Fields
  <2> QED
    BY <2>1, <2>2, StartingKeeps
<1>7. ASSUME NEW i, EnterIface(i) \/ EnterPeer(i) PROVE IInv'
  <2>1. Turns
    BY <1>1, <1>7 DEF EnterIface, EnterPeer, Shows, Turns, DialogsOK, Fields
  <2> QED
    BY <1>7, <2>1, TurningKeeps DEF EnterIface, EnterPeer, Shows
<1> QED
  BY <1>2, <1>3, <1>4, <1>5, <1>6, <1>7 DEF ListKey

(* Keys on a row: a call is begun, or a prompt or a form opened about it. *)
LEMMA RowKeyKeeps ==
    ASSUME IInv, NEW i, NEW subject, subject \in {OfIface(i), OfPeer(i)},
           \/ Touch(subject) \/ DeleteKey(subject) \/ openIfaceEdit(i) \/ openPeerEdit(i)
           \/ doFetchClientConf(i)
    PROVE  IInv'
<1>1. /\ DOMAIN m = Fields /\ DOMAIN m.form = {"create", "edit", "title", "options"}
      /\ DialogsOK
  BY DEF IInv, FieldsOK
<1>2. CASE Touch(subject)
  <2>1. ~m.busy /\ calls' = calls \cup {Call("touch", subject)}
        /\ m' = [m EXCEPT !.busy = TRUE] /\ UNCHANGED <<srv, fetches>>
    BY <1>2 DEF Touch, startMutate
  <2>2. DOMAIN m' = Fields /\ m'.form = m.form /\ DialogsOK' /\ m'.busy = TRUE
        /\ m'.seen = m.seen /\ m'.need = m.need
    BY <1>1, <2>1 DEF DialogsOK, Fields
  <2> QED
    BY <2>1, <2>2, StartingKeeps
<1>3. CASE DeleteKey(subject)
  <2>1. Turns
    BY <1>1, <1>3 DEF DeleteKey, Shows, Turns, DialogsOK, Fields
  <2> QED
    BY <1>3, <2>1, TurningKeeps DEF DeleteKey, Shows
<1>4. CASE openIfaceEdit(i)
  <2>1. Turns
    BY <1>1, <1>4 DEF openIfaceEdit, Shows, Turns, DialogsOK, Fields, NoForm
  <2> QED
    BY <1>4, <2>1, TurningKeeps DEF openIfaceEdit, Shows
<1>6. CASE openPeerEdit(i)
  <2>1. Turns
    BY <1>1, <1>6 DEF openPeerEdit, Shows, Turns, DialogsOK, Fields, NoForm
  <2> QED
    BY <1>6, <2>1, TurningKeeps DEF openPeerEdit, Shows
<1>5. CASE doFetchClientConf(i)
  <2>1. Turns
    BY <1>1, <1>5 DEF doFetchClientConf, Turns, DialogsOK
  <2> QED
    BY <1>5, <2>1, TurningKeeps DEF doFetchClientConf
<1> QED
  BY <1>2, <1>3, <1>4, <1>5, <1>6

LEMMA FormKeyKeeps == IInv /\ FormKey => IInv'
<1> SUFFICES ASSUME IInv, FormKey PROVE IInv'
  OBVIOUS
<1>1. /\ DOMAIN m = Fields /\ DOMAIN m.form = {"create", "edit", "title", "options"}
      /\ DialogsOK
  BY DEF IInv, FieldsOK
<1>2. CASE openIfaceCreate
  <2>1. Turns
    BY <1>1, <1>2 DEF openIfaceCreate, Shows, Turns, DialogsOK, Fields, NoForm
  <2> QED
    BY <1>2, <2>1, TurningKeeps DEF openIfaceCreate, Shows
<1>3. CASE openPeerCreate
  <2>1. PICK title, options :
            m' = [m EXCEPT !.mode = "peerForm", !.detailIf = 0,
                           !.form = [create |-> TRUE, edit |-> None, title |-> title,
                                     options |-> options]]
    BY <1>3 DEF openPeerCreate, Shows
  <2>2. Turns
    BY <1>1, <2>1 DEF Turns, DialogsOK, Fields
  <2>3. UNCHANGED <<srv, fetches, calls>>
    BY <1>3 DEF openPeerCreate, Shows
  <2> QED
    BY <2>2, <2>3, TurningKeeps
<1>4. CASE CancelForm
  <2>1. Turns
    BY <1>1, <1>4 DEF CancelForm, Shows, Turns, DialogsOK, Fields, NoForm
  <2> QED
    BY <1>4, <2>1, TurningKeeps DEF CancelForm, Shows
<1>5. CASE submitIfaceForm \/ submitPeerForm
  <2>1. PICK op, target : startMutate(m, op, target)
    BY <1>5 DEF submitIfaceForm, submitPeerForm
  <2>2. ~m.busy /\ calls' = calls \cup {Call(op, target)}
        /\ m' = [m EXCEPT !.busy = TRUE] /\ UNCHANGED <<srv, fetches>>
    BY <2>1 DEF startMutate
  <2>3. DOMAIN m' = Fields /\ m'.form = m.form /\ DialogsOK' /\ m'.busy = TRUE
        /\ m'.seen = m.seen /\ m'.need = m.need
    BY <1>1, <2>2 DEF DialogsOK, Fields
  <2> QED
    BY <2>2, <2>3, StartingKeeps
<1>6. ASSUME NEW i \in Iface, cycleSelect(i) PROVE IInv'
  <2>1. m.form.create
    BY <1>1, <1>6 DEF cycleSelect, DialogsOK
  <2>2. m'.form.create /\ DOMAIN m' = Fields /\ m'.confirm = m.confirm
        /\ DOMAIN m'.form = DOMAIN m.form
        /\ m'.busy = m.busy /\ m'.seen = m.seen /\ m'.need = m.need
    BY <1>1, <1>6, <2>1 DEF cycleSelect, Shows, Fields
  <2>3. Turns
    BY <1>1, <2>2 DEF Turns, DialogsOK
  <2> QED
    BY <1>6, <2>3, TurningKeeps DEF cycleSelect, Shows
<1> QED
  BY <1>2, <1>3, <1>4, <1>5, <1>6 DEF FormKey

LEMMA PageKeyKeeps == IInv /\ PageKey => IInv'
<1> SUFFICES ASSUME IInv, PageKey PROVE IInv'
  OBVIOUS
<1>1. /\ DOMAIN m = Fields /\ DOMAIN m.form = {"create", "edit", "title", "options"}
      /\ DialogsOK
  BY DEF IInv, FieldsOK
<1>2. CASE LeaveIface \/ LeavePeer \/ LeaveConf \/ Quit
  <2>1. Turns
    BY <1>1, <1>2 DEF LeaveIface, LeavePeer, LeaveConf, Quit, Shows, Turns, DialogsOK, Fields
  <2> QED
    BY <1>2, <2>1, TurningKeeps DEF LeaveIface, LeavePeer, LeaveConf, Quit, Shows
<1>4. CASE handleConfirmNo
  <2>1. Turns
    BY <1>1, <1>4 DEF handleConfirmNo, Shows, Turns, DialogsOK, Fields, NoConfirm
  <2> QED
    BY <1>4, <2>1, TurningKeeps DEF handleConfirmNo, Shows
<1>3. CASE handleConfirmYes
  <2>1. ~m.busy /\ calls' = calls \cup {Call("delete", m.confirm.arg)}
        /\ m' = [[m EXCEPT !.mode = "list", !.confirm = NoConfirm] EXCEPT !.busy = TRUE]
        /\ UNCHANGED <<srv, fetches>>
    BY <1>3 DEF handleConfirmYes, startMutate
  <2>2. DOMAIN m' = Fields /\ m'.form = m.form /\ DialogsOK' /\ m'.busy = TRUE
        /\ m'.seen = m.seen /\ m'.need = m.need
    BY <1>1, <2>1 DEF DialogsOK, Fields, NoConfirm
  <2> QED
    BY <2>1, <2>2, StartingKeeps
<1> QED
  BY <1>2, <1>3, <1>4 DEF PageKey
-----------------------------------------------------------------------------
(* The replies *)

LEMMA ChangedVersion ==
    ASSUME NEW op, NEW target, srv.ver \in Nat
    PROVE  Changed(op, target).ver \in Nat /\ srv.ver <= Changed(op, target).ver
BY DEF Changed

(* The daemon moves on: what was true of it before was true of it earlier.  *)
LEMMA OtherEditKeeps ==
    ASSUME IInv, NEW op, NEW target, OtherEdit(op, target)
    PROVE  IInv'
<1>1. srv.ver \in Nat /\ srv' = Changed(op, target) /\ UNCHANGED <<m, fetches, calls>>
  BY DEF IInv, VersionsOK, OtherEdit
<1>2. srv'.ver \in Nat /\ srv.ver <= srv'.ver
  BY <1>1, ChangedVersion
<1>3. 0..srv.ver \subseteq 0..srv'.ver
  BY <1>1, <1>2
<1>4. VersionsOK'
  BY <1>1, <1>2, <1>3 DEF IInv, VersionsOK, Fresh
<1> QED
  BY <1>1, <1>4 DEF IInv, FieldsOK, DialogsOK, CallsOK, Awaited

LEMMA AnswerKeeps ==
    ASSUME IInv, NEW f \in fetches, Answer(f)
    PROVE  IInv'
<1> DEFINE g == [f EXCEPT !.at = "done", !.ifaces = srv.ifaces, !.peers = srv.peers,
                          !.ver = srv.ver]
<1>1. DOMAIN f = {"stale", "at", "ifaces", "peers", "ver"}
  BY DEF IInv, FieldsOK
<1>2. DOMAIN g = DOMAIN f /\ g.stale = f.stale /\ g.ver = srv.ver
  BY <1>1
<1>3. fetches' = (fetches \ {f}) \cup {g} /\ UNCHANGED <<srv, m, calls>>
  BY DEF Answer
<1> HIDE DEF g
<1>4. Fresh' \subseteq (Fresh \ {f}) \cup {g} /\ (g \in Fresh' => f \in Fresh)
  BY <1>2, <1>3 DEF Fresh
<1>5. VersionsOK'
  <2>1. \A x, y \in Fresh' : x = y
    BY <1>4 DEF IInv, VersionsOK
  <2>2. srv.ver \in 0..srv.ver /\ m.seen <= srv.ver /\ m.need <= srv.ver
    BY DEF IInv, VersionsOK
  <2> QED
    BY <1>2, <1>3, <1>4, <2>1, <2>2 DEF IInv, VersionsOK
<1>6. FieldsOK'
  BY <1>1, <1>2, <1>3 DEF IInv, FieldsOK
<1> QED
  BY <1>3, <1>5, <1>6 DEF IInv, DialogsOK, CallsOK, Awaited

LEMMA DataKeeps ==
    ASSUME IInv, NEW f \in fetches, dataMsg(f) \/ dataMsgError(f)
    PROVE  IInv'
<1>1. fetches' = fetches \ {f} /\ UNCHANGED <<srv, calls>>
  BY DEF dataMsg, dataMsgError
<1>2. Fresh' = Fresh \ {f}
  BY <1>1 DEF Fresh
<1>3. CASE m' = m
  BY <1>1, <1>2, <1>3 DEF IInv, FieldsOK, DialogsOK, CallsOK, Awaited, VersionsOK
<1>4. CASE f.at = "done" /\ ~f.stale /\ m' = withData(f)
  <2>1. f \in Fresh /\ Fresh' = {}
    BY <1>2, <1>4 DEF IInv, VersionsOK, Fresh
  <2>2. /\ DOMAIN m' = Fields /\ m'.form = m.form /\ m'.confirm = m.confirm
        /\ m'.busy = m.busy /\ m'.need = m.need /\ m'.seen = f.ver
    BY <1>4 DEF IInv, FieldsOK, Fields, withData
  <2>3. FieldsOK' /\ DialogsOK' /\ CallsOK'
    BY <1>1, <2>2 DEF IInv, FieldsOK, DialogsOK, CallsOK, Awaited
  <2>4. f.ver \in 0..srv.ver
    BY <1>4, <2>1 DEF IInv, VersionsOK
  <2>5. VersionsOK'
    BY <1>1, <2>1, <2>2, <2>4 DEF IInv, VersionsOK
  <2> QED
    BY <2>3, <2>5 DEF IInv
<1> QED
  BY <1>3, <1>4 DEF dataMsg, dataMsgError

LEMMA ServeKeeps ==
    ASSUME IInv, NEW c \in calls, Serve(c)
    PROVE  IInv'
<1> DEFINE ok == Accepts(c.op, c.target)
           a == [c EXCEPT !.at = IF ok THEN "ok" ELSE "error",
                          !.ver = IF ok THEN Changed(c.op, c.target).ver ELSE 0]
<1>1. DOMAIN c = {"op", "target", "at", "ver"}
  BY DEF IInv, FieldsOK
<1>2. /\ DOMAIN a = DOMAIN c /\ a.at # "given up"
      /\ a.ver = IF ok THEN Changed(c.op, c.target).ver ELSE 0
  BY <1>1
<1>3. /\ c.at \in {"sent", "given up"}
      /\ srv' = IF ok THEN Changed(c.op, c.target) ELSE srv
      /\ calls' = (calls \ {c}) \cup (IF c.at = "sent" THEN {a} ELSE {})
      /\ UNCHANGED <<m, fetches>>
  BY DEF Serve
<1> HIDE DEF ok, a
<1>4. srv.ver \in Nat
  BY DEF IInv, VersionsOK
<1>5. srv'.ver \in Nat /\ srv.ver <= srv'.ver /\ a.ver \in 0..srv'.ver
  <2>1. CASE ok
    <3>1. /\ Changed(c.op, c.target).ver \in Nat
          /\ srv.ver <= Changed(c.op, c.target).ver
      BY <1>4, ChangedVersion
    <3>2. srv' = Changed(c.op, c.target) /\ a.ver = Changed(c.op, c.target).ver
      BY <1>2, <1>3, <2>1
    <3> QED
      BY <1>4, <3>1, <3>2
  <2>2. CASE ~ok
    <3>1. srv' = srv /\ a.ver = 0
      BY <1>2, <1>3, <2>2
    <3> QED
      BY <1>4, <3>1
  <2> QED
    BY <2>1, <2>2
<1>6. 0..srv.ver \subseteq 0..srv'.ver
  BY <1>4, <1>5
<1>7. VersionsOK'
  BY <1>3, <1>5, <1>6 DEF IInv, VersionsOK, Fresh
<1>8. CallsOK'
  <2>1. CASE c.at = "sent"
    <3>0. calls' = (calls \ {c}) \cup {a}
      BY <1>3, <2>1
    <3>1. c \in Awaited /\ Awaited' = (Awaited \ {c}) \cup {a}
      BY <1>2, <2>1, <3>0 DEF Awaited
    <3>2. Awaited \ {c} = {} /\ m.busy
      BY <3>1 DEF IInv, CallsOK
    <3> QED
      BY <1>3, <3>1, <3>2 DEF IInv, CallsOK
  <2>2. CASE c.at = "given up"
    <3>0. calls' = calls \ {c}
      BY <1>3, <2>2
    <3>1. Awaited' = Awaited
      BY <2>2, <3>0 DEF Awaited
    <3> QED
      BY <1>3, <3>1 DEF IInv, CallsOK
  <2> QED
    BY <1>3, <2>1, <2>2
<1>9. FieldsOK'
  BY <1>1, <1>2, <1>3 DEF IInv, FieldsOK
<1> QED
  BY <1>3, <1>7, <1>8, <1>9 DEF IInv, DialogsOK

LEMMA CancelledKeeps ==
    ASSUME IInv, NEW c \in calls, Cancelled(c)
    PROVE  IInv'
<1>1. c.at = "given up" /\ calls' = calls \ {c} /\ UNCHANGED <<srv, m, fetches>>
  BY DEF Cancelled
<1>2. Awaited' = Awaited
  BY <1>1 DEF Awaited
<1> QED
  BY <1>1, <1>2 DEF IInv, FieldsOK, DialogsOK, CallsOK, VersionsOK, Fresh

(* The reply to the awaited call: none is awaited any more. *)
LEMMA NoneAwaited ==
    ASSUME IInv, NEW c \in Awaited, NEW more,
           calls' = (calls \ {c}) \cup more, \A d \in more : d.at = "given up"
    PROVE  Awaited' = {}
<1>1. Awaited \ {c} = {}
  BY DEF IInv, CallsOK
<1>2. Awaited' = Awaited \ {c}
  BY DEF Awaited
<1> QED
  BY <1>1, <1>2

LEMMA ActionDoneKeeps ==
    ASSUME IInv, NEW c \in calls, actionDone(c)
    PROVE  IInv'
<1>1. c.at = "ok" /\ calls' = calls \ {c} /\ UNCHANGED srv
  BY DEF actionDone
<1>2. /\ m' = [m EXCEPT !.busy = FALSE, !.mode = "list", !.need = Max({@, c.ver}),
                        !.detailIf = 0, !.confirm = NoConfirm, !.form = NoForm]
      /\ fetches' = {[f EXCEPT !.stale = TRUE] : f \in fetches} \cup {Fetch}
  BY DEF actionDone, beginFetch
<1>3. DOMAIN m = Fields /\ DOMAIN m.form = {"create", "edit", "title", "options"}
  BY DEF IInv, FieldsOK
<1>4. /\ DOMAIN m' = Fields /\ m'.busy = FALSE /\ m'.need = Max({m.need, c.ver})
      /\ m'.confirm = NoConfirm /\ m'.form = NoForm /\ m'.seen = m.seen
  BY <1>2, <1>3 DEF Fields
<1>5. DialogsOK' /\ DOMAIN m'.form = DOMAIN m.form
  BY <1>3, <1>4 DEF DialogsOK, NoConfirm, NoForm
<1>6. CallsOK'
  <2>1. Awaited' = {}
    <3> PICK more : more = {}
      OBVIOUS
    <3>1. c \in Awaited /\ calls' = (calls \ {c}) \cup more
      BY <1>1 DEF Awaited
    <3>2. \A d \in more : d.at = "given up"
      OBVIOUS
    <3> QED
      BY <3>1, <3>2, NoneAwaited
  <2> QED
    BY <1>4, <2>1 DEF CallsOK
<1>7. m'.need \in 0..srv.ver
  <2>1. m.need \in 0..srv.ver /\ c.ver \in 0..srv.ver /\ srv.ver \in Nat
    BY DEF IInv, VersionsOK
  <2>2. Max({m.need, c.ver}) \in {m.need, c.ver}
    BY <2>1 DEF Max
  <2> QED
    BY <1>4, <2>1, <2>2
<1> QED
  BY <1>1, <1>2, <1>4, <1>5, <1>6, <1>7, FetchingKeeps

LEMMA ActionFailsKeeps ==
    ASSUME IInv, NEW c \in calls, actionDoneError(c) \/ actionTimeout(c)
    PROVE  IInv'
<1>1. DOMAIN m = Fields /\ DOMAIN c = {"op", "target", "at", "ver"}
  BY DEF IInv, FieldsOK
<1>2. PICK more : /\ calls' = (calls \ {c}) \cup more
                  /\ more \in {{}, {[c EXCEPT !.at = "given up"]}}
  BY DEF actionDoneError, actionTimeout
<1>3. \A d \in more : d.at = "given up" /\ d.ver = c.ver /\ DOMAIN d = DOMAIN c
  BY <1>1, <1>2
<1>4. c \in Awaited /\ m' = [m EXCEPT !.busy = FALSE] /\ UNCHANGED <<srv, fetches>>
  BY DEF actionDoneError, actionTimeout, Awaited
<1>5. Awaited' = {}
  BY <1>2, <1>3, <1>4, NoneAwaited
<1>6. /\ DOMAIN m' = Fields /\ m'.form = m.form /\ m'.confirm = m.confirm
      /\ m'.busy = FALSE /\ m'.seen = m.seen /\ m'.need = m.need
  BY <1>1, <1>4 DEF Fields
<1>7. CallsOK'
  BY <1>5, <1>6 DEF CallsOK
<1>8. VersionsOK'
  BY <1>2, <1>3, <1>4, <1>6 DEF IInv, VersionsOK, Fresh
<1>9. FieldsOK' /\ DialogsOK'
  BY <1>1, <1>2, <1>3, <1>4, <1>6 DEF IInv, FieldsOK, DialogsOK
<1> QED
  BY <1>7, <1>8, <1>9 DEF IInv

LEMMA ClientConfKeeps ==
    ASSUME IInv, NEW c \in confs, clientConfMsg(c)
    PROVE  IInv'
<1>1. /\ DOMAIN m = Fields /\ DOMAIN m.form = {"create", "edit", "title", "options"}
      /\ DialogsOK
  BY DEF IInv, FieldsOK
<1>2. Turns
  <2>1. CASE m' = m
    BY <1>1, <2>1 DEF Turns, DialogsOK
  <2>2. CASE m' = [m EXCEPT !.mode = "clientConf", !.detailIf = 0,
                            !.confirm = NoConfirm, !.form = NoForm]
    BY <1>1, <2>2 DEF Turns, DialogsOK, Fields, NoConfirm, NoForm
  <2> QED
    BY <2>1, <2>2 DEF clientConfMsg
<1> QED
  BY <1>2, TurningKeeps DEF clientConfMsg

LEMMA TickKeeps == IInv /\ tickMsg => IInv'
<1> SUFFICES ASSUME IInv, tickMsg PROVE IInv'
  OBVIOUS
<1>1. m' = m /\ UNCHANGED <<srv, calls>>
  BY DEF tickMsg, beginFetch
<1>2. DOMAIN m' = Fields /\ DOMAIN m'.form = DOMAIN m.form /\ DialogsOK' /\ CallsOK'
      /\ m'.seen = m.seen /\ m'.need \in 0..srv.ver
  BY <1>1 DEF IInv, FieldsOK, DialogsOK, CallsOK, Awaited, VersionsOK
<1>3. CASE UNCHANGED fetches
  BY <1>1, <1>2, <1>3 DEF IInv, FieldsOK, VersionsOK, Fresh
<1>4. CASE fetches' = {[f EXCEPT !.stale = TRUE] : f \in fetches} \cup {Fetch}
  BY <1>1, <1>2, <1>4, FetchingKeeps
<1> QED
  BY <1>3, <1>4 DEF tickMsg, beginFetch
-----------------------------------------------------------------------------
LEMMA RowKeysKeep == IInv /\ (IfaceKey \/ PeerKey) => IInv'
<1> SUFFICES ASSUME IInv, IfaceKey \/ PeerKey PROVE IInv'
  OBVIOUS
<1>1. ASSUME NEW i \in Iface,
             Touch(OfIface(i)) \/ DeleteKey(OfIface(i)) \/ openIfaceEdit(i)
      PROVE  IInv'
  BY <1>1, RowKeyKeeps
<1>2. ASSUME NEW p \in Peer,
             \/ Touch(OfPeer(p)) \/ DeleteKey(OfPeer(p)) \/ openPeerEdit(p)
             \/ doFetchClientConf(p)
      PROVE  IInv'
  BY <1>2, RowKeyKeeps
<1> QED
  BY <1>1, <1>2 DEF IfaceKey, PeerKey

LEMMA ReplyKeeps == IInv /\ Reply => IInv'
<1>1. ASSUME IInv, NEW f \in fetches, Answer(f) \/ dataMsg(f) \/ dataMsgError(f) PROVE IInv'
  BY <1>1, AnswerKeeps, DataKeeps
<1>2. ASSUME IInv, NEW c \in calls,
             Serve(c) \/ Cancelled(c) \/ actionDone(c) \/ actionDoneError(c) \/ actionTimeout(c)
      PROVE  IInv'
  BY <1>2, ServeKeeps, CancelledKeeps, ActionDoneKeeps, ActionFailsKeeps
<1>3. ASSUME IInv, NEW c \in confs, clientConfMsg(c) PROVE IInv'
  BY <1>3, ClientConfKeeps
<1> QED
  BY <1>1, <1>2, <1>3 DEF Reply

LEMMA StepKeeps == IInv /\ [Next]_vars => IInv'
<1> SUFFICES ASSUME IInv, [Next]_vars PROVE IInv'
  OBVIOUS
<1>1. CASE UNCHANGED vars
  <2>1. Turns
    BY <1>1 DEF IInv, FieldsOK, Turns, DialogsOK, vars
  <2> QED
    BY <1>1, <2>1, TurningKeeps DEF vars
<1>2. ASSUME NEW op, NEW t, OtherEdit(op, t) PROVE IInv'
  BY <1>2, OtherEditKeeps
<1> QED
  BY <1>1, <1>2, ListKeyKeeps, RowKeysKeep, FormKeyKeeps, PageKeyKeeps, TickKeeps, ReplyKeeps
     DEF Next

LEMMA SpecIInv == Spec => []IInv
BY StartsIn, StepKeeps, PTL DEF Spec

(* A screen waits for one call at most, and is busy exactly while it does:  *)
(* keys pressed before the reply, replies after a timeout and the daemon    *)
(* executing a call that was given up do not break the pairing.             *)
THEOREM OneCallAwaited == Spec => []OneCallAtATime
<1>1. IInv => OneCallAtATime
  <2> SUFFICES ASSUME IInv PROVE OneCallAtATime
    OBVIOUS
  <2>1. Awaited = {} \/ \E c \in Awaited : Awaited = {c}
    BY DEF IInv, CallsOK
  <2>2. Cardinality(Awaited) <= 1
    BY <2>1, FS_EmptySet, FS_Singleton
  <2>3. m.busy <=> Awaited # {}
    BY DEF IInv, CallsOK
  <2> QED
    BY <2>2, <2>3 DEF OneCallAtATime, Awaited
<1> QED
  BY <1>1, SpecIInv, PTL
-----------------------------------------------------------------------------
(* The order of what is shown *)

NotOlder == m'.seen >= m.seen /\ (m'.seen # m.seen => m'.seen >= m.need)

(* Only the reply of the newest fetch changes what is shown. *)
LEMMA SeenStays == IInv /\ m'.seen = m.seen => NotOlder
BY DEF IInv, VersionsOK, NotOlder

LEMMA KeysShowNothing ==
    IInv /\ (ListKey \/ IfaceKey \/ PeerKey \/ FormKey \/ PageKey) => m'.seen = m.seen
<1> SUFFICES ASSUME IInv, ListKey \/ IfaceKey \/ PeerKey \/ FormKey \/ PageKey
             PROVE  m'.seen = m.seen
  OBVIOUS
<1>1. DOMAIN m = Fields
  BY DEF IInv, FieldsOK
<1> USE DEF Shows, Fields
<1>2. CASE ListKey
  BY <1>1, <1>2 DEF ListKey, SwitchTab, Down, Up, PageDown, PageUp, RowPanic, Refresh, beginFetch,
                    ReconcileKey, startMutate, EnterIface, EnterPeer
<1>3. CASE IfaceKey \/ PeerKey
  BY <1>1, <1>3 DEF IfaceKey, PeerKey, Touch, startMutate, DeleteKey, openIfaceEdit,
                    openPeerEdit, doFetchClientConf
<1>4. CASE FormKey
  <2>1. CASE openIfaceCreate \/ CancelForm
    BY <1>1, <2>1 DEF openIfaceCreate, CancelForm
  <2>2. CASE openPeerCreate
    BY <1>1, <2>2 DEF openPeerCreate
  <2>3. CASE submitIfaceForm \/ submitPeerForm
    BY <1>1, <2>3 DEF submitIfaceForm, submitPeerForm, startMutate
  <2>4. ASSUME NEW i \in Iface, cycleSelect(i) PROVE m'.seen = m.seen
    BY <1>1, <2>4 DEF cycleSelect
  <2> QED
    BY <1>4, <2>1, <2>2, <2>3, <2>4 DEF FormKey
<1>5. CASE PageKey
  <2>1. CASE handleConfirmYes
    BY <1>1, <2>1 DEF handleConfirmYes, startMutate
  <2>2. CASE LeaveIface \/ LeavePeer \/ LeaveConf \/ handleConfirmNo \/ Quit
    BY <1>1, <2>2 DEF LeaveIface, LeavePeer, LeaveConf, handleConfirmNo, Quit
  <2> QED
    BY <1>5, <2>1, <2>2 DEF PageKey
<1> QED
  BY <1>2, <1>3, <1>4, <1>5

LEMMA ReplyNotOlder == IInv /\ Reply => NotOlder
<1> SUFFICES ASSUME IInv, Reply PROVE NotOlder
  OBVIOUS
<1>1. DOMAIN m = Fields
  BY DEF IInv, FieldsOK
<1>2. ASSUME NEW f \in fetches, dataMsg(f) PROVE NotOlder
  <2>1. CASE m' = m
    BY <2>1, SeenStays
  <2>2. CASE f.at = "done" /\ ~f.stale /\ m' = withData(f)
    <3>1. m'.seen = f.ver
      BY <1>1, <2>2 DEF withData, Fields
    <3>2. f \in Fresh
      BY <2>2 DEF Fresh
    <3>3. f.ver \in 0..srv.ver /\ m.seen <= f.ver /\ m.need <= f.ver
      BY <2>2, <3>2 DEF IInv, VersionsOK
    <3>4. m.seen \in Int /\ m.need \in Int
      BY DEF IInv, VersionsOK
    <3> QED
      BY <3>1, <3>3, <3>4 DEF NotOlder
  <2> QED
    BY <1>2, <2>1, <2>2 DEF dataMsg
<1>3. ASSUME NEW f \in fetches, Answer(f) \/ dataMsgError(f) PROVE NotOlder
  BY <1>3, SeenStays DEF Answer, dataMsgError
<1>4. ASSUME NEW c \in calls, Serve(c) \/ Cancelled(c) PROVE NotOlder
  BY <1>4, SeenStays DEF Serve, Cancelled
<1>5. ASSUME NEW c \in calls, actionDone(c) \/ actionDoneError(c) \/ actionTimeout(c)
      PROVE  NotOlder
  <2>1. m'.seen = m.seen
    BY <1>1, <1>5 DEF actionDone, beginFetch, actionDoneError, actionTimeout, Fields
  <2> QED
    BY <2>1, SeenStays
<1>6. ASSUME NEW c \in confs, clientConfMsg(c) PROVE NotOlder
  <2>1. m'.seen = m.seen
    BY <1>1, <1>6 DEF clientConfMsg, Fields
  <2> QED
    BY <2>1, SeenStays
<1> QED
  BY <1>2, <1>3, <1>4, <1>5, <1>6 DEF Reply

(* The lists never go back to an earlier state of the daemon, and show      *)
(* nothing read before an action that was reported done, in whatever order  *)
(* the replies of any number of fetches arrive.                             *)
THEOREM ScreenNeverOlder == Spec => NeverShowsOlder
<1>1. IInv /\ [Next]_vars => [NotOlder]_vars
  <2> SUFFICES ASSUME IInv, Next PROVE NotOlder
    BY DEF vars
  <2>1. CASE ListKey \/ IfaceKey \/ PeerKey \/ FormKey \/ PageKey
    BY <2>1, KeysShowNothing, SeenStays
  <2>2. CASE tickMsg
    BY <2>2, SeenStays DEF tickMsg, beginFetch
  <2>3. CASE Reply
    BY <2>3, ReplyNotOlder
  <2>4. ASSUME NEW op, NEW t, OtherEdit(op, t) PROVE NotOlder
    BY <2>4, SeenStays DEF OtherEdit
  <2> QED
    BY <2>1, <2>2, <2>3, <2>4 DEF Next
<1>2. Spec => [][NotOlder]_vars
  BY <1>1, SpecIInv, PTL DEF Spec
<1> QED
  BY <1>2 DEF NeverShowsOlder, NotOlder
-----------------------------------------------------------------------------
(* What a call is about *)

AboutTheShown(c) ==
    CASE c.op \in {"createIface", "reconcile"} -> TRUE
      [] c.op = "createPeer" -> OfIface(Home[c.target[2]]) \in Shown
      [] OTHER -> c.target \in Shown

NewCallsShown == \A c \in calls' \ calls : c.at = "sent" => AboutTheShown(c)

LEMMA StartedCall ==
    ASSUME NEW op, NEW target, calls' = calls \cup {Call(op, target)},
           AboutTheShown(Call(op, target))
    PROVE  NewCallsShown
BY DEF NewCallsShown

LEMMA NoNewCall == UNCHANGED calls => NewCallsShown
BY DEF NewCallsShown

(* Calls that touch or delete a row. *)
LEMMA RowCallShown ==
    ASSUME NEW op \in {"touch", "delete"}, NEW target \in Shown
    PROVE  AboutTheShown(Call(op, target))
BY DEF AboutTheShown, Call

LEMMA RowKeyShown ==
    ASSUME NEW subject \in Shown, Touch(subject)
    PROVE  NewCallsShown
<1>1. calls' = calls \cup {Call("touch", subject)}
  BY DEF Touch, startMutate
<1> QED
  BY <1>1, RowCallShown, StartedCall

LEMMA RowKeysShown == IfaceKey \/ PeerKey => NewCallsShown
<1>1. ASSUME NEW i \in Iface, OnIface(i),
             Touch(OfIface(i)) \/ DeleteKey(OfIface(i)) \/ openIfaceEdit(i)
      PROVE  NewCallsShown
  <2>1. OfIface(i) \in Shown
    <3>1. CASE m.mode = "list" /\ m.tab = "interfaces" /\ i \in SelectedIface
      <4>1. Shown = {OfIface(j) : j \in SelectedIface}
        BY <3>1 DEF Shown, InForm
      <4> QED
        BY <3>1, <4>1
    <3>2. CASE m.mode = "ifaceDetail" /\ m.detailIf = i
      <4>1. Shown = {OfIface(m.detailIf)}
        BY <3>2 DEF Shown, InForm
      <4> QED
        BY <3>2, <4>1
    <3> QED
      BY <1>1, <3>1, <3>2 DEF OnIface, Listing
  <2>2. CASE Touch(OfIface(i))
    BY <2>1, <2>2, RowKeyShown
  <2>3. CASE DeleteKey(OfIface(i)) \/ openIfaceEdit(i)
    BY <2>3, NoNewCall DEF DeleteKey, openIfaceEdit, Shows
  <2> QED
    BY <1>1, <2>2, <2>3
<1>2. ASSUME NEW p \in Peer, OnPeer(p),
             \/ Touch(OfPeer(p)) \/ DeleteKey(OfPeer(p)) \/ openPeerEdit(p)
             \/ doFetchClientConf(p)
      PROVE  NewCallsShown
  <2>1. OfPeer(p) \in Shown
    <3>1. CASE m.mode = "list" /\ m.tab = "peers" /\ p \in SelectedPeer
      <4>1. Shown = {OfPeer(j) : j \in SelectedPeer}
        BY <3>1 DEF Shown, InForm
      <4> QED
        BY <3>1, <4>1
    <3>2. CASE m.mode = "peerDetail" /\ m.detailPeer = p
      <4>1. Shown = {OfPeer(m.detailPeer)}
        BY <3>2 DEF Shown, InForm
      <4> QED
        BY <3>2, <4>1
    <3> QED
      BY <1>2, <3>1, <3>2 DEF OnPeer, Listing
  <2>2. CASE Touch(OfPeer(p))
    BY <2>1, <2>2, RowKeyShown
  <2>3. CASE DeleteKey(OfPeer(p)) \/ openPeerEdit(p) \/ doFetchClientConf(p)
    BY <2>3, NoNewCall DEF DeleteKey, openPeerEdit, doFetchClientConf, Shows
  <2> QED
    BY <1>2, <2>2, <2>3
<1> QED
  BY <1>1, <1>2 DEF IfaceKey, PeerKey

LEMMA FormKeyShown == IInv /\ FormKey => NewCallsShown
<1> SUFFICES ASSUME IInv, FormKey PROVE NewCallsShown
  OBVIOUS
<1>1. CASE openIfaceCreate \/ openPeerCreate \/ CancelForm
  BY <1>1, NoNewCall DEF openIfaceCreate, openPeerCreate, CancelForm, Shows
<1>2. ASSUME NEW i \in Iface, cycleSelect(i) PROVE NewCallsShown
  BY <1>2, NoNewCall DEF cycleSelect, Shows
<1>3. ASSUME m.mode \in {"ifaceForm", "peerForm"} PROVE Shown = {m.form.title}
  BY <1>3 DEF Shown, InForm
<1>4. ASSUME m.mode \in {"ifaceForm", "peerForm"}, ~m.form.create,
             startMutate(m, "touch", m.form.edit)
      PROVE  NewCallsShown
  <2> PICK target : target = m.form.edit
    OBVIOUS
  <2>1. target \in Shown
    BY <1>3, <1>4 DEF IInv, DialogsOK
  <2>2. calls' = calls \cup {Call("touch", target)}
    BY <1>4 DEF startMutate
  <2> QED
    BY <2>1, <2>2, RowCallShown, StartedCall
<1>5. CASE submitIfaceForm
  <2>1. ASSUME NEW i, startMutate(m, "createIface", OfIface(i)) PROVE NewCallsShown
    <3>1. calls' = calls \cup {Call("createIface", OfIface(i))}
      BY <2>1 DEF startMutate
    <3>2. AboutTheShown(Call("createIface", OfIface(i)))
      BY DEF AboutTheShown, Call
    <3> QED
      BY <3>1, <3>2, StartedCall
  <2> QED
    BY <1>4, <1>5, <2>1 DEF submitIfaceForm
<1>6. CASE submitPeerForm
  <2>1. ASSUME NEW p, m.mode = "peerForm", m.form.title = OfIface(Home[p]),
               startMutate(m, "createPeer", OfPeer(p))
        PROVE  NewCallsShown
    <3>1. calls' = calls \cup {Call("createPeer", OfPeer(p))}
      BY <2>1 DEF startMutate
    <3>2. OfPeer(p)[2] = p
      BY DEF OfPeer
    <3>3. OfIface(Home[p]) \in Shown
      BY <1>3, <2>1
    <3>4. AboutTheShown(Call("createPeer", OfPeer(p)))
      BY <3>2, <3>3 DEF AboutTheShown, Call
    <3> QED
      BY <3>1, <3>4, StartedCall
  <2> QED
    BY <1>4, <1>6, <2>1 DEF submitPeerForm
<1> QED
  BY <1>1, <1>2, <1>5, <1>6 DEF FormKey

LEMMA PageKeyShown == IInv /\ PageKey => NewCallsShown
<1> SUFFICES ASSUME IInv, PageKey PROVE NewCallsShown
  OBVIOUS
<1>1. CASE LeaveIface \/ LeavePeer \/ LeaveConf \/ handleConfirmNo \/ Quit
  BY <1>1, NoNewCall DEF LeaveIface, LeavePeer, LeaveConf, handleConfirmNo, Quit, Shows
<1>2. CASE handleConfirmYes
  <2> PICK target : target = m.confirm.arg
    OBVIOUS
  <2>1. target \in Shown
    <3>1. Shown = {m.confirm.text}
      BY <1>2 DEF handleConfirmYes, Shown, InForm
    <3> QED
      BY <3>1 DEF IInv, DialogsOK
  <2>2. calls' = calls \cup {Call("delete", target)}
    BY <1>2 DEF handleConfirmYes, startMutate
  <2> QED
    BY <2>1, <2>2, RowCallShown, StartedCall
<1> QED
  BY <1>1, <1>2 DEF PageKey

LEMMA ReplyShown == IInv /\ Reply => NewCallsShown
<1> SUFFICES ASSUME IInv, Reply PROVE NewCallsShown
  OBVIOUS
<1>1. ASSUME NEW f \in fetches, Answer(f) \/ dataMsg(f) \/ dataMsgError(f)
      PROVE  NewCallsShown
  BY <1>1, NoNewCall DEF Answer, dataMsg, dataMsgError
<1>2. ASSUME NEW c \in calls, Cancelled(c) \/ actionDone(c) \/ actionDoneError(c)
      PROVE  NewCallsShown
  BY <1>2 DEF Cancelled, actionDone, actionDoneError, NewCallsShown
<1>3. ASSUME NEW c \in calls, Serve(c) \/ actionTimeout(c) PROVE NewCallsShown
  <2>1. DOMAIN c = {"op", "target", "at", "ver"}
    BY DEF IInv, FieldsOK
  <2>2. \A d \in calls' \ calls : d.at # "sent"
    <3>1. PICK a, more : /\ calls' = (calls \ {c}) \cup more /\ more \in {{}, {a}}
                         /\ a.at # "sent"
      <4>1. CASE Serve(c)
        <5> PICK a : a = [c EXCEPT !.at = IF Accepts(c.op, c.target) THEN "ok" ELSE "error",
                                   !.ver = IF Accepts(c.op, c.target)
                                           THEN Changed(c.op, c.target).ver ELSE 0]
          OBVIOUS
        <5>1. a.at # "sent"
          BY <2>1
        <5>2. calls' = (calls \ {c}) \cup (IF c.at = "sent" THEN {a} ELSE {})
          BY <4>1 DEF Serve
        <5> QED
          BY <5>1, <5>2
      <4>2. CASE actionTimeout(c)
        <5> PICK a : a = [c EXCEPT !.at = "given up"]
          OBVIOUS
        <5>1. a.at # "sent"
          BY <2>1
        <5>2. calls' = (calls \ {c}) \cup (IF c.at = "sent" THEN {a} ELSE {})
          BY <4>2 DEF actionTimeout
        <5> QED
          BY <5>1, <5>2
      <4> QED
        BY <1>3, <4>1, <4>2
    <3> QED
      BY <3>1
  <2> QED
    BY <2>2 DEF NewCallsShown
<1>4. ASSUME NEW c \in confs, clientConfMsg(c) PROVE NewCallsShown
  BY <1>4, NoNewCall DEF clientConfMsg
<1> QED
  BY <1>1, <1>2, <1>3, <1>4 DEF Reply

LEMMA ListKeyShown == ListKey => NewCallsShown
<1> SUFFICES ASSUME ListKey PROVE NewCallsShown
  OBVIOUS
<1>1. CASE ReconcileKey
  <2>1. calls' = calls \cup {Call("reconcile", <<"all", 0>>)}
    BY <1>1 DEF ReconcileKey, startMutate
  <2>2. AboutTheShown(Call("reconcile", <<"all", 0>>))
    BY DEF AboutTheShown, Call
  <2> QED
    BY <2>1, <2>2, StartedCall
<1>2. CASE ~ReconcileKey
  BY <1>2, NoNewCall DEF ListKey, SwitchTab, Down, Up, PageDown, PageUp, RowPanic, Refresh,
                         EnterIface, EnterPeer, Shows
<1> QED
  BY <1>1, <1>2

(* Whatever the replies have done to the lists, pages and forms under the   *)
(* cursor, a call is about the row the screen names when the key is         *)
(* pressed: a prompt deletes what it asks about, a form saves what it shows.*)
THEOREM CallsAboutTheShown == Spec => ActsOnTheShown
<1>1. IInv /\ [Next]_vars => [NewCallsShown]_vars
  <2> SUFFICES ASSUME IInv, Next PROVE NewCallsShown
    BY DEF vars
  <2>1. CASE tickMsg
    BY <2>1, NoNewCall DEF tickMsg
  <2>2. ASSUME NEW op, NEW t, OtherEdit(op, t) PROVE NewCallsShown
    BY <2>2, NoNewCall DEF OtherEdit
  <2> QED
    BY <2>1, <2>2, ListKeyShown, RowKeysShown, FormKeyShown, PageKeyShown, ReplyShown DEF Next
<1>2. Spec => [][NewCallsShown]_vars
  BY <1>1, SpecIInv, PTL DEF Spec
<1> QED
  BY <1>2 DEF ActsOnTheShown, NewCallsShown, AboutTheShown
-----------------------------------------------------------------------------
(* What the lists show *)

LEMMA MaxOfTwo ==
    ASSUME NEW a \in Int, NEW b \in Int
    PROVE  Max({a, b}) \in {a, b} /\ Max({a, b}) >= a /\ Max({a, b}) >= b
BY DEF Max

LEMMA MinOfTwo ==
    ASSUME NEW a \in Int, NEW b \in Int
    PROVE  Min({a, b}) \in {a, b} /\ Min({a, b}) <= a /\ Min({a, b}) <= b
BY DEF Min

Before(S, x) == {y \in S : y < x}

(* Of two members the greater has more members before it. *)
LEMMA RankGrows ==
    ASSUME NEW S, IsFiniteSet(S), S \subseteq Nat, NEW x \in S, NEW z \in S, x < z
    PROVE  Cardinality(Before(S, x)) < Cardinality(Before(S, z))
<1>1. Before(S, x) \in SUBSET S /\ Before(S, z) \in SUBSET S
  BY DEF Before
<1>2. IsFiniteSet(Before(S, x)) /\ IsFiniteSet(Before(S, z))
  BY <1>1, FS_Subset
<1>3. x \notin Before(S, x) /\ Before(S, x) \cup {x} \in SUBSET Before(S, z)
  <2>1. \A y \in S : y \in Int
    OBVIOUS
  <2>2. ~(x < x) /\ \A y \in S : y < x => y < z
    BY <2>1
  <2> QED
    BY <2>2 DEF Before
<1>4. Cardinality(Before(S, x) \cup {x}) = Cardinality(Before(S, x)) + 1
  BY <1>2, <1>3, FS_AddElement
<1>5. Cardinality(Before(S, x) \cup {x}) <= Cardinality(Before(S, z))
  BY <1>2, <1>3, FS_Subset
<1>6. Cardinality(Before(S, x)) \in Nat /\ Cardinality(Before(S, z)) \in Nat
  BY <1>2, FS_CardinalityType
<1> QED
  BY <1>4, <1>5, <1>6

(* Every place in the list has a row: there are as many places as members,  *)
(* and no two members have the same place.                                  *)
LEMMA EveryPlaceTaken ==
    ASSUME NEW S, IsFiniteSet(S), S \subseteq Nat, NEW i \in 1..Cardinality(S)
    PROVE  \E x \in S : Cardinality(Before(S, x)) = i - 1
<1> DEFINE place == [x \in S |-> Cardinality(Before(S, x)) + 1]
<1>1. Cardinality(S) \in Nat
  BY FS_CardinalityType
<1>2. \A x \in S : Cardinality(Before(S, x)) \in Nat /\ Cardinality(Before(S, x)) < Cardinality(S)
  <2> TAKE x \in S
  <2>1. Before(S, x) \in SUBSET (S \ {x})
    BY DEF Before
  <2>2. IsFiniteSet(S \ {x}) /\ Cardinality(S \ {x}) = Cardinality(S) - 1
    BY FS_RemoveElement
  <2>3. IsFiniteSet(Before(S, x)) /\ Cardinality(Before(S, x)) <= Cardinality(S \ {x})
    BY <2>1, <2>2, FS_Subset
  <2>4. Cardinality(Before(S, x)) \in Nat
    BY <2>3, FS_CardinalityType
  <2> QED
    BY <1>1, <2>2, <2>3, <2>4
<1>3. place \in [S -> 1..Cardinality(S)]
  BY <1>1, <1>2
<1>4. \A x, z \in S : place[x] = place[z] => x = z
  <2> SUFFICES ASSUME NEW x \in S, NEW z \in S, x # z PROVE place[x] # place[z]
    OBVIOUS
  <2>1. x < z \/ z < x
    OBVIOUS
  <2>2. \/ Cardinality(Before(S, x)) < Cardinality(Before(S, z))
        \/ Cardinality(Before(S, z)) < Cardinality(Before(S, x))
    BY <2>1, RankGrows
  <2> QED
    BY <1>2, <2>2
<1>5. place \in Injection(S, 1..Cardinality(S))
  BY <1>3, <1>4 DEF Injection, IsInjective
<1>6. IsFiniteSet(1..Cardinality(S)) /\ Cardinality(1..Cardinality(S)) = Cardinality(S)
  <2>1. IsFiniteSet(1..Cardinality(S))
        /\ Cardinality(1..Cardinality(S)) = IF 1 > Cardinality(S) THEN 0 ELSE Cardinality(S) - 1 + 1
    BY <1>1, FS_Interval
  <2> QED
    BY <1>1, <2>1
<1>7. place \in Surjection(S, 1..Cardinality(S))
  <2> HIDE DEF place
  <2> QED
    BY <1>5, <1>6, FS_Injection
<1>8. PICK x \in S : place[x] = i
  BY <1>7 DEF Surjection
<1> QED
  BY <1>2, <1>8

(* The list of a set of numbers shows members of the set. *)
LEMMA ListedShows ==
    ASSUME NEW S, IsFiniteSet(S), S \subseteq Nat
    PROVE  Listed(S) \in Seq(S) /\ Len(Listed(S)) = Cardinality(S)
<1>1. Cardinality(S) \in Nat
  BY FS_CardinalityType
<1> DEFINE row(i) == CHOOSE x \in S : Cardinality({y \in S : y < x}) = i - 1
<1>2. \A i \in 1..Cardinality(S) : row(i) \in S
  BY EveryPlaceTaken DEF Before
<1>3. Listed(S) = [i \in 1..Cardinality(S) |-> row(i)]
  BY DEF Listed
<1> HIDE DEF row
<1>4. Listed(S) \in [1..Cardinality(S) -> S]
  BY <1>2, <1>3
<1> QED
  BY <1>1, <1>4

Modes == {"list", "ifaceForm", "peerForm", "ifaceDetail", "peerDetail", "clientConf",
          "confirm", "quit", "panicked"}

(* A screen lists interfaces and peers the daemon may have, and its cursor  *)
(* is on one of the rows, or where it is when there are none.               *)
ScreenOK(mm) ==
    /\ mm.tab \in Tabs /\ mm.mode \in Modes
    /\ mm.ifaces \in Seq(Iface) /\ mm.peers \in Seq(Peer)
    /\ mm.cursor \in -1..Max({0, rowCount(mm) - 1})

CallOK(c) ==
    /\ c.at \in {"sent", "ok", "error", "given up"}
    /\ c.op = "createIface" => c.target[2] \in Iface
    /\ c.op = "createPeer" => c.target[2] \in Peer

FetchOK(f) == f.at \in {"sent", "done"} /\ f.ifaces \subseteq Iface /\ f.peers \subseteq Peer

(* What the daemon has, and what is on its way to it or back. *)
RowsOK ==
    /\ srv.ifaces \subseteq Iface /\ srv.peers \subseteq Peer
    /\ \A f \in fetches : FetchOK(f)
    /\ \A c \in calls : CallOK(c)

LInv == RowsOK /\ ScreenOK(m)

LEMMA ListsStart == Init => LInv
<1> SUFFICES ASSUME Init PROVE LInv
  OBVIOUS
<1>1. RowsOK
  BY DEF Init, RowsOK, FetchOK, Fetch
<1>2. rowCount(m) = 0
  BY DEF Init, rowCount
<1>3. Max({0, rowCount(m) - 1}) >= 0 /\ Max({0, rowCount(m) - 1}) \in Int
  BY <1>2, MaxOfTwo
<1>4. m.tab = "interfaces" /\ m.mode = "list" /\ m.ifaces = <<>> /\ m.peers = <<>> /\ m.cursor = 0
  BY DEF Init
<1>5. m.cursor \in -1..Max({0, rowCount(m) - 1})
  BY <1>3, <1>4
<1>6. m.ifaces \in Seq(Iface) /\ m.peers \in Seq(Peer)
  BY <1>4
<1> QED
  BY <1>1, <1>4, <1>5, <1>6 DEF LInv, ScreenOK, Tabs, Modes

(* The lists and the cursor stay, whatever else the screen turns to. *)
LEMMA ScreenTurns ==
    ASSUME NEW mm, ScreenOK(m), mm.tab = m.tab, mm.ifaces = m.ifaces, mm.peers = m.peers,
           mm.cursor = m.cursor, mm.mode \in Modes
    PROVE  ScreenOK(mm)
<1>1. rowCount(mm) = rowCount(m)
  BY DEF rowCount
<1> QED
  BY <1>1 DEF ScreenOK

(* The cursor moves in a list that stays. *)
LEMMA CursorMoves ==
    ASSUME NEW mm, ScreenOK(m), mm.tab = m.tab, mm.ifaces = m.ifaces, mm.peers = m.peers,
           mm.mode = m.mode, mm.cursor \in -1..Max({0, rowCount(m) - 1})
    PROVE  ScreenOK(mm)
<1>1. rowCount(mm) = rowCount(m)
  BY DEF rowCount
<1> QED
  BY <1>1 DEF ScreenOK

LEMMA RowsCounted ==
    ASSUME NEW mm, mm.ifaces \in Seq(Iface), mm.peers \in Seq(Peer)
    PROVE  rowCount(mm) \in Nat
<1>1. Len(mm.ifaces) \in Nat /\ Len(mm.peers) \in Nat
  OBVIOUS
<1> QED
  BY <1>1 DEF rowCount

(* The last row, or the place of the first when there is none. *)
LEMMA LastRow ==
    ASSUME NEW n \in Nat
    PROVE  Max({0, n - 1}) \in Nat /\ n - 1 <= Max({0, n - 1})
<1>1. n - 1 \in Int
  OBVIOUS
<1>2. Max({0, n - 1}) \in {0, n - 1} /\ Max({0, n - 1}) >= 0 /\ Max({0, n - 1}) >= n - 1
  BY <1>1, MaxOfTwo
<1> QED
  BY <1>1, <1>2

LEMMA ListKeyScreen == IInv /\ LInv /\ ListKey => ScreenOK(m')
<1> SUFFICES ASSUME IInv, LInv, ListKey PROVE ScreenOK(m')
  OBVIOUS
<1>1. DOMAIN m = Fields /\ ScreenOK(m)
  BY DEF IInv, FieldsOK, LInv
<1> PICK n, last : n = rowCount(m) /\ last = Max({0, n - 1})
  OBVIOUS
<1>2. n \in Nat /\ last \in Nat /\ n - 1 <= last
  BY <1>1, RowsCounted, LastRow DEF ScreenOK
<1>3. m.cursor \in -1..last
  BY <1>1 DEF ScreenOK
<1>4. ASSUME NEW t \in Tabs, SwitchTab(t) PROVE ScreenOK(m')
  <2>1. /\ m'.tab = t /\ m'.cursor = 0 /\ m'.ifaces = m.ifaces /\ m'.peers = m.peers
        /\ m'.mode = m.mode
    BY <1>1, <1>4 DEF SwitchTab, Shows, Fields
  <2>2. m'.ifaces \in Seq(Iface) /\ m'.peers \in Seq(Peer) /\ m'.mode \in Modes
    BY <1>1, <2>1 DEF ScreenOK
  <2> PICK mm : mm = m'
    OBVIOUS
  <2>3. rowCount(mm) \in Nat
    BY <2>2, RowsCounted
  <2>4. Max({0, rowCount(mm) - 1}) \in Nat
    BY <2>3, LastRow
  <2>5. mm.cursor \in -1..Max({0, rowCount(mm) - 1})
    BY <2>1, <2>4
  <2> QED
    BY <2>1, <2>2, <2>5 DEF ScreenOK
<1>5. CASE Down \/ Up \/ PageDown \/ PageUp
  <2>1. /\ m'.tab = m.tab /\ m'.ifaces = m.ifaces /\ m'.peers = m.peers /\ m'.mode = m.mode
    BY <1>1, <1>5 DEF Down, Up, PageDown, PageUp, Shows, Fields
  <2>2. m'.cursor \in -1..last
    <3>1. CASE Down
      <4>1. m'.cursor = m.cursor + 1 /\ m.cursor < n - 1
        BY <1>1, <3>1 DEF Down, Shows, Fields
      <4> QED
        BY <1>2, <1>3, <4>1
    <3>2. CASE Up
      <4>1. m'.cursor = m.cursor - 1 /\ m.cursor > 0
        BY <1>1, <3>2 DEF Up, Shows, Fields
      <4> QED
        BY <1>2, <1>3, <4>1
    <3>3. CASE PageDown
      <4>1. m'.cursor = Min({n - 1, m.cursor + 10})
        BY <1>1, <3>3 DEF PageDown, Shows, Fields
      <4>2. n - 1 \in Int /\ m.cursor + 10 \in Int
        BY <1>2, <1>3
      <4>3. /\ m'.cursor \in {n - 1, m.cursor + 10} /\ m'.cursor <= n - 1
        BY <4>1, <4>2, MinOfTwo
      <4> QED
        BY <1>2, <1>3, <4>2, <4>3
    <3>4. CASE PageUp
      <4>1. m'.cursor = Max({0, m.cursor - 10})
        BY <1>1, <3>4 DEF PageUp, Shows, Fields
      <4>2. 0 \in Int /\ m.cursor - 10 \in Int
        BY <1>2, <1>3
      <4>3. /\ m'.cursor \in {0, m.cursor - 10} /\ m'.cursor >= 0
        BY <4>1, <4>2, MaxOfTwo
      <4> QED
        BY <1>2, <1>3, <4>2, <4>3
    <3> QED
      BY <1>5, <3>1, <3>2, <3>3, <3>4
  <2> QED
    BY <1>1, <2>1, <2>2, CursorMoves
<1>6. ASSUME NEW i, RowPanic \/ Refresh \/ ReconcileKey \/ EnterIface(i) \/ EnterPeer(i)
      PROVE  ScreenOK(m')
  <2>1. /\ m'.tab = m.tab /\ m'.ifaces = m.ifaces /\ m'.peers = m.peers /\ m'.cursor = m.cursor
        /\ m'.mode \in {m.mode, "panicked", "ifaceDetail", "peerDetail"}
    BY <1>1, <1>6 DEF RowPanic, Refresh, beginFetch, ReconcileKey, startMutate, EnterIface,
                      EnterPeer, Shows, Fields
  <2>2. m'.mode \in Modes
    BY <1>1, <2>1 DEF ScreenOK, Modes
  <2> QED
    BY <1>1, <2>1, <2>2, ScreenTurns
<1> QED
  BY <1>4, <1>5, <1>6 DEF ListKey

(* What a key other than one of the list's leaves of the screen. *)
SameList ==
    /\ m'.tab = m.tab /\ m'.ifaces = m.ifaces /\ m'.peers = m.peers /\ m'.cursor = m.cursor
    /\ m'.mode \in {m.mode, "list", "ifaceForm", "peerForm", "ifaceDetail", "peerDetail",
                    "clientConf", "confirm", "quit"}

LEMMA SameListScreen == ScreenOK(m) /\ SameList => ScreenOK(m')
<1> SUFFICES ASSUME ScreenOK(m), SameList PROVE ScreenOK(m')
  OBVIOUS
<1>1. m'.mode \in Modes
  BY DEF SameList, ScreenOK, Modes
<1> QED
  BY <1>1, ScreenTurns DEF SameList

LEMMA OtherKeyScreen ==
    IInv /\ LInv /\ (IfaceKey \/ PeerKey \/ FormKey \/ PageKey) => ScreenOK(m')
<1> SUFFICES ASSUME IInv, LInv, IfaceKey \/ PeerKey \/ FormKey \/ PageKey PROVE SameList
  BY SameListScreen DEF LInv
<1>1. DOMAIN m = Fields
  BY DEF IInv, FieldsOK
<1> USE DEF SameList, Shows, Fields
<1>2. CASE IfaceKey \/ PeerKey
  BY <1>1, <1>2 DEF IfaceKey, PeerKey, Touch, startMutate, DeleteKey, openIfaceEdit,
                    openPeerEdit, doFetchClientConf
<1>3. CASE FormKey
  <2>1. CASE openIfaceCreate \/ CancelForm
    BY <1>1, <2>1 DEF openIfaceCreate, CancelForm
  <2>2. CASE openPeerCreate
    BY <1>1, <2>2 DEF openPeerCreate
  <2>3. CASE submitIfaceForm \/ submitPeerForm
    BY <1>1, <2>3 DEF submitIfaceForm, submitPeerForm, startMutate
  <2>4. ASSUME NEW i \in Iface, cycleSelect(i) PROVE SameList
    BY <1>1, <2>4 DEF cycleSelect
  <2> QED
    BY <1>3, <2>1, <2>2, <2>3, <2>4 DEF FormKey
<1>4. CASE PageKey
  <2>1. CASE handleConfirmYes
    BY <1>1, <2>1 DEF handleConfirmYes, startMutate
  <2>2. CASE LeaveIface \/ LeavePeer \/ LeaveConf \/ handleConfirmNo \/ Quit
    BY <1>1, <2>2 DEF LeaveIface, LeavePeer, LeaveConf, handleConfirmNo, Quit
  <2> QED
    BY <1>4, <2>1, <2>2 DEF PageKey
<1> QED
  BY <1>2, <1>3, <1>4

(* The reply replaces both lists and keeps the cursor on a row. *)
LEMMA DataScreen ==
    ASSUME IInv, LInv, NEW f \in fetches
    PROVE  ScreenOK(withData(f))
<1>1. DOMAIN m = Fields /\ ScreenOK(m) /\ FetchOK(f)
  BY DEF IInv, FieldsOK, LInv, RowsOK
<1>2. /\ Listed(f.ifaces) \in Seq(Iface) /\ Listed(f.peers) \in Seq(Peer)
  <2>1. /\ f.ifaces \in SUBSET Iface /\ f.peers \in SUBSET Peer
        /\ Iface \subseteq Nat /\ Peer \subseteq Nat /\ IsFiniteSet(Iface) /\ IsFiniteSet(Peer)
    BY <1>1, IdsAssumption DEF FetchOK
  <2>2. IsFiniteSet(f.ifaces) /\ IsFiniteSet(f.peers)
    BY <2>1, FS_Subset
  <2>3. Listed(f.ifaces) \in Seq(f.ifaces) /\ Listed(f.peers) \in Seq(f.peers)
    BY <2>1, <2>2, ListedShows
  <2> QED
    BY <2>1, <2>3
<1> PICK new : new = [m EXCEPT !.ifaces = Listed(f.ifaces), !.seen = f.ver,
                               !.peers = Listed(f.peers)]
  OBVIOUS
<1>3. /\ new.tab = m.tab /\ new.mode = m.mode /\ new.cursor = m.cursor
      /\ new.ifaces \in Seq(Iface) /\ new.peers \in Seq(Peer) /\ DOMAIN new = Fields
  BY <1>1, <1>2 DEF Fields
<1> PICK mm : mm = withData(f)
  OBVIOUS
<1> PICK n : n = rowCount(new)
  OBVIOUS
<1>4. /\ mm.tab = new.tab /\ mm.mode = new.mode
      /\ mm.ifaces = new.ifaces /\ mm.peers = new.peers
      /\ mm.cursor = IF m.cursor >= n THEN Max({0, n - 1}) ELSE m.cursor
  BY <1>3 DEF withData, Fields
<1>5. rowCount(mm) = n
  BY <1>4 DEF rowCount
<1>6. n \in Nat
  BY <1>3, RowsCounted
<1>7. Max({0, n - 1}) \in Nat /\ n - 1 <= Max({0, n - 1})
  BY <1>6, LastRow
<1>8. m.cursor \in Int /\ m.cursor >= -1
  <2>1. rowCount(m) \in Nat
    BY <1>1, RowsCounted DEF ScreenOK
  <2>2. Max({0, rowCount(m) - 1}) \in Nat
    BY <2>1, LastRow
  <2> QED
    BY <1>1, <2>2 DEF ScreenOK
<1>9. mm.cursor \in -1..Max({0, n - 1})
  <2> PICK last : last = Max({0, n - 1})
    OBVIOUS
  <2>1. CASE m.cursor >= n
    BY <1>4, <1>7, <2>1
  <2>2. CASE ~(m.cursor >= n)
    BY <1>4, <1>6, <1>7, <1>8, <2>2
  <2> QED
    BY <2>1, <2>2
<1> QED
  BY <1>1, <1>3, <1>4, <1>5, <1>9 DEF ScreenOK

LEMMA ReplyScreen == IInv /\ LInv /\ (Reply \/ tickMsg) => ScreenOK(m')
<1> SUFFICES ASSUME IInv, LInv, Reply \/ tickMsg PROVE ScreenOK(m')
  OBVIOUS
<1>1. DOMAIN m = Fields /\ ScreenOK(m)
  BY DEF IInv, FieldsOK, LInv
<1>2. CASE m' = m
  BY <1>1, <1>2
<1>3. ASSUME NEW f \in fetches, m' = withData(f) PROVE ScreenOK(m')
  BY <1>3, DataScreen
<1>4. ASSUME NEW c \in calls, actionDone(c) \/ actionDoneError(c) \/ actionTimeout(c)
      PROVE  ScreenOK(m')
  <2>1. SameList
    BY <1>1, <1>4 DEF actionDone, beginFetch, actionDoneError, actionTimeout, SameList, Fields
  <2> QED
    BY <1>1, <2>1, SameListScreen
<1>5. ASSUME NEW c \in confs, clientConfMsg(c) PROVE ScreenOK(m')
  <2>1. SameList
    BY <1>1, <1>5 DEF clientConfMsg, SameList, Fields
  <2> QED
    BY <1>1, <2>1, SameListScreen
<1> QED
  BY <1>2, <1>3, <1>4, <1>5 DEF Reply, tickMsg, beginFetch, Answer, dataMsg, dataMsgError,
                                Serve, Cancelled

(* A call to create something names what may be created. *)
CreatesOK(op, target) ==
    /\ op = "createIface" => target[2] \in Iface
    /\ op = "createPeer" => target[2] \in Peer

LEMMA RowsStay == RowsOK /\ UNCHANGED <<srv, fetches, calls>> => RowsOK'
BY DEF RowsOK

LEMMA StartedRows ==
    ASSUME RowsOK, NEW op, NEW target, CreatesOK(op, target),
           calls' = calls \cup {Call(op, target)}, UNCHANGED <<srv, fetches>>
    PROVE  RowsOK'
<1>1. CallOK(Call(op, target))
  BY DEF CallOK, Call, CreatesOK
<1> QED
  BY <1>1 DEF RowsOK

LEMMA FetchingRows ==
    ASSUME IInv, RowsOK, calls' \subseteq calls, UNCHANGED srv,
           fetches' = {[f EXCEPT !.stale = TRUE] : f \in fetches} \cup {Fetch}
    PROVE  RowsOK'
<1>1. FetchOK(Fetch)
  BY DEF FetchOK, Fetch
<1>2. ASSUME NEW f \in fetches PROVE FetchOK([f EXCEPT !.stale = TRUE])
  <2>1. DOMAIN f = {"stale", "at", "ifaces", "peers", "ver"} /\ FetchOK(f)
    BY DEF IInv, FieldsOK, RowsOK
  <2> QED
    BY <2>1 DEF FetchOK
<1>3. \A f \in fetches' : FetchOK(f)
  BY <1>1, <1>2
<1> QED
  BY <1>3 DEF RowsOK

LEMMA KeyRows ==
    IInv /\ RowsOK /\ (ListKey \/ IfaceKey \/ PeerKey \/ FormKey \/ PageKey \/ tickMsg) => RowsOK'
<1> SUFFICES ASSUME IInv, RowsOK,
                    ListKey \/ IfaceKey \/ PeerKey \/ FormKey \/ PageKey \/ tickMsg
             PROVE  RowsOK'
  OBVIOUS
<1>1. ASSUME NEW mm, NEW op, NEW target, startMutate(mm, op, target), CreatesOK(op, target)
      PROVE  RowsOK'
  BY <1>1, StartedRows DEF startMutate
<1>2. \A target : CreatesOK("touch", target) /\ CreatesOK("delete", target)
                  /\ CreatesOK("reconcile", target)
  BY DEF CreatesOK
<1>3. CASE ListKey
  <2>1. CASE ReconcileKey
    BY <1>1, <1>2, <2>1 DEF ReconcileKey
  <2>2. CASE Refresh
    BY <2>2, FetchingRows DEF Refresh, beginFetch
  <2>3. CASE ~ReconcileKey /\ ~Refresh
    BY <1>3, <2>3, RowsStay DEF ListKey, SwitchTab, Down, Up, PageDown, PageUp, RowPanic,
                                EnterIface, EnterPeer, Shows
  <2> QED
    BY <2>1, <2>2, <2>3
<1>4. CASE IfaceKey \/ PeerKey
  <2>1. ASSUME NEW subject, Touch(subject) PROVE RowsOK'
    BY <1>1, <1>2, <2>1 DEF Touch
  <2>2. ASSUME NEW subject, NEW i,
               \/ DeleteKey(subject) \/ openIfaceEdit(i) \/ openPeerEdit(i)
               \/ doFetchClientConf(i)
        PROVE  RowsOK'
    BY <2>2, RowsStay DEF DeleteKey, openIfaceEdit, openPeerEdit, doFetchClientConf, Shows
  <2> QED
    BY <1>4, <2>1, <2>2 DEF IfaceKey, PeerKey
<1>5. CASE FormKey
  <2>1. CASE submitIfaceForm
    <3>1. ASSUME NEW i \in Iface, startMutate(m, "createIface", OfIface(i)) PROVE RowsOK'
      <4>1. CreatesOK("createIface", OfIface(i))
        BY DEF CreatesOK, OfIface
      <4> QED
        BY <1>1, <3>1, <4>1
    <3> QED
      BY <1>1, <1>2, <2>1, <3>1 DEF submitIfaceForm
  <2>2. CASE submitPeerForm
    <3>1. ASSUME NEW p \in Peer, startMutate(m, "createPeer", OfPeer(p)) PROVE RowsOK'
      <4>1. CreatesOK("createPeer", OfPeer(p))
        BY DEF CreatesOK, OfPeer
      <4> QED
        BY <1>1, <3>1, <4>1
    <3> QED
      BY <1>1, <1>2, <2>2, <3>1 DEF submitPeerForm
  <2>3. CASE openIfaceCreate \/ openPeerCreate \/ CancelForm \/ \E i \in Iface : cycleSelect(i)
    BY <2>3, RowsStay DEF openIfaceCreate, openPeerCreate, CancelForm, cycleSelect, Shows
  <2> QED
    BY <1>5, <2>1, <2>2, <2>3 DEF FormKey
<1>6. CASE PageKey
  <2>1. CASE handleConfirmYes
    BY <1>1, <1>2, <2>1 DEF handleConfirmYes
  <2>2. CASE LeaveIface \/ LeavePeer \/ LeaveConf \/ handleConfirmNo \/ Quit
    BY <2>2, RowsStay DEF LeaveIface, LeavePeer, LeaveConf, handleConfirmNo, Quit, Shows
  <2> QED
    BY <1>6, <2>1, <2>2 DEF PageKey
<1>7. CASE tickMsg
  BY <1>7, RowsStay, FetchingRows DEF tickMsg, beginFetch
<1> QED
  BY <1>3, <1>4, <1>5, <1>6, <1>7

LEMMA ChangedRows ==
    ASSUME NEW op, NEW target, CreatesOK(op, target),
           srv.ifaces \subseteq Iface, srv.peers \subseteq Peer
    PROVE  Changed(op, target).ifaces \subseteq Iface /\ Changed(op, target).peers \subseteq Peer
BY DEF Changed, CreatesOK

LEMMA ReplyRows == IInv /\ RowsOK /\ Reply => RowsOK'
<1> SUFFICES ASSUME IInv, RowsOK, Reply PROVE RowsOK'
  OBVIOUS
<1>1. ASSUME NEW f \in fetches, Answer(f) PROVE RowsOK'
  <2> PICK g : g = [f EXCEPT !.at = "done", !.ifaces = srv.ifaces, !.peers = srv.peers,
                             !.ver = srv.ver]
    OBVIOUS
  <2>1. DOMAIN f = {"stale", "at", "ifaces", "peers", "ver"}
    BY DEF IInv, FieldsOK
  <2>2. g.at = "done" /\ g.ifaces = srv.ifaces /\ g.peers = srv.peers
    BY <2>1
  <2>3. fetches' = (fetches \ {f}) \cup {g} /\ UNCHANGED <<srv, calls>>
    BY <1>1 DEF Answer
  <2>4. FetchOK(g)
    BY <2>2 DEF RowsOK, FetchOK
  <2> QED
    BY <2>3, <2>4 DEF RowsOK
<1>2. ASSUME NEW f \in fetches, dataMsg(f) \/ dataMsgError(f) PROVE RowsOK'
  BY <1>2 DEF dataMsg, dataMsgError, RowsOK
<1>3. ASSUME NEW c \in calls, Serve(c) PROVE RowsOK'
  <2> PICK a : a = [c EXCEPT !.at = IF Accepts(c.op, c.target) THEN "ok" ELSE "error",
                             !.ver = IF Accepts(c.op, c.target)
                                     THEN Changed(c.op, c.target).ver ELSE 0]
    OBVIOUS
  <2>1. DOMAIN c = {"op", "target", "at", "ver"} /\ CallOK(c)
    BY DEF IInv, FieldsOK, RowsOK
  <2>2. a.at \in {"ok", "error"} /\ a.op = c.op /\ a.target = c.target
    BY <2>1
  <2>3. CallOK(a)
    BY <2>1, <2>2 DEF CallOK
  <2>4. calls' \subseteq calls \cup {a} /\ UNCHANGED fetches
        /\ srv' \in {srv, Changed(c.op, c.target)}
    BY <1>3 DEF Serve
  <2>5. srv'.ifaces \subseteq Iface /\ srv'.peers \subseteq Peer
    <3>1. CreatesOK(c.op, c.target)
      BY <2>1 DEF CallOK, CreatesOK
    <3>2. /\ Changed(c.op, c.target).ifaces \subseteq Iface
          /\ Changed(c.op, c.target).peers \subseteq Peer
      BY <3>1, ChangedRows DEF RowsOK
    <3> QED
      BY <2>4, <3>2 DEF RowsOK
  <2> QED
    BY <2>3, <2>4, <2>5 DEF RowsOK
<1>4. ASSUME NEW c \in calls, Cancelled(c) \/ actionDoneError(c) PROVE RowsOK'
  BY <1>4 DEF Cancelled, actionDoneError, RowsOK
<1>5. ASSUME NEW c \in calls, actionDone(c) PROVE RowsOK'
  BY <1>5, FetchingRows DEF actionDone, beginFetch
<1>6. ASSUME NEW c \in calls, actionTimeout(c) PROVE RowsOK'
  <2> PICK a : a = [c EXCEPT !.at = "given up"]
    OBVIOUS
  <2>1. DOMAIN c = {"op", "target", "at", "ver"} /\ CallOK(c)
    BY DEF IInv, FieldsOK, RowsOK
  <2>2. CallOK(a)
    BY <2>1 DEF CallOK
  <2>3. calls' \subseteq calls \cup {a} /\ UNCHANGED <<srv, fetches>>
    BY <1>6 DEF actionTimeout
  <2> QED
    BY <2>2, <2>3 DEF RowsOK
<1>7. ASSUME NEW c \in confs, clientConfMsg(c) PROVE RowsOK'
  BY <1>7, RowsStay DEF clientConfMsg
<1> QED
  BY <1>1, <1>2, <1>3, <1>4, <1>5, <1>6, <1>7 DEF Reply

(* Another client creates what it may. *)
LEMMA OtherEditRows ==
    ASSUME RowsOK,
           NEW t \in {OfIface(i) : i \in Iface} \cup {OfPeer(p) : p \in Peer}, NEW op \in Ops(t),
           OtherEdit(op, t)
    PROVE  RowsOK'
<1>1. CreatesOK(op, t)
  <2>1. CASE \E i \in Iface : t = OfIface(i)
    <3>1. t[1] = "iface" /\ t[2] \in Iface
      BY <2>1 DEF OfIface
    <3> QED
      BY <3>1 DEF Ops, CreatesOK
  <2>2. CASE \E p \in Peer : t = OfPeer(p)
    <3>1. t[1] = "peer" /\ t[2] \in Peer
      BY <2>2 DEF OfPeer
    <3> QED
      BY <3>1 DEF Ops, CreatesOK
  <2> QED
    BY <2>1, <2>2
<1>2. srv' = Changed(op, t) /\ UNCHANGED <<fetches, calls>>
  BY DEF OtherEdit
<1>3. Changed(op, t).ifaces \subseteq Iface /\ Changed(op, t).peers \subseteq Peer
  BY <1>1, ChangedRows DEF RowsOK
<1> QED
  BY <1>2, <1>3 DEF RowsOK

LEMMA ListsKeep == IInv /\ LInv /\ [Next]_vars => LInv'
<1> SUFFICES ASSUME IInv, LInv, [Next]_vars PROVE LInv'
  OBVIOUS
<1>1. CASE UNCHANGED vars
  BY <1>1, RowsStay DEF LInv, vars
<1>2. CASE ListKey \/ IfaceKey \/ PeerKey \/ FormKey \/ PageKey \/ tickMsg
  BY <1>2, KeyRows, ListKeyScreen, OtherKeyScreen, ReplyScreen DEF LInv
<1>3. CASE Reply
  BY <1>3, ReplyRows, ReplyScreen DEF LInv
<1>4. ASSUME NEW t \in {OfIface(i) : i \in Iface} \cup {OfPeer(p) : p \in Peer},
             NEW op \in Ops(t), OtherEdit(op, t)
      PROVE  LInv'
  BY <1>4, OtherEditRows DEF OtherEdit, LInv
<1> QED
  BY <1>1, <1>2, <1>3, <1>4 DEF Next

(* However the replies reorder and shrink the lists, the cursor stays on a  *)
(* row of the tab, or on the first place when there is none; only a page    *)
(* down in an empty list leaves it before that.  The lists show rows the    *)
(* daemon may have.                                                         *)
THEOREM TypeCorrect == Spec => []TypeOK
<1>1. LInv => TypeOK
  <2> SUFFICES ASSUME LInv PROVE TypeOK
    OBVIOUS
  <2>1. Range(m.ifaces) \subseteq Iface /\ Range(m.peers) \subseteq Peer
    BY DEF LInv, ScreenOK, Range
  <2> QED
    BY <2>1 DEF LInv, ScreenOK, Modes, RowsOK, FetchOK, CallOK, TypeOK
<1>2. Spec => []LInv
  BY ListsStart, ListsKeep, SpecIInv, PTL DEF Spec
<1> QED
  BY <1>1, <1>2, PTL
=============================================================================
