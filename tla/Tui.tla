--------------------------------- MODULE Tui ---------------------------------
(***************************************************************************)
(* The terminal UI of wireguardctl: one model record updated by messages,  *)
(* and the commands whose replies come back as messages in any order - the *)
(* periodic fetch, the mutating calls with their busy flag, the client     *)
(* configuration - next to a daemon other clients change too.              *)
(*                                                                         *)
(* An interface is its name, a peer its public key; Home gives a peer's    *)
(* interface.  The other fields of the rows, error and flash texts,        *)
(* generated keys and the values typed into forms are left out.            *)
(***************************************************************************)
EXTENDS Integers, Sequences, FiniteSetsExt, SequencesExt

CONSTANTS
    Iface, Peer,  \* names and keys, numbers in the order they are listed in
    Home,         \* Home[p]: the interface of a peer
    MaxPending,   \* fetches in flight at once
    MaxEvents     \* calls, configuration requests, changes by others and failures, in all

ASSUME IdsAssumption ==
    Iface \subseteq Nat /\ Peer \subseteq Nat /\ IsFiniteSet(Iface) /\ IsFiniteSet(Peer)

ASSUME HomeAssumption == Home \in [Peer -> Iface]

ASSUME BoundsAssumption == MaxPending \in Nat /\ MaxEvents \in Nat

VARIABLES
    srv,      \* the daemon: rows, and ver counting their changes
    m,        \* rootModel
    fetches,  \* fetchData commands in flight
    calls,    \* doAction commands in flight, or given up by the client
    confs,    \* doFetchClientConf commands in flight
    tick,     \* a tickMsg is scheduled
    left      \* what is left of MaxEvents

vars == <<srv, m, fetches, calls, confs, tick, left>>

None == <<>>

(* What a screen, a call or a prompt is about. *)
OfIface(i) == <<"iface", i>>
OfPeer(p) == <<"peer", p>>

NoConfirm == [kind |-> "none", arg |-> None, text |-> None]

NoForm == [create |-> FALSE, edit |-> None, title |-> None, options |-> {}]

(* The tabs with rows that keys act on; stats, events and keys have none. *)
Tabs == {"interfaces", "peers"}
-----------------------------------------------------------------------------
(* The daemon, as the client's calls see it *)

(* In ascending order: the i-th row has i - 1 before it. *)
Listed(set) ==
    [i \in 1..Cardinality(set) |-> CHOOSE x \in set : Cardinality({y \in set : y < x}) = i - 1]

(* 404 for what is gone, 409 for what exists already. *)
Accepts(op, target) ==
    LET id == target[2] IN
    CASE op = "reconcile"   -> TRUE
      [] op = "createIface" -> id \notin srv.ifaces
      [] op = "createPeer"  -> id \notin srv.peers /\ Home[id] \in srv.ifaces
      [] OTHER              -> IF target[1] = "iface" THEN id \in srv.ifaces
                                                      ELSE id \in srv.peers

Changed(op, target) ==
    LET id == target[2]
        gone == {p \in srv.peers : op = "delete" /\
                    (target = OfPeer(p) \/ target = OfIface(Home[p]))}
    IN [ver |-> IF op = "reconcile" THEN srv.ver ELSE srv.ver + 1,
        ifaces |-> CASE op = "createIface" -> srv.ifaces \cup {id}
                     [] op = "delete" -> {i \in srv.ifaces : target # OfIface(i)}
                     [] OTHER -> srv.ifaces,
        peers |-> IF op = "createPeer" THEN srv.peers \cup {id} ELSE srv.peers \ gone]

Ops(target) == {"delete", IF target[1] = "iface" THEN "createIface" ELSE "createPeer"}

(* Another client: a second TUI, the CLI, the reconciler. *)
OtherEdit(op, target) ==
    /\ left > 0
    /\ Accepts(op, target)
    /\ srv' = Changed(op, target)
    /\ left' = left - 1
    /\ UNCHANGED <<m, fetches, calls, confs, tick>>
-----------------------------------------------------------------------------
(* Commands *)

(* Only whether a reply's generation is still fetchGen matters: bumping the *)
(* counter makes every fetch in flight stale.                               *)
Fetch == [stale |-> FALSE, at |-> "sent", ifaces |-> {}, peers |-> {}, ver |-> 0]

(* The model the fetch leaves, next to the other changes of the handler. *)
beginFetch(next) ==
    /\ Cardinality(fetches) < MaxPending
    /\ m' = next
    /\ fetches' = {[f EXCEPT !.stale = TRUE] : f \in fetches} \cup {Fetch}

Call(op, target) == [op |-> op, target |-> target, at |-> "sent", ver |-> 0]

(* Mutant: a key press is not ignored while an action is in flight. *)
startMutateAnyway(next, op, target) ==
    /\ left > 0
    /\ m' = [next EXCEPT !.busy = TRUE]
    /\ calls' = calls \cup {Call(op, target)}
    /\ left' = left - 1
    /\ UNCHANGED <<srv, fetches, confs, tick>>

startMutate(next, op, target) ==
    /\ ~m.busy
    /\ left > 0
    /\ m' = [next EXCEPT !.busy = TRUE]
    /\ calls' = calls \cup {Call(op, target)}
    /\ left' = left - 1
    /\ UNCHANGED <<srv, fetches, confs, tick>>

doFetchClientConf(p) ==
    /\ left > 0
    /\ confs' = confs \cup {[pub |-> p, n |-> left]}
    /\ left' = left - 1
    /\ UNCHANGED <<srv, m, fetches, calls, tick>>

(* A key that only changes the model. *)
Shows(next) == m' = next /\ UNCHANGED <<srv, fetches, calls, confs, tick, left>>

(* The daemon's answer.  fetchData lists interfaces, peers, stats and       *)
(* events one after another; that the lists need not belong together is     *)
(* left out, as no key relates a row of one to a row of the other.          *)
Answer(f) ==
    /\ f.at = "sent"
    /\ fetches' = (fetches \ {f})
                  \cup {[f EXCEPT !.at = "done", !.ifaces = srv.ifaces, !.peers = srv.peers, !.ver = srv.ver]}
    /\ UNCHANGED <<srv, m, calls, confs, tick, left>>

(* The daemon executes a call, in time or after the client gave up. *)
Serve(c) ==
    LET ok == Accepts(c.op, c.target)
        answer == [c EXCEPT !.at = IF ok THEN "ok" ELSE "error",
                            !.ver = IF ok THEN Changed(c.op, c.target).ver ELSE 0]
    IN
    /\ c.at \in {"sent", "given up"}
    /\ srv' = IF ok THEN Changed(c.op, c.target) ELSE srv
    /\ calls' = (calls \ {c}) \cup (IF c.at = "sent" THEN {answer} ELSE {})
    /\ UNCHANGED <<m, fetches, confs, tick, left>>

(* A request whose client has gone is not executed. *)
Cancelled(c) ==
    /\ c.at = "given up"
    /\ calls' = calls \ {c}
    /\ UNCHANGED <<srv, m, fetches, confs, tick, left>>
-----------------------------------------------------------------------------
(* Update *)

Running == m.mode \notin {"quit", "panicked"}

rowCount(mm) == CASE mm.tab = "interfaces" -> Len(mm.ifaces)
                  [] mm.tab = "peers" -> Len(mm.peers)
                  [] OTHER -> 0

(* Mutant: a tick that does not fetch does not schedule the next one. *)
tickMsgOnce ==
    /\ tick
    /\ IF m.mode = "list" THEN beginFetch(m) ELSE UNCHANGED <<m, fetches>>
    /\ tick' = (m.mode = "list")
    /\ UNCHANGED <<srv, calls, confs, left>>

tickMsg ==
    /\ tick
    /\ IF m.mode = "list" THEN beginFetch(m) ELSE UNCHANGED <<m, fetches>>
    /\ UNCHANGED <<srv, calls, confs, tick, left>>

(* Mutant: the cursor stays where it was when rows have gone. *)
withDataUnclamped(f) ==
    [m EXCEPT !.ifaces = Listed(f.ifaces), !.seen = f.ver,
              !.peers = Listed(f.peers)]

(* The lists are replaced and the cursor kept on a row.  An open page shows *)
(* the new fields of its row, or the old ones of a row that is gone.        *)
withData(f) ==
    LET mm == [m EXCEPT !.ifaces = Listed(f.ifaces), !.seen = f.ver,
                        !.peers = Listed(f.peers)]
    IN [mm EXCEPT !.cursor = IF @ >= rowCount(mm) THEN Max({0, rowCount(mm) - 1}) ELSE @]

(* Mutant: the generation of a reply is not looked at. *)
dataMsgAny(f) ==
    /\ f.at = "done"
    /\ m' = withData(f)
    /\ fetches' = fetches \ {f}
    /\ UNCHANGED <<srv, calls, confs, tick, left>>

dataMsg(f) ==
    /\ f.at = "done"
    /\ m' = IF f.stale THEN m ELSE withData(f)
    /\ fetches' = fetches \ {f}
    /\ UNCHANGED <<srv, calls, confs, tick, left>>

(* Any of the requests fails or takes longer than ten seconds. *)
dataMsgError(f) ==
    /\ left > 0
    /\ fetches' = fetches \ {f}
    /\ left' = left - 1
    /\ UNCHANGED <<srv, m, calls, confs, tick>>

(* Whatever the user has opened since is closed; what a form holds is not   *)
(* read again.                                                              *)
actionDone(c) ==
    /\ c.at = "ok"
    /\ calls' = calls \ {c}
    /\ beginFetch([m EXCEPT !.busy = FALSE, !.mode = "list", !.need = Max({@, c.ver}),
                            !.detailIf = 0, !.confirm = NoConfirm, !.form = NoForm])
    /\ UNCHANGED <<srv, confs, tick, left>>

actionDoneError(c) ==
    /\ c.at = "error"
    /\ calls' = calls \ {c}
    /\ m' = [m EXCEPT !.busy = FALSE]
    /\ UNCHANGED <<srv, fetches, confs, tick, left>>

(* Fifteen seconds without an answer: an error like any other, while the    *)
(* daemon may still execute the request, or has done so.                    *)
actionTimeout(c) ==
    /\ c.at # "given up" /\ left > 0
    /\ calls' = (calls \ {c}) \cup (IF c.at = "sent" THEN {[c EXCEPT !.at = "given up"]} ELSE {})
    /\ m' = [m EXCEPT !.busy = FALSE]
    /\ left' = left - 1
    /\ UNCHANGED <<srv, fetches, confs, tick>>

(* The configuration takes the screen, whatever is on it by now; a peer     *)
(* that is gone, or has no client key, is an error.                         *)
clientConfMsg(c) ==
    /\ confs' = confs \ {c}
    /\ \/ c.pub \in srv.peers /\ m' = [m EXCEPT !.mode = "clientConf", !.detailIf = 0, !.confirm = NoConfirm, !.form = NoForm]
       \/ m' = m
    /\ UNCHANGED <<srv, fetches, calls, tick, left>>
-----------------------------------------------------------------------------
(* Keys of the lists *)

Listing == m.mode = "list"

SwitchTab(t) == Listing /\ Shows([m EXCEPT !.tab = t, !.cursor = 0])

Down == Listing /\ m.cursor < rowCount(m) - 1 /\ Shows([m EXCEPT !.cursor = @ + 1])

Up == Listing /\ m.cursor > 0 /\ Shows([m EXCEPT !.cursor = @ - 1])

(* With no rows this is -1 ... *)
PageDown == Listing /\ Shows([m EXCEPT !.cursor = Min({rowCount(m) - 1, @ + 10})])

PageUp == Listing /\ Shows([m EXCEPT !.cursor = Max({0, @ - 10})])

(* ... which every key on a row takes for a row: they ask only whether the  *)
(* cursor is below the length.                                              *)
RowPanic ==
    /\ Listing /\ m.cursor < 0 /\ m.tab \in {"interfaces", "peers"}
    /\ Shows([m EXCEPT !.mode = "panicked"])

SelectedIface == {m.ifaces[i] : i \in {m.cursor + 1} \cap DOMAIN m.ifaces}

SelectedPeer == {m.peers[i] : i \in {m.cursor + 1} \cap DOMAIN m.peers}

Refresh == Listing /\ beginFetch(m) /\ UNCHANGED <<srv, calls, confs, tick, left>>

ReconcileKey == Listing /\ startMutate(m, "reconcile", <<"all", 0>>)

EnterIface(i) == Listing /\ Shows([m EXCEPT !.detailIf = i, !.mode = "ifaceDetail"])

EnterPeer(p) == Listing /\ Shows([m EXCEPT !.detailPeer = p, !.mode = "peerDetail"])

(* handleIfaceDetailKey, handlePeerDetailKey: away from a page. *)
LeaveIface == m.mode = "ifaceDetail" /\ Shows([m EXCEPT !.mode = "list", !.detailIf = 0])

LeavePeer == m.mode = "peerDetail" /\ Shows([m EXCEPT !.mode = "list", !.detailPeer = 0])

(* From the list too, where detailPeer is nil or the last page's peer. *)
LeaveConf == m.mode = "clientConf" /\ Shows([m EXCEPT !.mode = "peerDetail"])

Quit == m.mode # "quit" /\ Shows([m EXCEPT !.mode = "quit"])
-----------------------------------------------------------------------------
(* Keys on an interface or a peer, in the list or on its page *)

OnIface(i) == (Listing /\ m.tab = "interfaces" /\ i \in SelectedIface)
              \/ (m.mode = "ifaceDetail" /\ m.detailIf = i)

OnPeer(p) == (Listing /\ m.tab = "peers" /\ p \in SelectedPeer)
             \/ (m.mode = "peerDetail" /\ m.detailPeer = p)

(* u, d, x: up, down, export; s, t: suspend or resume, reset.  All of them  *)
(* touch an existing row.                                                   *)
Touch(subject) == startMutate(m, "touch", subject)

DeleteKey(subject) ==
    Shows([m EXCEPT !.mode = "confirm",
                    !.detailIf = 0,
                    !.confirm = [kind |-> subject[1], arg |-> subject, text |-> subject]])

(* Mutant: the row under the cursor is deleted, not the one asked about. *)
confirmDeletesRow ==
    /\ m.mode = "confirm" /\ m.confirm.kind # "none"
    /\ \E target \in {OfIface(i) : i \in SelectedIface} \cup {OfPeer(p) : p \in SelectedPeer} :
          /\ target[1] = m.confirm.kind
          /\ startMutate([m EXCEPT !.mode = "list", !.confirm = NoConfirm], "delete", target)

handleConfirmYes ==
    /\ m.mode = "confirm" /\ m.confirm.kind # "none"
    /\ startMutate([m EXCEPT !.mode = "list", !.confirm = NoConfirm], "delete", m.confirm.arg)

handleConfirmNo == m.mode = "confirm" /\ Shows([m EXCEPT !.mode = "list", !.confirm = NoConfirm])

openIfaceCreate ==
    /\ Listing /\ m.tab = "interfaces"
    /\ Shows([m EXCEPT !.mode = "ifaceForm", !.form = [NoForm EXCEPT !.create = TRUE]])

openIfaceEdit(i) ==
    Shows([m EXCEPT !.mode = "ifaceForm", !.detailIf = 0,
                    !.form = [NoForm EXCEPT !.edit = OfIface(i), !.title = OfIface(i)]])

(* From the list of peers the first interface is selected, from an          *)
(* interface's page that one.                                               *)
openPeerCreate ==
    LET chosen == IF m.mode = "ifaceDetail" THEN {m.detailIf}
                  ELSE {m.ifaces[i] : i \in {1} \cap DOMAIN m.ifaces}
    IN
    /\ m.mode = "ifaceDetail" \/ (Listing /\ m.tab = "peers")
    /\ \E title \in IF chosen = {} THEN {None} ELSE {OfIface(i) : i \in chosen} :
          Shows([m EXCEPT !.mode = "peerForm", !.detailIf = 0,
                          !.form = [create |-> TRUE, edit |-> None, title |-> title,
                                    options |-> Range(m.ifaces) \cup chosen]])

openPeerEdit(p) ==
    Shows([m EXCEPT !.mode = "peerForm",
                    !.form = [NoForm EXCEPT !.edit = OfPeer(p), !.title = OfPeer(p)]])
-----------------------------------------------------------------------------
(* Forms *)

InForm == m.mode \in {"ifaceForm", "peerForm"}

(* Left and right on the interface field of a new peer. *)
cycleSelect(i) ==
    /\ m.mode = "peerForm" /\ i \in m.form.options
    /\ Shows([m EXCEPT !.form.title = OfIface(i)])

CancelForm == InForm /\ Shows([m EXCEPT !.mode = "list", !.form = NoForm])

(* A valid form; an invalid one only shows why.  The form stays open until  *)
(* the call succeeds.  Bound: of the names and keys that may be typed, ones *)
(* the lists do not show; a conflict is met when another client creates the *)
(* row first.                                                               *)
submitIfaceForm ==
    /\ m.mode = "ifaceForm"
    /\ IF m.form.create THEN \E i \in Iface \ Range(m.ifaces) : startMutate(m, "createIface", OfIface(i))
                        ELSE startMutate(m, "touch", m.form.edit)

submitPeerForm ==
    /\ m.mode = "peerForm"
    /\ IF m.form.create
       THEN \E p \in Peer \ Range(m.peers) : m.form.title = OfIface(Home[p]) /\ startMutate(m, "createPeer", OfPeer(p))
       ELSE startMutate(m, "touch", m.form.edit)
-----------------------------------------------------------------------------
Init ==
    /\ srv = [ifaces |-> Iface, peers |-> Peer, ver |-> 0]
    /\ m = [tab |-> "interfaces", mode |-> "list", cursor |-> 0, ifaces |-> <<>>, peers |-> <<>>,
            detailIf |-> 0, detailPeer |-> 0, confirm |-> NoConfirm,
            form |-> NoForm, busy |-> FALSE, seen |-> 0, need |-> 0]
    /\ fetches = {Fetch}
    /\ calls = {} /\ confs = {} /\ tick = TRUE
    /\ left = MaxEvents

ListKey ==
    \/ \E t \in Tabs : SwitchTab(t)
    \/ Down \/ Up \/ PageDown \/ PageUp \/ RowPanic \/ Refresh \/ ReconcileKey
    \/ m.tab = "interfaces" /\ \E i \in SelectedIface : EnterIface(i)
    \/ m.tab = "peers" /\ \E p \in SelectedPeer : EnterPeer(p)

IfaceKey ==
    \E i \in Iface : OnIface(i) /\ (Touch(OfIface(i)) \/ DeleteKey(OfIface(i)) \/ openIfaceEdit(i))

PeerKey ==
    \E p \in Peer : OnPeer(p) /\ (Touch(OfPeer(p)) \/ DeleteKey(OfPeer(p)) \/ openPeerEdit(p)
                                  \/ doFetchClientConf(p))

FormKey ==
    \/ openIfaceCreate \/ openPeerCreate \/ CancelForm \/ submitIfaceForm \/ submitPeerForm
    \/ \E i \in Iface : cycleSelect(i)

PageKey == LeaveIface \/ LeavePeer \/ LeaveConf \/ handleConfirmYes \/ handleConfirmNo \/ Quit

Reply ==
    \/ \E f \in fetches : Answer(f) \/ dataMsg(f) \/ dataMsgError(f)
    \/ \E c \in calls : Serve(c) \/ Cancelled(c) \/ actionDone(c) \/ actionDoneError(c) \/ actionTimeout(c)
    \/ \E c \in confs : clientConfMsg(c)

(* What happens once the program has ended is not followed. *)
Next ==
    /\ Running
    /\ \/ ListKey \/ IfaceKey \/ PeerKey \/ FormKey \/ PageKey
       \/ tickMsg \/ Reply
       \/ \E t \in {OfIface(i) : i \in Iface} \cup {OfPeer(p) : p \in Peer} :
             \E op \in Ops(t) : OtherEdit(op, t)

Spec == Init /\ [][Next]_vars

(* The step of the newest fetch, and of the oldest stale one. *)
Current(Step(_)) == \E f \in fetches : ~f.stale /\ Step(f)
Stale == \E f \in fetches : f.stale /\ (Answer(f) \/ dataMsg(f))

(* The daemon serves and answers, the runtime delivers replies and ticks.   *)
(* Strong fairness of the newest fetch: every tick starts another one and   *)
(* makes the one before stale, so the screen is refreshed only because a    *)
(* fetch takes less than the refresh interval now and then.  No key is ever *)
(* assumed to be pressed.                                                   *)
FairSpec ==
    /\ Spec
    /\ WF_vars(tickMsg) /\ WF_vars(Stale)
    /\ SF_vars(Current(Answer)) /\ SF_vars(Current(dataMsg))
    /\ WF_vars(\E c \in calls : c.at = "sent" /\ Serve(c))
    /\ SF_vars(\E c \in calls : actionDone(c)) /\ WF_vars(\E c \in calls : actionDoneError(c))
-----------------------------------------------------------------------------
(* The values the variables take; -1 is the cursor of a page down in an     *)
(* empty list.                                                              *)
TypeOK ==
    /\ m.tab \in Tabs
    /\ m.mode \in {"list", "ifaceForm", "peerForm", "ifaceDetail", "peerDetail", "clientConf",
                   "confirm", "quit", "panicked"}
    /\ m.cursor \in -1..Max({0, rowCount(m) - 1})
    /\ Range(m.ifaces) \subseteq Iface
    /\ Range(m.peers) \subseteq Peer
    /\ \A f \in fetches : f.at \in {"sent", "done"}
    /\ \A c \in calls : c.at \in {"sent", "ok", "error", "given up"}

(* busy is exactly "a call is awaited", and never two of them: although a   *)
(* call that timed out may still be executed next to the one made after it, *)
(* no two calls of one screen are awaited at once and no reply clears the   *)
(* flag of another call.                                                    *)
OneCallAtATime ==
    LET awaited == {c \in calls : c.at # "given up"} IN
    /\ Cardinality(awaited) <= 1
    /\ Running => (m.busy <=> awaited # {})

(* What the screen names as the thing a key acts on: the marked row, the    *)
(* page's row, the prompt's or the form's.                                  *)
Shown ==
    CASE m.mode = "list" /\ m.tab = "interfaces" -> {OfIface(i) : i \in SelectedIface}
      [] m.mode = "list" /\ m.tab = "peers" -> {OfPeer(p) : p \in SelectedPeer}
      [] m.mode = "ifaceDetail" -> {OfIface(m.detailIf)}
      [] m.mode = "peerDetail" -> {OfPeer(m.detailPeer)}
      [] m.mode = "confirm" -> {m.confirm.text}
      [] InForm -> {m.form.title}
      [] OTHER -> {}

(* A call is about what the screen named when the key was pressed, although *)
(* replies reorder and shrink the lists, and replace pages, under the       *)
(* cursor at any time; a new peer goes to the interface its form names.     *)
ActsOnTheShown ==
    [][\A c \in calls' \ calls : c.at = "sent" =>
          CASE c.op \in {"createIface", "reconcile"} -> TRUE
            [] c.op = "createPeer" -> OfIface(Home[c.target[2]]) \in Shown
            [] OTHER -> c.target \in Shown]_vars

(* The lists never go back to an earlier state of the daemon, and once an   *)
(* action has been reported done nothing read before it is shown: replies   *)
(* of fetches started earlier may arrive late, in any order, or never.      *)
NeverShowsOlder ==
    [][m'.seen >= m.seen /\ (m'.seen # m.seen => m'.seen >= m.need)]_vars

(* Once the user stays with the lists they show the daemon's last state in  *)
(* the end: failed fetches are repeated, replies made stale are replaced,   *)
(* and the ticks have not stopped while a page or form was open.            *)
CatchesUp == <>[]Listing => <>[](m.seen = srv.ver)
==============================================================================
