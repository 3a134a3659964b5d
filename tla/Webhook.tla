------------------------------- MODULE Webhook -------------------------------
(***************************************************************************)
(* Events on their way to an external controller: Store.AddEvent inserts a *)
(* row and calls the event hook, Dispatcher.Emit puts the event on a       *)
(* bounded channel, one worker posts them, and the shutdown of the daemon  *)
(* stops it.                                                               *)
(*                                                                         *)
(* An event is its row number.  Emit takes the mutex only to read closed,  *)
(* so reading it and sending are two steps.  The worker's context is the   *)
(* daemon's signal context: it is cancelled by SIGTERM, some time before   *)
(* the deferred Close, while API requests are still being served.          *)
(***************************************************************************)
EXTENDS Naturals, Sequences, SequencesExt

CONSTANTS
    Emitter,    \* goroutines that call AddEvent
    QueueSize,  \* capacity of the channel
    Wanted,     \* row numbers whose kind the webhooks.events filter matches
    MaxEvents   \* bound: events ever inserted

ASSUME QueueAssumption == QueueSize \in Nat \ {0}
ASSUME EventsAssumption == MaxEvents \in Nat /\ Wanted \subseteq 1..MaxEvents

VARIABLES
    rows,       \* events table: number of rows
    emit,       \* emit[g]: where the goroutine is, and with which event
    ch,         \* the channel
    closed,     \* Dispatcher.closed
    cancelled,  \* the worker's context is done
    worker,     \* "select", "post", "drain", "drainPost" or "gone"
    current,    \* the event being posted, as a sequence of length at most 1
    closer,     \* the Close call: "none", "waiting" or "returned"
    accepted,   \* observation: events put on the channel, in order
    taken,      \* observation: events the worker took from it, in order
    delivered   \* observation: events the controller acknowledged

queueVars == <<ch, accepted>>
workVars  == <<worker, current, taken, delivered>>
vars      == <<rows, emit, queueVars, closed, cancelled, workVars, closer>>

Idle == [at |-> "idle", event |-> 0]

(* Dispatcher.match *)
match(e) == e \in Wanted
-----------------------------------------------------------------------------
(* AddEvent inserts the row; the hook runs after the insert, outside any    *)
(* lock.                                                                    *)
AddEvent(g) ==
    /\ emit[g] = Idle
    /\ rows < MaxEvents
    /\ rows' = rows + 1
    /\ emit' = [emit EXCEPT ![g] = [at |-> "hook", event |-> rows + 1]]
    /\ UNCHANGED <<queueVars, closed, cancelled, workVars, closer>>

(* Emit up to the unlock: an event nobody asked for, or one that comes      *)
(* after Close, is dropped.                                                 *)
EmitCheck(g) ==
    /\ emit[g].at = "hook"
    /\ emit' = [emit EXCEPT ![g] = IF match(@.event) /\ ~closed
                                   THEN [@ EXCEPT !.at = "send"] ELSE Idle]
    /\ UNCHANGED <<rows, queueVars, closed, cancelled, workVars, closer>>

(* Mutant: the channel has no bound. *)
EmitUnbounded(g) ==
    /\ emit[g].at = "send"
    /\ emit' = [emit EXCEPT ![g] = Idle]
    /\ ch' = Append(ch, emit[g].event)
    /\ accepted' = Append(accepted, emit[g].event)
    /\ UNCHANGED <<rows, closed, cancelled, workVars, closer>>

(* The select with a default: the event is dropped when the channel is full. *)
EmitSend(g) ==
    /\ emit[g].at = "send"
    /\ emit' = [emit EXCEPT ![g] = Idle]
    /\ IF Len(ch) < QueueSize
       THEN /\ ch' = Append(ch, emit[g].event)
            /\ accepted' = Append(accepted, emit[g].event)
       ELSE UNCHANGED queueVars
    /\ UNCHANGED <<rows, closed, cancelled, workVars, closer>>
-----------------------------------------------------------------------------
(* The worker receives; with the context done too, select may choose either. *)
Receive(from, to) ==
    /\ worker = from
    /\ ch # <<>>
    /\ worker' = to
    /\ current' = <<Head(ch)>>
    /\ ch' = Tail(ch)
    /\ taken' = Append(taken, Head(ch))
    /\ UNCHANGED <<rows, emit, accepted, closed, cancelled, delivered, closer>>

loopReceive == Receive("select", "post")

(* Mutants: the worker ends without the drain; it notices the end of its    *)
(* context only with an event at hand.                                      *)
loopDoneAtOnce ==
    /\ worker = "select"
    /\ cancelled
    /\ worker' = "gone"
    /\ UNCHANGED <<rows, emit, queueVars, closed, cancelled, current, taken,
                   delivered, closer>>

loopDoneOnEvent ==
    /\ worker = "select"
    /\ cancelled
    /\ ch # <<>>
    /\ worker' = "drain"
    /\ UNCHANGED <<rows, emit, queueVars, closed, cancelled, current, taken,
                   delivered, closer>>

loopDone ==
    /\ worker = "select"
    /\ cancelled
    /\ worker' = "drain"
    /\ UNCHANGED <<rows, emit, queueVars, closed, cancelled, current, taken,
                   delivered, closer>>

drainReceive == Receive("drain", "drainPost")

(* The drain ends when it finds the channel empty, for good. *)
drainEmpty ==
    /\ worker = "drain"
    /\ ch = <<>>
    /\ worker' = "gone"
    /\ UNCHANGED <<rows, emit, queueVars, closed, cancelled, current, taken,
                   delivered, closer>>

(* Mutant: an event that was not acknowledged goes back on the channel. *)
postWithRetry(from, to, acked) ==
    /\ worker = from
    /\ worker' = to
    /\ delivered' = IF acked THEN delivered \o current ELSE delivered
    /\ ch' = IF acked THEN ch ELSE ch \o current
    /\ current' = <<>>
    /\ UNCHANGED <<rows, emit, accepted, closed, cancelled, taken, closer>>

(* post: one attempt, within the client's timeout.  The controller may fail *)
(* or be unreachable; a post under a cancelled context fails.               *)
post(from, to, acked) ==
    /\ worker = from
    /\ worker' = to
    /\ delivered' = IF acked THEN delivered \o current ELSE delivered
    /\ current' = <<>>
    /\ UNCHANGED <<rows, emit, queueVars, closed, cancelled, taken, closer>>

loopPost == \E acked \in BOOLEAN : (acked => ~cancelled) /\ post("post", "select", acked)

(* Mutant: the drain gives up at the first post that fails. *)
drainPostGivesUp ==
    \E acked \in BOOLEAN : post("drainPost", IF acked THEN "drain" ELSE "gone", acked)

drainPost == \E acked \in BOOLEAN : post("drainPost", "drain", acked)

WorkerStep ==
    loopReceive \/ loopDone \/ loopPost \/ drainReceive \/ drainEmpty \/ drainPost
-----------------------------------------------------------------------------
(* SIGINT or SIGTERM. *)
Signal ==
    /\ ~cancelled
    /\ cancelled' = TRUE
    /\ UNCHANGED <<rows, emit, queueVars, closed, workVars, closer>>

(* Close is deferred in App.Run: after the servers' Shutdown, or at once    *)
(* when a listener failed.                                                  *)
Close ==
    /\ closer = "none"
    /\ closer' = "waiting"
    /\ closed' = TRUE
    /\ cancelled' = TRUE
    /\ UNCHANGED <<rows, emit, queueVars, workVars>>

CloseReturns ==
    /\ closer = "waiting"
    /\ worker = "gone"
    /\ closer' = "returned"
    /\ UNCHANGED <<rows, emit, queueVars, closed, cancelled, workVars>>

(* The process has ended. *)
Stopped ==
    /\ closer = "returned"
    /\ UNCHANGED vars

EmitterStep(g) == EmitCheck(g) \/ EmitSend(g)

Init ==
    /\ rows = 0
    /\ emit = [g \in Emitter |-> Idle]
    /\ ch = <<>>
    /\ closed = FALSE
    /\ cancelled = FALSE
    /\ worker = "select"
    /\ current = <<>>
    /\ closer = "none"
    /\ accepted = <<>>
    /\ taken = <<>>
    /\ delivered = <<>>

Next ==
    \/ \E g \in Emitter : AddEvent(g) \/ EmitterStep(g)
    \/ WorkerStep
    \/ Signal
    \/ Close
    \/ CloseReturns
    \/ Stopped

Spec == Init /\ [][Next]_vars

(* The worker goroutine and the goroutine in Close are scheduled; a post    *)
(* ends because the HTTP client has a timeout.                              *)
FairSpec == Spec /\ WF_vars(WorkerStep) /\ WF_vars(CloseReturns)
-----------------------------------------------------------------------------
(* The values the variables take; the channel never exceeds its capacity.   *)
TypeOK ==
    /\ rows \in 0..MaxEvents
    /\ emit \in [Emitter -> [at: {"idle", "hook", "send"}, event: 0..MaxEvents]]
    /\ ch \in Seq(1..MaxEvents) /\ Len(ch) <= QueueSize
    /\ closed \in BOOLEAN /\ cancelled \in BOOLEAN
    /\ worker \in {"select", "post", "drain", "drainPost", "gone"}
    /\ current \in Seq(1..MaxEvents) /\ Len(current) <= 1
    /\ closer \in {"none", "waiting", "returned"}

(* The elements of s are elements of t, in the order they have there. *)
InOrderFrom(s, t) ==
    \E at \in [DOMAIN s -> DOMAIN t] :
        /\ \A i, j \in DOMAIN s : i < j => at[i] < at[j]
        /\ \A i \in DOMAIN s : s[i] = t[at[i]]

(* webhook.go: delivery is "at-most-once".  No event is posted twice, by    *)
(* the loop and the drain together, and what the controller acknowledged    *)
(* came in the order the channel took it, with nothing that was not         *)
(* accepted.                                                                *)
AtMostOnceInOrder ==
    /\ taken \o ch = accepted
    /\ IsInjective(accepted)
    /\ InOrderFrom(delivered, taken)
    /\ \A i \in DOMAIN accepted : match(accepted[i])

(* Close returns, whatever emitters and the controller do meanwhile.        *)
CloseTerminates == closer = "waiting" ~> closer = "returned"

(* An accepted event is tried, also when the signal comes while it waits    *)
(* behind failing posts, as long as the worker has not ended its drain.     *)
AcceptedIsTried ==
    \A e \in 1..MaxEvents :
        (Contains(ch, e) /\ worker # "gone") ~> Contains(taken, e)

(* The dispatcher as its callers and the controller see it: an event is     *)
(* with the goroutine that raised it, then in the channel or being posted.  *)
Queue == INSTANCE EventQueue WITH
    Event    <- 1..MaxEvents,
    Capacity <- QueueSize + 1,
    raised   <- 1..rows,
    offered  <- {emit[g].event : g \in {h \in Emitter : emit[h] # Idle}},
    queue    <- current \o ch,
    out      <- delivered,
    stopped  <- worker = "gone"

(* Through Emit's unlocked send, the select between context and channel,    *)
(* the drain and Close, the dispatcher is that queue: an event is delivered *)
(* at most once and in order, lost only by itself, never waits for ever,    *)
(* and nothing accepted before the worker ends is left behind.              *)
ImplementsQueue == Queue!Spec

(* webhook.go on Close: it "stops the worker and drains the queue". Called  *)
(* with events on the queue it has a worker to drain them.                  *)
CloseFindsWorker ==
    [][closer = "none" /\ closer' = "waiting" /\ ch # <<>> => worker # "gone"]_vars
==============================================================================
