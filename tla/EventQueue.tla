------------------------------ MODULE EventQueue ------------------------------
(***************************************************************************)
(* What the webhook dispatcher promises to the code that raises events and *)
(* to the controller that receives them, without goroutines, context and   *)
(* mutex: a bounded FIFO from which events are delivered once or lost, and *)
(* which is left empty when delivery stops.                                *)
(***************************************************************************)
EXTENDS Naturals, Sequences, SequencesExt

CONSTANTS
    Event,     \* the events that may be raised
    Capacity   \* accepted events that may wait at once

VARIABLES
    raised,    \* events raised so far
    offered,   \* raised, not yet accepted or refused
    queue,     \* accepted, neither delivered nor lost, oldest first
    out,       \* delivered, in order
    stopped    \* delivery has ended

vars == <<raised, offered, queue, out, stopped>>

Raise(e) ==
    /\ e \notin raised
    /\ raised' = raised \cup {e}
    /\ offered' = offered \cup {e}
    /\ UNCHANGED <<queue, out, stopped>>

(* Nobody waits for room: an event finds some or is refused. *)
Accept(e) ==
    /\ e \in offered
    /\ Len(queue) < Capacity
    /\ offered' = offered \ {e}
    /\ queue' = Append(queue, e)
    /\ UNCHANGED <<raised, out, stopped>>

Refuse(e) ==
    /\ e \in offered
    /\ offered' = offered \ {e}
    /\ UNCHANGED <<raised, queue, out, stopped>>

(* The oldest event is delivered or lost, and gone either way. *)
Take ==
    /\ ~stopped
    /\ queue # <<>>
    /\ queue' = Tail(queue)
    /\ out' \in {out, Append(out, Head(queue))}
    /\ UNCHANGED <<raised, offered, stopped>>

Stop ==
    /\ ~stopped
    /\ queue = <<>>
    /\ stopped' = TRUE
    /\ UNCHANGED <<raised, offered, queue, out>>

Init ==
    /\ raised = {}
    /\ offered = {}
    /\ queue = <<>>
    /\ out = <<>>
    /\ stopped = FALSE

Next == (\E e \in Event : Raise(e) \/ Accept(e) \/ Refuse(e)) \/ Take \/ Stop

SafeSpec == Init /\ [][Next]_vars

(* What waits is taken in the end, as long as delivery has not stopped. *)
Spec == SafeSpec /\ WF_vars(Take)
==============================================================================
