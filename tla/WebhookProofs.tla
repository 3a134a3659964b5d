---------------------------- MODULE WebhookProofs ----------------------------
(***************************************************************************)
(* For any number of emitters and events and any capacity: the dispatcher  *)
(* posts every event at most once and in order, and each of its steps is a *)
(* step of EventQueue or none.                                             *)
(***************************************************************************)
EXTENDS Webhook, SequenceTheorems, TLAPS

Event == 1..MaxEvents

(* The observed sequences hold events that were inserted. *)
HistoryOK ==
    /\ accepted \in Seq(Event) /\ taken \in Seq(Event) /\ delivered \in Seq(Event)
    /\ \A i \in DOMAIN accepted : accepted[i] \in 1..rows /\ match(accepted[i])

(* The event a goroutine carries was inserted, is no other goroutine's and  *)
(* was not accepted before.                                                 *)
EmittersOK ==
    \A g \in Emitter : emit[g] # Idle =>
        /\ emit[g] \in [at: {"hook", "send"}, event: 1..rows]
        /\ emit[g].at = "send" => match(emit[g].event)
        /\ \A i \in DOMAIN accepted : accepted[i] # emit[g].event
        /\ \A h \in Emitter \ {g} : emit[h].event # emit[g].event

Posting == worker \in {"post", "drainPost"}

(* While the worker posts, it posts the event it took last.                 *)
WorkerOK ==
    IF Posting THEN Len(taken) > 0 /\ current = <<taken[Len(taken)]>>
    ELSE current = <<>>

(* s is made of elements of t before the n-th and the n-th, in their order. *)
Embeds(s, t, n) ==
    \E at \in [1..Len(s) -> 1..n] :
        /\ \A i, j \in 1..Len(s) : i < j => at[i] < at[j]
        /\ \A i \in 1..Len(s) : s[i] = t[at[i]]

(* What was acknowledged was taken before the event being posted.           *)
InOrder == Embeds(delivered, taken, IF Posting THEN Len(taken) - 1 ELSE Len(taken))

(* The inductive invariant of the dispatcher.                               *)
IInv ==
    /\ TypeOK /\ HistoryOK /\ EmittersOK /\ WorkerOK /\ InOrder
    /\ taken \o ch = accepted
    /\ IsInjective(accepted)
-----------------------------------------------------------------------------
(* Facts about sequences. *)

LEMMA MoveHead ==
    ASSUME NEW S, NEW s \in Seq(S), NEW t \in Seq(S), t # <<>>
    PROVE  /\ Append(s, Head(t)) \o Tail(t) = s \o t
           /\ <<Head(t)>> \o Tail(t) = t
           /\ Head(t) \in S /\ Tail(t) \in Seq(S)
           /\ Len(Tail(t)) < Len(t)
<1>1. Head(t) \in S /\ Tail(t) \in Seq(S) /\ Len(Tail(t)) = Len(t) - 1 /\ Len(t) \in Nat
  BY HeadTailProperties, LenProperties
<1>2. <<Head(t)>> \in Seq(S)
  BY <1>1
<1>3. <<Head(t)>> \o Tail(t) = t
  BY <1>1, HeadTailProperties
<1>4. Append(s, Head(t)) = s \o <<Head(t)>>
  BY <1>1, AppendIsConcat
<1>5. (s \o <<Head(t)>>) \o Tail(t) = s \o (<<Head(t)>> \o Tail(t))
  BY <1>1, <1>2, ConcatAssociative
<1> QED
  BY <1>1, <1>3, <1>4, <1>5

LEMMA ConsHeadTail ==
    ASSUME NEW S, NEW e \in S, NEW t \in Seq(S)
    PROVE  <<e>> \o t # <<>> /\ Head(<<e>> \o t) = e /\ Tail(<<e>> \o t) = t
<1> DEFINE r == <<e>> \o t
<1>1. <<e>> \in Seq(S) /\ Len(<<e>>) = 1 /\ Len(t) \in Nat
  BY LenProperties
<1>2. /\ r \in Seq(S) /\ Len(r) = 1 + Len(t)
      /\ r[1] = e /\ \A i \in 1..Len(t) : r[i + 1] = t[i]
  BY <1>1, ConcatProperties
<1> HIDE DEF r
<1>3. r # <<>> /\ Head(r) = e
  BY <1>1, <1>2
<1>4. /\ Tail(r) \in Seq(S) /\ Len(Tail(r)) = Len(t)
      /\ \A i \in 1..Len(t) : Tail(r)[i] = t[i]
  BY <1>1, <1>2, <1>3, HeadTailProperties
<1>5. Tail(r) = t
  BY <1>4, SeqEqual
<1> QED
  BY <1>3, <1>5 DEF r

LEMMA AppendRight ==
    ASSUME NEW S, NEW s \in Seq(S), NEW t \in Seq(S), NEW e \in S
    PROVE  s \o Append(t, e) = Append(s \o t, e)
<1>1. <<e>> \in Seq(S) /\ s \o t \in Seq(S)
  BY ConcatProperties
<1>2. s \o (t \o <<e>>) = (s \o t) \o <<e>>
  BY <1>1, ConcatAssociative
<1> QED
  BY <1>1, <1>2, AppendIsConcat

(* An element appended keeps a sequence free of repetition if it is new.    *)
LEMMA AppendInjects ==
    ASSUME NEW S, NEW s \in Seq(S), NEW e \in S, IsInjective(s),
           \A i \in DOMAIN s : s[i] # e
    PROVE  IsInjective(Append(s, e))
BY AppendProperties, LenProperties DEF IsInjective

LEMMA EmbedsNone == Embeds(<<>>, <<>>, 0)
<1> DEFINE at == [i \in 1..0 |-> i]
<1>1. Len(<<>>) = 0 /\ at \in [1..0 -> 1..0]
  OBVIOUS
<1>2. \A i, j \in 1..0 : i < j => at[i] < at[j]
  OBVIOUS
<1>3. \A i \in 1..0 : <<>>[i] = <<>>[at[i]]
  OBVIOUS
<1> HIDE DEF at
<1> QED
  BY <1>1, <1>2, <1>3 DEF Embeds

LEMMA EmbedsFurther ==
    ASSUME NEW s, NEW t, NEW n \in Int, Embeds(s, t, n)
    PROVE  Embeds(s, t, n + 1)
BY DEF Embeds

LEMMA EmbedsAppend ==
    ASSUME NEW S, NEW s \in Seq(S), NEW t \in Seq(S), NEW e \in S, Embeds(s, t, Len(t))
    PROVE  Embeds(s, Append(t, e), Len(t))
<1> DEFINE r == Append(t, e)
<1>1. \A i \in 1..Len(t) : r[i] = t[i]
  BY AppendProperties, LenProperties
<1> HIDE DEF r
<1>2. PICK at \in [1..Len(s) -> 1..Len(t)] :
          /\ \A i, j \in 1..Len(s) : i < j => at[i] < at[j]
          /\ \A i \in 1..Len(s) : s[i] = t[at[i]]
  BY DEF Embeds
<1>3. \A i \in 1..Len(s) : s[i] = r[at[i]]
  BY <1>1, <1>2
<1>4. Embeds(s, r, Len(t))
  BY <1>2, <1>3 DEF Embeds
<1> QED
  BY <1>4 DEF r

(* The next element of t may come next in s. *)
LEMMA EmbedsNext ==
    ASSUME NEW S, NEW s \in Seq(S), NEW t \in Seq(S), Len(t) > 0, Embeds(s, t, Len(t) - 1)
    PROVE  Embeds(Append(s, t[Len(t)]), t, Len(t))
<1> DEFINE e == t[Len(t)]
           r == Append(s, e)
<1>1. Len(t) \in Nat /\ Len(s) \in Nat /\ e \in S
  BY LenProperties, ElementOfSeq
<1> HIDE DEF e
<1>2. /\ Len(r) = Len(s) + 1
      /\ \A i \in 1..Len(s) : r[i] = s[i]
      /\ r[Len(s) + 1] = e
  BY <1>1, AppendProperties
<1> HIDE DEF r
<1>3. PICK at \in [1..Len(s) -> 1..Len(t) - 1] :
          /\ \A i, j \in 1..Len(s) : i < j => at[i] < at[j]
          /\ \A i \in 1..Len(s) : s[i] = t[at[i]]
  BY DEF Embeds
<1> DEFINE at2 == [i \in 1..Len(s) + 1 |-> IF i <= Len(s) THEN at[i] ELSE Len(t)]
<1>4. at2 \in [1..Len(r) -> 1..Len(t)]
  BY <1>1, <1>2, <1>3
<1>5. \A i, j \in 1..Len(r) : i < j => at2[i] < at2[j]
  BY <1>1, <1>2, <1>3
<1>6. \A i \in 1..Len(r) : r[i] = t[at2[i]]
  BY <1>1, <1>2, <1>3 DEF e
<1>7. Embeds(r, t, Len(t))
  BY <1>4, <1>5, <1>6 DEF Embeds
<1> QED
  BY <1>7 DEF r, e
-----------------------------------------------------------------------------
(* The invariant holds at the start and every action keeps it. *)

LEMMA StartsIn == Init => IInv
<1> SUFFICES ASSUME Init PROVE IInv
  OBVIOUS
<1>1. TypeOK
  <2>1. <<>> \in Seq(1..MaxEvents) /\ Len(<<>>) = 0
    OBVIOUS
  <2>2. emit \in [Emitter -> [at: {"idle", "hook", "send"}, event: 0..MaxEvents]]
    BY EventsAssumption DEF Init, Idle
  <2> QED
    BY <2>1, <2>2, EventsAssumption, QueueAssumption, 0 \in 0..MaxEvents, 0 <= QueueSize,
       0 <= 1 DEF Init, TypeOK
<1>2. HistoryOK /\ EmittersOK /\ WorkerOK
  BY DEF Init, HistoryOK, EmittersOK, WorkerOK, Posting, Idle
<1>3. Len(taken) = 0 /\ ~Posting
  BY DEF Init, Posting
<1>4. InOrder
  BY <1>3, EmbedsNone DEF Init, InOrder
<1>5. taken \o ch = accepted /\ IsInjective(accepted)
  BY DEF Init, IsInjective
<1> QED
  BY <1>1, <1>2, <1>4, <1>5 DEF IInv

(* What a step of an emitter that puts nothing on the channel leaves alone. *)
LEMMA ChannelSame ==
    ASSUME IInv, UNCHANGED <<queueVars, workVars>>
    PROVE  WorkerOK' /\ InOrder' /\ taken' \o ch' = accepted' /\ IsInjective(accepted')
BY DEF IInv, WorkerOK, InOrder, Posting, queueVars, workVars

LEMMA AddEventKeeps ==
    ASSUME IInv, NEW g \in Emitter, AddEvent(g)
    PROVE  IInv'
<1> USE DEF queueVars, workVars
<1>1. rows \in Nat /\ MaxEvents \in Nat /\ rows' = rows + 1 /\ rows < MaxEvents
  BY EventsAssumption DEF IInv, TypeOK, AddEvent
<1>2. TypeOK'
  BY <1>1 DEF IInv, TypeOK, AddEvent
<1>3. HistoryOK'
  <2>1. \A i \in DOMAIN accepted : accepted[i] \in 1..rows + 1 /\ match(accepted[i])
    <3>1. \A i \in DOMAIN accepted : accepted[i] \in 1..rows /\ match(accepted[i])
      BY DEF IInv, HistoryOK
    <3>2. 1..rows \subseteq 1..rows + 1
      BY <1>1
    <3> QED
      BY <3>1, <3>2
  <2> QED
    BY <1>1, <2>1 DEF IInv, HistoryOK, AddEvent, match
<1>4. \A i \in DOMAIN accepted : accepted[i] # rows + 1
  <2>1. \A i \in DOMAIN accepted : accepted[i] \in 1..rows
    BY DEF IInv, HistoryOK
  <2> QED
    BY <1>1, <2>1
<1>5. /\ emit'[g] = [at |-> "hook", event |-> rows + 1]
      /\ \A h \in Emitter \ {g} : emit'[h] = emit[h]
      /\ accepted' = accepted
  BY DEF IInv, TypeOK, AddEvent
<1>6. \A h \in Emitter : emit[h].event # rows + 1
  <2>1. SUFFICES ASSUME NEW h \in Emitter PROVE emit[h].event # rows + 1
    OBVIOUS
  <2>2. CASE emit[h] = Idle
    BY <1>1, <2>2 DEF Idle
  <2>3. CASE emit[h] # Idle
    <3>1. emit[h].event \in 1..rows
      BY <2>3 DEF IInv, EmittersOK
    <3> QED
      BY <1>1, <3>1
  <2> QED
    BY <2>2, <2>3
<1>7. EmittersOK'
  <2>1. \A h \in Emitter : emit[h] # Idle =>
            /\ emit[h] \in [at: {"hook", "send"}, event: 1..rows + 1]
            /\ emit[h].at = "send" => match(emit[h].event)
            /\ \A i \in DOMAIN accepted : accepted[i] # emit[h].event
            /\ \A k \in Emitter \ {h} : emit[k].event # emit[h].event
    <3>1. \A h \in Emitter : emit[h] # Idle =>
              /\ emit[h] \in [at: {"hook", "send"}, event: 1..rows]
              /\ emit[h].at = "send" => match(emit[h].event)
              /\ \A i \in DOMAIN accepted : accepted[i] # emit[h].event
              /\ \A k \in Emitter \ {h} : emit[k].event # emit[h].event
      BY DEF IInv, EmittersOK
    <3>2. [at: {"hook", "send"}, event: 1..rows] \subseteq [at: {"hook", "send"}, event: 1..rows + 1]
      BY <1>1
    <3> QED
      BY <3>1, <3>2
  <2>2. emit'[g] \in [at: {"hook", "send"}, event: 1..rows + 1] /\ emit'[g].at # "send"
    BY <1>1, <1>5
  <2> QED
    BY <1>1, <1>4, <1>5, <1>6, <2>1, <2>2 DEF EmittersOK, match
<1>8. WorkerOK' /\ InOrder' /\ taken' \o ch' = accepted' /\ IsInjective(accepted')
  BY ChannelSame DEF AddEvent
<1> QED
  BY <1>2, <1>3, <1>7, <1>8 DEF IInv

LEMMA EmitCheckKeeps ==
    ASSUME IInv, NEW g \in Emitter, EmitCheck(g)
    PROVE  IInv'
<1> USE DEF queueVars, workVars
<1>1. emit[g] # Idle
  BY DEF EmitCheck, Idle
<1>2. /\ emit[g] \in [at: {"hook", "send"}, event: 1..rows]
      /\ rows \in Nat /\ rows <= MaxEvents /\ MaxEvents \in Nat
  <2>1. emit[g] \in [at: {"hook", "send"}, event: 1..rows]
    BY <1>1 DEF IInv, EmittersOK
  <2>2. rows \in Nat /\ rows <= MaxEvents /\ MaxEvents \in Nat
    BY EventsAssumption DEF IInv, TypeOK
  <2> QED
    BY <2>1, <2>2
<1>3. HistoryOK'
  BY DEF IInv, HistoryOK, EmitCheck, match
<1>4. \/ emit' = [emit EXCEPT ![g] = Idle]
      \/ /\ match(emit[g].event)
         /\ emit' = [emit EXCEPT ![g] = [at |-> "send", event |-> emit[g].event]]
  <2>1. [emit[g] EXCEPT !.at = "send"] = [at |-> "send", event |-> emit[g].event]
    BY <1>2
  <2>2. CASE match(emit[g].event) /\ ~closed
    BY <2>1, <2>2 DEF EmitCheck
  <2>3. CASE ~(match(emit[g].event) /\ ~closed)
    BY <2>3 DEF EmitCheck
  <2> QED
    BY <2>2, <2>3
<1>5. TypeOK'
  <2>1. emit' \in [Emitter -> [at: {"idle", "hook", "send"}, event: 0..MaxEvents]]
    <3>1. emit \in [Emitter -> [at: {"idle", "hook", "send"}, event: 0..MaxEvents]]
      BY DEF IInv, TypeOK
    <3>2. Idle \in [at: {"idle", "hook", "send"}, event: 0..MaxEvents]
      BY <1>2 DEF Idle
    <3>3. [at |-> "send", event |-> emit[g].event]
              \in [at: {"idle", "hook", "send"}, event: 0..MaxEvents]
      BY <1>2
    <3> QED
      BY <1>4, <3>1, <3>2, <3>3
  <2> QED
    BY <2>1 DEF IInv, TypeOK, EmitCheck
<1>6. EmittersOK'
  <2>1. /\ \/ emit'[g] = Idle
           \/ emit'[g] = [at |-> "send", event |-> emit[g].event] /\ match(emit[g].event)
        /\ \A h \in Emitter \ {g} : emit'[h] = emit[h]
    BY <1>4 DEF IInv, TypeOK
  <2>2. accepted' = accepted /\ rows' = rows
    BY DEF EmitCheck
  <2>3. \A h \in Emitter : emit[h] # Idle =>
            /\ emit[h] \in [at: {"hook", "send"}, event: 1..rows]
            /\ emit[h].at = "send" => match(emit[h].event)
            /\ \A i \in DOMAIN accepted : accepted[i] # emit[h].event
            /\ \A k \in Emitter \ {h} : emit[k].event # emit[h].event
    BY DEF IInv, EmittersOK
  <2>4. Idle.event = 0 /\ \A r \in [at: {"hook", "send"}, event: 1..rows] : r.event # 0
    BY <1>2 DEF Idle
  <2> QED
    BY <1>1, <1>2, <2>1, <2>2, <2>3, <2>4 DEF EmittersOK, match
<1>7. WorkerOK' /\ InOrder' /\ taken' \o ch' = accepted' /\ IsInjective(accepted')
  BY ChannelSame DEF EmitCheck
<1> QED
  BY <1>3, <1>5, <1>6, <1>7 DEF IInv

LEMMA EmitSendKeeps ==
    ASSUME IInv, NEW g \in Emitter, EmitSend(g)
    PROVE  IInv'
<1> USE DEF queueVars, workVars
<1>1. /\ emit' = [emit EXCEPT ![g] = Idle]
      /\ emit[g] # Idle /\ emit[g].at = "send"
      /\ UNCHANGED <<rows, closed, cancelled, workVars, closer>>
  BY DEF EmitSend, Idle
<1>2. /\ emit'[g] = Idle
      /\ \A h \in Emitter \ {g} : emit'[h] = emit[h]
      /\ emit' \in [Emitter -> [at: {"idle", "hook", "send"}, event: 0..MaxEvents]]
  BY <1>1, EventsAssumption DEF IInv, TypeOK, Idle
<1>3. CASE UNCHANGED queueVars
  <2>1. TypeOK'
    BY <1>1, <1>2, <1>3 DEF IInv, TypeOK
  <2>2. HistoryOK'
    BY <1>1, <1>3 DEF IInv, HistoryOK, match
  <2>3. EmittersOK'
    BY <1>1, <1>2, <1>3 DEF IInv, EmittersOK, Idle, match
  <2>4. WorkerOK' /\ InOrder' /\ taken' \o ch' = accepted' /\ IsInjective(accepted')
    BY <1>1, <1>3, ChannelSame
  <2> QED
    BY <2>1, <2>2, <2>3, <2>4 DEF IInv
<1>4. CASE Len(ch) < QueueSize /\ ch' = Append(ch, emit[g].event)
                               /\ accepted' = Append(accepted, emit[g].event)
  <2>1. PICK e : e = emit[g].event
    OBVIOUS
  <2>2. /\ e \in 1..rows /\ e \in Event /\ match(e)
        /\ \A i \in DOMAIN accepted : accepted[i] # e
        /\ \A h \in Emitter \ {g} : emit[h].event # e
    <3>1. rows \in Nat /\ rows <= MaxEvents /\ MaxEvents \in Nat
      BY EventsAssumption DEF IInv, TypeOK
    <3>2. /\ e \in 1..rows /\ match(e)
          /\ \A i \in DOMAIN accepted : accepted[i] # e
          /\ \A h \in Emitter \ {g} : emit[h].event # e
      BY <1>1, <2>1 DEF IInv, EmittersOK
    <3> QED
      BY <3>1, <3>2 DEF Event
  <2>3. /\ ch \in Seq(Event) /\ accepted \in Seq(Event) /\ taken \in Seq(Event)
        /\ ch' = Append(ch, e) /\ accepted' = Append(accepted, e)
        /\ UNCHANGED <<rows, closed, cancelled, worker, current, taken, delivered, closer>>
    BY <1>1, <1>4, <2>1 DEF IInv, HistoryOK, TypeOK, Event
  <2>4. /\ ch' \in Seq(Event) /\ Len(ch') = Len(ch) + 1 /\ Len(ch) \in Nat
        /\ accepted' \in Seq(Event)
        /\ \A i \in DOMAIN accepted' :
              accepted'[i] = e \/ (i \in DOMAIN accepted /\ accepted'[i] = accepted[i])
    <3>1. Append(ch, e) \in Seq(Event) /\ Len(Append(ch, e)) = Len(ch) + 1 /\ Len(ch) \in Nat
      BY <2>2, <2>3, AppendProperties, LenProperties
    <3>2. /\ Append(accepted, e) \in Seq(Event)
          /\ \A i \in DOMAIN Append(accepted, e) :
              \/ Append(accepted, e)[i] = e
              \/ i \in DOMAIN accepted /\ Append(accepted, e)[i] = accepted[i]
      BY <2>2, <2>3, AppendProperties, LenProperties
    <3> QED
      BY <2>3, <3>1, <3>2
  <2>5. TypeOK'
    BY <1>2, <1>4, <2>3, <2>4, QueueAssumption DEF IInv, TypeOK, Event
  <2>6. HistoryOK'
    BY <2>2, <2>3, <2>4 DEF IInv, HistoryOK, match
  <2>7. EmittersOK'
    BY <1>1, <1>2, <2>2, <2>3, <2>4 DEF IInv, EmittersOK, Idle, match
  <2>8. WorkerOK' /\ InOrder'
    BY <2>3 DEF IInv, WorkerOK, InOrder, Posting
  <2>9. taken' \o ch' = accepted'
    <3>1. taken \o Append(ch, e) = Append(taken \o ch, e)
      BY <2>3, AppendRight
    <3> QED
      BY <2>3, <3>1 DEF IInv
  <2>10. IsInjective(accepted')
    BY <2>2, <2>3, AppendInjects DEF IInv
  <2> QED
    BY <2>5, <2>6, <2>7, <2>8, <2>9, <2>10 DEF IInv
<1> QED
  BY <1>3, <1>4 DEF EmitSend

(* What a step that accepts no event leaves alone. *)
LEMMA AcceptedSame ==
    ASSUME IInv, UNCHANGED <<rows, emit, accepted>>
    PROVE  /\ EmittersOK' /\ IsInjective(accepted')
           /\ accepted' \in Seq(Event)
           /\ \A i \in DOMAIN accepted' : accepted'[i] \in 1..rows' /\ match(accepted'[i])
           /\ rows' \in 0..MaxEvents
           /\ emit' \in [Emitter -> [at: {"idle", "hook", "send"}, event: 0..MaxEvents]]
<1>1. EmittersOK' /\ IsInjective(accepted')
  BY DEF IInv, EmittersOK, match
<1>2. /\ accepted' \in Seq(Event)
      /\ \A i \in DOMAIN accepted' : accepted'[i] \in 1..rows' /\ match(accepted'[i])
  BY DEF IInv, HistoryOK
<1>3. /\ rows' \in 0..MaxEvents
      /\ emit' \in [Emitter -> [at: {"idle", "hook", "send"}, event: 0..MaxEvents]]
  BY DEF IInv, TypeOK
<1> QED
  BY <1>1, <1>2, <1>3

LEMMA ReceiveKeeps ==
    ASSUME IInv, NEW from \in {"select", "drain"}, NEW to \in {"post", "drainPost"},
           Receive(from, to)
    PROVE  IInv'
<1> DEFINE e == Head(ch)
<1>1. /\ ch \in Seq(Event) /\ taken \in Seq(Event) /\ delivered \in Seq(Event)
      /\ ch # <<>> /\ Len(ch) <= QueueSize /\ QueueSize \in Nat
      /\ taken \o ch = accepted
  BY QueueAssumption DEF IInv, HistoryOK, TypeOK, Receive, Event
<1>2. /\ e \in Event /\ Tail(ch) \in Seq(Event)
      /\ Len(Tail(ch)) < Len(ch) /\ Len(ch) \in Nat /\ Len(Tail(ch)) \in Nat
      /\ Append(taken, e) \o Tail(ch) = taken \o ch
  <2>1. /\ Append(taken, e) \o Tail(ch) = taken \o ch
        /\ e \in Event /\ Tail(ch) \in Seq(Event) /\ Len(Tail(ch)) < Len(ch)
    <3>1. ch \in Seq(Event) /\ taken \in Seq(Event) /\ ch # <<>>
      BY <1>1
    <3> QED
      BY <3>1, MoveHead
  <2> QED
    BY <1>1, <2>1, LenProperties
<1>3. /\ Append(taken, e) \in Seq(Event) /\ Len(Append(taken, e)) = Len(taken) + 1
      /\ Len(taken) \in Nat
      /\ Append(taken, e)[Len(taken) + 1] = e
  BY <1>1, <1>2, AppendProperties, LenProperties
<1>4. /\ worker' = to /\ current' = <<e>> /\ ch' = Tail(ch) /\ taken' = Append(taken, e)
      /\ UNCHANGED <<rows, emit, accepted, closed, cancelled, delivered, closer>>
      /\ ~Posting /\ Posting'
  BY DEF Receive, Posting
<1> HIDE DEF e
<1>5. TypeOK'
  <2>1. <<e>> \in Seq(1..MaxEvents) /\ Len(<<e>>) <= 1
    BY <1>2 DEF Event
  <2>2. ch' \in Seq(1..MaxEvents) /\ Len(ch') <= QueueSize
    BY <1>1, <1>2, <1>4 DEF Event
  <2>3. /\ closed' \in BOOLEAN /\ cancelled' \in BOOLEAN
        /\ closer' \in {"none", "waiting", "returned"}
    BY <1>4 DEF IInv, TypeOK
  <2> QED
    BY <1>4, <2>1, <2>2, <2>3, AcceptedSame DEF TypeOK
<1>6. HistoryOK'
  BY <1>1, <1>3, <1>4, AcceptedSame DEF HistoryOK
<1>7. WorkerOK'
  <2>1. Len(taken') = Len(taken) + 1 /\ taken'[Len(taken')] = e
    BY <1>3, <1>4
  <2>2. Len(taken') > 0 /\ current' = <<taken'[Len(taken')]>>
    BY <1>3, <1>4, <2>1
  <2> QED
    BY <1>4, <2>2 DEF WorkerOK
<1>8. InOrder'
  <2>1. Embeds(delivered, taken, Len(taken))
    BY <1>4 DEF IInv, InOrder
  <2>2. Embeds(delivered, Append(taken, e), Len(taken))
    BY <1>1, <1>2, <2>1, EmbedsAppend
  <2>3. Len(taken') - 1 = Len(taken)
    BY <1>3, <1>4
  <2> QED
    BY <1>4, <2>2, <2>3 DEF InOrder
<1>9. taken' \o ch' = accepted'
  BY <1>1, <1>2, <1>4
<1> QED
  BY <1>4, <1>5, <1>6, <1>7, <1>8, <1>9, AcceptedSame DEF IInv

LEMMA PostKeeps ==
    ASSUME IInv, NEW from \in {"post", "drainPost"}, NEW to \in {"select", "drain"},
           NEW acked \in BOOLEAN, post(from, to, acked)
    PROVE  IInv'
<1>1. /\ worker' = to /\ current' = <<>>
      /\ UNCHANGED <<rows, emit, ch, accepted, closed, cancelled, taken, closer>>
      /\ Posting /\ ~Posting'
  BY DEF post, Posting, queueVars
<1>2. /\ taken \in Seq(Event) /\ delivered \in Seq(Event) /\ Len(taken) \in Nat
      /\ Len(taken) > 0 /\ current = <<taken[Len(taken)]>> /\ taken[Len(taken)] \in Event
  <2>1. /\ taken \in Seq(Event) /\ delivered \in Seq(Event)
        /\ Len(taken) > 0 /\ current = <<taken[Len(taken)]>>
    BY <1>1 DEF IInv, HistoryOK, WorkerOK
  <2> QED
    BY <2>1, LenProperties, ElementOfSeq
<1>3. delivered' = delivered \/ delivered' = Append(delivered, taken[Len(taken)])
  <2>1. delivered \o <<taken[Len(taken)]>> = Append(delivered, taken[Len(taken)])
    BY <1>2, AppendIsConcat
  <2> QED
    BY <1>2, <2>1 DEF post
<1>4. TypeOK'
  <2>1. <<>> \in Seq(1..MaxEvents) /\ Len(<<>>) <= 1
    OBVIOUS
  <2>2. /\ ch' \in Seq(1..MaxEvents) /\ Len(ch') <= QueueSize
        /\ closed' \in BOOLEAN /\ cancelled' \in BOOLEAN
        /\ closer' \in {"none", "waiting", "returned"}
    BY <1>1 DEF IInv, TypeOK
  <2> QED
    BY <1>1, <2>1, <2>2, AcceptedSame DEF TypeOK
<1>5. HistoryOK'
  <2>1. taken' \in Seq(Event) /\ delivered' \in Seq(Event)
    BY <1>1, <1>2, <1>3, AppendProperties
  <2> QED
    BY <1>1, <2>1, AcceptedSame DEF HistoryOK
<1>6. WorkerOK'
  BY <1>1 DEF WorkerOK
<1>7. InOrder'
  <2>1. Embeds(delivered, taken, Len(taken) - 1)
    BY <1>1 DEF IInv, InOrder
  <2>2. Embeds(delivered, taken, Len(taken))
    <3>1. Len(taken) - 1 \in Int /\ (Len(taken) - 1) + 1 = Len(taken)
      BY <1>2
    <3>2. Embeds(delivered, taken, (Len(taken) - 1) + 1)
      BY <3>1, <2>1, EmbedsFurther
    <3> QED
      BY <3>1, <3>2
  <2>3. Embeds(Append(delivered, taken[Len(taken)]), taken, Len(taken))
    BY <1>2, <2>1, EmbedsNext
  <2>4. Embeds(delivered', taken, Len(taken))
    BY <1>3, <2>2, <2>3
  <2> QED
    BY <1>1, <2>4 DEF InOrder
<1>8. taken' \o ch' = accepted'
  BY <1>1 DEF IInv
<1> QED
  BY <1>1, <1>4, <1>5, <1>6, <1>7, <1>8, AcceptedSame DEF IInv

(* The steps that move no event. *)
LEMMA ControlKeeps ==
    ASSUME IInv, UNCHANGED <<rows, emit, ch, accepted, taken, delivered, current>>,
           closed' \in BOOLEAN, cancelled' \in BOOLEAN,
           closer' \in {"none", "waiting", "returned"},
           \/ worker' = worker
           \/ ~Posting /\ worker' \in {"drain", "gone"}
    PROVE  IInv'
<1>1. /\ worker' \in {"select", "post", "drain", "drainPost", "gone"}
      /\ Posting' = Posting
  BY DEF IInv, TypeOK, Posting
<1>2. TypeOK'
  BY <1>1 DEF IInv, TypeOK
<1>3. HistoryOK' /\ WorkerOK' /\ InOrder'
  BY <1>1, AcceptedSame DEF IInv, HistoryOK, WorkerOK, InOrder
<1> QED
  BY <1>2, <1>3, AcceptedSame DEF IInv

LEMMA StepKeeps == IInv /\ [Next]_vars => IInv'
<1> SUFFICES ASSUME IInv, [Next]_vars PROVE IInv'
  OBVIOUS
<1> USE DEF queueVars, workVars
<1>0. /\ closed \in BOOLEAN /\ cancelled \in BOOLEAN
      /\ closer \in {"none", "waiting", "returned"}
  BY DEF IInv, TypeOK
<1>1. ASSUME NEW g \in Emitter, AddEvent(g) PROVE IInv'
  BY <1>1, AddEventKeeps
<1>2. ASSUME NEW g \in Emitter, EmitterStep(g) PROVE IInv'
  BY <1>2, EmitCheckKeeps, EmitSendKeeps DEF EmitterStep
<1>3. CASE loopReceive \/ drainReceive
  BY <1>3, ReceiveKeeps DEF loopReceive, drainReceive
<1>4. CASE loopPost \/ drainPost
  BY <1>4, PostKeeps DEF loopPost, drainPost
<1>5. CASE loopDone
  BY <1>0, <1>5, ControlKeeps DEF loopDone, Posting
<1>6. CASE drainEmpty
  BY <1>0, <1>6, ControlKeeps DEF drainEmpty, Posting
<1>7. CASE Signal
  BY <1>0, <1>7, ControlKeeps DEF Signal
<1>8. CASE Close
  BY <1>0, <1>8, ControlKeeps DEF Close
<1>9. CASE CloseReturns
  BY <1>0, <1>9, ControlKeeps DEF CloseReturns
<1>10. CASE UNCHANGED vars
  BY <1>0, <1>10, ControlKeeps DEF vars
<1> QED
  BY <1>1, <1>2, <1>3, <1>4, <1>5, <1>6, <1>7, <1>8, <1>9, <1>10
     DEF Next, WorkerStep, Stopped

LEMMA SpecIInv == Spec => []IInv
BY StartsIn, StepKeeps, PTL DEF Spec

(* The channel never exceeds its capacity, whoever calls Emit at once, and  *)
(* the worker holds one event at most.                                      *)
THEOREM TypeCorrect == Spec => []TypeOK
<1>1. IInv => TypeOK
  BY DEF IInv
<1> QED
  BY <1>1, SpecIInv, PTL

(* Events are posted at most once, in the order they were accepted, across  *)
(* the loop and the drain, and the controller sees none that was filtered.  *)
THEOREM DeliveredOnceInOrder == Spec => []AtMostOnceInOrder
<1>1. IInv => AtMostOnceInOrder
  <2> SUFFICES ASSUME IInv PROVE AtMostOnceInOrder
    OBVIOUS
  <2>1. taken \in Seq(Event) /\ delivered \in Seq(Event) /\ Len(taken) \in Nat
    BY LenProperties DEF IInv, HistoryOK
  <2>2. DOMAIN taken = 1..Len(taken) /\ DOMAIN delivered = 1..Len(delivered)
    BY <2>1, LenProperties
  <2>3. Embeds(delivered, taken, Len(taken))
    <3>1. Embeds(delivered, taken, Len(taken) - 1) => Embeds(delivered, taken, Len(taken))
      <4>1. Len(taken) - 1 \in Int /\ (Len(taken) - 1) + 1 = Len(taken)
        BY <2>1
      <4> HIDE DEF Embeds
      <4>2. Embeds(delivered, taken, Len(taken) - 1)
                => Embeds(delivered, taken, (Len(taken) - 1) + 1)
        BY <4>1, EmbedsFurther
      <4> QED
        BY <4>1, <4>2
    <3> QED
      BY <3>1 DEF IInv, InOrder
  <2>4. InOrderFrom(delivered, taken)
    BY <2>2, <2>3 DEF Embeds, InOrderFrom
  <2>5. \A i \in DOMAIN accepted : match(accepted[i])
    BY DEF IInv, HistoryOK
  <2> QED
    BY <2>4, <2>5 DEF IInv, AtMostOnceInOrder
<1> QED
  BY <1>1, SpecIInv, PTL
-----------------------------------------------------------------------------
(* Each step is a step of the queue its callers see, or none. *)

Offered == {emit[g].event : g \in {h \in Emitter : emit[h] # Idle}}

(* Nobody else offers the event that a goroutine gives up. *)
LEMMA OfferedDrops ==
    ASSUME IInv, NEW g \in Emitter, emit[g] # Idle, emit' = [emit EXCEPT ![g] = Idle]
    PROVE  /\ Offered' = Offered \ {emit[g].event}
           /\ emit[g].event \in Offered /\ emit[g].event \in Event
<1>1. /\ emit'[g] = Idle
      /\ \A h \in Emitter \ {g} : emit'[h] = emit[h] /\ emit[h].event # emit[g].event
      /\ emit[g].event \in 1..rows
  BY DEF IInv, TypeOK, EmittersOK
<1>2. emit[g].event \in Event
  BY <1>1, EventsAssumption DEF IInv, TypeOK, Event
<1>3. Offered' = Offered \ {emit[g].event}
  BY <1>1 DEF Offered
<1>4. emit[g].event \in Offered
  BY DEF Offered
<1> QED
  BY <1>2, <1>3, <1>4

LEMMA StartMaps == Init => Queue!Init
<1> SUFFICES ASSUME Init PROVE Queue!Init
  OBVIOUS
<1>1. 1..rows = {} /\ Offered = {} /\ current \o ch = <<>>
  BY DEF Init, Offered
<1> QED
  BY <1>1 DEF Init, Queue!Init, Offered

(* What the queue does not see. *)
LEMMA QueueSame ==
    ASSUME UNCHANGED <<rows, emit, ch, current, delivered>>,
           (worker = "gone") = (worker = "gone")'
    PROVE  UNCHANGED Queue!vars
BY DEF Queue!vars

LEMMA AddEventMaps ==
    ASSUME IInv, NEW g \in Emitter, AddEvent(g)
    PROVE  \E e \in Event : Queue!Raise(e)
<1>1. /\ rows \in Nat /\ rows < MaxEvents /\ MaxEvents \in Nat
      /\ rows' = rows + 1 /\ emit[g] = Idle
      /\ emit' = [emit EXCEPT ![g] = [at |-> "hook", event |-> rows + 1]]
      /\ UNCHANGED <<ch, current, delivered, worker>>
  BY EventsAssumption DEF IInv, TypeOK, AddEvent, queueVars, workVars
<1> PICK e : e = rows + 1
  OBVIOUS
<1>2. e \in Event /\ e \notin 1..rows /\ 1..rows' = 1..rows \cup {e}
  BY <1>1 DEF Event
<1>3. Offered' = Offered \cup {e}
  <2>1. /\ emit'[g] = [at |-> "hook", event |-> rows + 1] /\ emit'[g] # Idle
        /\ \A h \in Emitter \ {g} : emit'[h] = emit[h]
    BY <1>1 DEF IInv, TypeOK, Idle
  <2> QED
    BY <1>1, <2>1 DEF Offered
<1>4. Queue!Raise(e)
  BY <1>1, <1>2, <1>3 DEF Queue!Raise, Offered
<1> QED
  BY <1>2, <1>4

LEMMA EmitCheckMaps ==
    ASSUME IInv, NEW g \in Emitter, EmitCheck(g)
    PROVE  UNCHANGED Queue!vars \/ \E e \in Event : Queue!Refuse(e)
<1>1. /\ emit[g] # Idle /\ emit[g].at = "hook"
      /\ UNCHANGED <<rows, ch, current, delivered, worker>>
  BY DEF EmitCheck, Idle, queueVars, workVars
<1>2. CASE match(emit[g].event) /\ ~closed
  <2>1. emit' = [emit EXCEPT ![g] = [emit[g] EXCEPT !.at = "send"]]
    BY <1>2 DEF EmitCheck
  <2>2. emit[g] \in [at: {"hook", "send"}, event: 1..rows]
    BY <1>1 DEF IInv, EmittersOK
  <2>3. /\ emit'[g] # Idle /\ emit'[g].event = emit[g].event
        /\ \A h \in Emitter \ {g} : emit'[h] = emit[h]
    BY <2>1, <2>2 DEF IInv, TypeOK, Idle
  <2>4. Offered' = Offered
    BY <1>1, <2>3 DEF Offered
  <2> QED
    BY <1>1, <2>4 DEF Queue!vars, Offered
<1>3. CASE ~(match(emit[g].event) /\ ~closed)
  <2>1. emit' = [emit EXCEPT ![g] = Idle]
    BY <1>3 DEF EmitCheck
  <2> PICK e : e = emit[g].event
    OBVIOUS
  <2>2. Offered' = Offered \ {e} /\ e \in Offered /\ e \in Event
    BY <1>1, <2>1, OfferedDrops
  <2>3. Queue!Refuse(e)
    BY <1>1, <2>2 DEF Queue!Refuse, Offered
  <2> QED
    BY <2>2, <2>3
<1> QED
  BY <1>2, <1>3

LEMMA EmitSendMaps ==
    ASSUME IInv, NEW g \in Emitter, EmitSend(g)
    PROVE  \E e \in Event : Queue!Accept(e) \/ Queue!Refuse(e)
<1>1. /\ emit[g] # Idle /\ emit' = [emit EXCEPT ![g] = Idle]
      /\ UNCHANGED <<rows, current, delivered, worker>>
  BY DEF EmitSend, Idle, workVars
<1>2. PICK e : e = emit[g].event
  OBVIOUS
<1>3. Offered' = Offered \ {e} /\ e \in Offered /\ e \in Event
  BY <1>1, <1>2, OfferedDrops
<1>4. CASE UNCHANGED queueVars
  <2>1. Queue!Refuse(e)
    BY <1>1, <1>3, <1>4 DEF Queue!Refuse, Offered, queueVars
  <2> QED
    BY <1>3, <2>1
<1>5. CASE Len(ch) < QueueSize /\ ch' = Append(ch, e)
  <2>1. /\ ch \in Seq(Event) /\ current \in Seq(Event)
        /\ Len(current) <= 1 /\ QueueSize \in Nat
    BY QueueAssumption DEF IInv, TypeOK, Event
  <2>2. Len(current \o ch) < QueueSize + 1
    BY <1>5, <2>1, ConcatProperties, LenProperties
  <2>3. current \o Append(ch, e) = Append(current \o ch, e)
    BY <1>3, <2>1, AppendRight
  <2>4. Queue!Accept(e)
    BY <1>1, <1>3, <1>5, <2>2, <2>3 DEF Queue!Accept, Offered
  <2> QED
    BY <1>3, <2>4
<1> QED
  BY <1>2, <1>4, <1>5 DEF EmitSend

LEMMA ReceiveMaps ==
    ASSUME IInv, NEW from \in {"select", "drain"}, NEW to \in {"post", "drainPost"},
           Receive(from, to)
    PROVE  UNCHANGED Queue!vars
<1>1. /\ current = <<>> /\ ch \in Seq(Event) /\ ch # <<>>
      /\ current' = <<Head(ch)>> /\ ch' = Tail(ch)
      /\ UNCHANGED <<rows, emit, delivered>>
      /\ worker # "gone" /\ worker' # "gone"
  BY DEF IInv, TypeOK, WorkerOK, Posting, Receive, Event
<1>2. <<Head(ch)>> \o Tail(ch) = ch
  BY <1>1, MoveHead
<1>3. current' \o ch' = current \o ch
  BY <1>1, <1>2, ConcatEmptySeq
<1> QED
  BY <1>1, <1>3 DEF Queue!vars

LEMMA PostMaps ==
    ASSUME IInv, NEW from \in {"post", "drainPost"}, NEW to \in {"select", "drain"},
           NEW acked \in BOOLEAN, post(from, to, acked)
    PROVE  Queue!Take
<1>1. /\ current = <<taken[Len(taken)]>> /\ taken \in Seq(Event) /\ Len(taken) > 0
      /\ ch \in Seq(Event) /\ delivered \in Seq(Event)
      /\ current' = <<>> /\ UNCHANGED <<rows, emit, ch>>
      /\ worker # "gone" /\ worker' # "gone"
  BY DEF IInv, TypeOK, HistoryOK, WorkerOK, Posting, post, queueVars, Event
<1>2. PICK e \in Event : e = taken[Len(taken)]
  BY <1>1, LenProperties, ElementOfSeq
<1>3. /\ current \o ch # <<>> /\ Head(current \o ch) = e
      /\ Tail(current \o ch) = ch
  BY <1>1, <1>2, ConsHeadTail
<1>4. current' \o ch' = ch
  BY <1>1, ConcatEmptySeq
<1>5. delivered \o current = Append(delivered, e)
  BY <1>1, <1>2, AppendIsConcat
<1>6. delivered' \in {delivered, Append(delivered, e)}
  BY <1>5 DEF post
<1> QED
  BY <1>1, <1>3, <1>4, <1>6 DEF Queue!Take

LEMMA DrainEmptyMaps == IInv /\ drainEmpty => Queue!Stop
<1> SUFFICES ASSUME IInv, drainEmpty PROVE Queue!Stop
  OBVIOUS
<1>1. /\ current = <<>> /\ ch = <<>> /\ worker = "drain" /\ worker' = "gone"
      /\ UNCHANGED <<rows, emit, ch, current, delivered>>
  BY DEF IInv, WorkerOK, Posting, drainEmpty, queueVars
<1>2. current \o ch = <<>>
  BY <1>1
<1> QED
  BY <1>1, <1>2 DEF Queue!Stop

LEMMA StepMaps == IInv /\ [Next]_vars => [Queue!Next]_Queue!vars
<1> SUFFICES ASSUME IInv, [Next]_vars PROVE Queue!Next \/ UNCHANGED Queue!vars
  OBVIOUS
<1> USE DEF queueVars, workVars
<1>1. ASSUME NEW g \in Emitter, AddEvent(g) PROVE Queue!Next
  BY <1>1, AddEventMaps DEF Queue!Next, Event
<1>2. ASSUME NEW g \in Emitter, EmitterStep(g)
      PROVE  Queue!Next \/ UNCHANGED Queue!vars
  BY <1>2, EmitCheckMaps, EmitSendMaps DEF EmitterStep, Queue!Next, Event
<1>3. CASE loopReceive \/ drainReceive
  BY <1>3, ReceiveMaps DEF loopReceive, drainReceive
<1>4. CASE loopPost \/ drainPost
  BY <1>4, PostMaps DEF loopPost, drainPost, Queue!Next
<1>5. CASE loopDone
  BY <1>5, QueueSame DEF loopDone
<1>6. CASE drainEmpty
  BY <1>6, DrainEmptyMaps DEF Queue!Next
<1>7. CASE Signal \/ Close \/ CloseReturns \/ UNCHANGED vars
  BY <1>7, QueueSame DEF Signal, Close, CloseReturns, vars
<1> QED
  BY <1>1, <1>2, <1>3, <1>4, <1>5, <1>6, <1>7 DEF Next, WorkerStep, Stopped

(* The dispatcher, with Emit's check and send apart, the select between     *)
(* context and channel, the drain and Close, does nothing that a bounded    *)
(* queue which loses or delivers its oldest event would not do, and         *)
(* delivery stops only when that queue is empty.                            *)
THEOREM DispatcherIsQueue == Spec => Queue!SafeSpec
BY StartMaps, StepMaps, SpecIInv, PTL DEF Spec, Queue!SafeSpec
=============================================================================
