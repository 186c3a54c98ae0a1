-------------------------- MODULE Webhooks_proofs --------------------------
(***************************************************************************)
(* What holds of Webhooks for any number of requests, emissions and releases *)
(* and any declared events: its type, the sink's books, what Close promises   *)
(* once it has returned and who can send on a closed channel (IInv); the      *)
(* order of the log (OrderInv); that every delivery is in one place           *)
(* (AccountInv); and that a change is announced whole (CallInv).              *)
(***************************************************************************)
EXTENDS Webhooks, WellFoundedInduction, SequenceTheorems, FiniteSetTheorems, TLAPS

Step == {"start", "enqueue", "faults", "load", "store", "sink", "send", "done", "panicked"}
Fault == [kind : FaultKind, event : FaultEvent, held : Delivery \cup {None}]

-----------------------------------------------------------------------------
(* The inductive invariant *)

LogInv ==
  /\ webhookMu \in Thread \cup {None} /\ webhookSeq \in Nat
  /\ webhookLog \in Seq(Delivery) /\ Len(webhookLog) <= MaxLog
  /\ faults \in Seq(Fault)

SinkInv ==
  /\ sinkCh \in Seq(Delivery) /\ Len(sinkCh) <= QueueCap
  /\ sinkClosed \in BOOLEAN /\ sinkDone \in BOOLEAN /\ inHand \in Delivery \cup {None}
  /\ counters \in [delivered : Nat, failed : Nat, dropped : Nat]
  /\ closer \in {"idle", "waiting", "returned", "timed out"}
  /\ appended \in Nat

ThreadInv ==
  /\ step \in [Thread -> Step]
  /\ built \in [Thread -> Seq(Delivery)] /\ emit \in [Thread -> Seq(Delivery)]
  /\ loaded \in [Thread -> Seq(Delivery)]
  /\ \A t \in Thread : step[t] \in {"load", "store", "sink", "send"} => emit[t] # <<>>

\* Who announces holds webhookMu from building to the last append, and so the
\* sink it has found open is open when it sends.
LockInv ==
  \A t \in Thread \ Clearer :
    /\ step[t] \in {"faults", "load", "store", "sink", "send"} => webhookMu = t
    /\ step[t] = "send" => ~sinkClosed

\* Close closes the channel, and the loop ends when nothing is left in it.
CloseInv ==
  /\ closer # "idle" => sinkClosed
  /\ sinkDone => sinkClosed /\ sinkCh = <<>> /\ inHand = None
  /\ closer = "returned" => sinkDone

IInv ==
  /\ LogInv /\ SinkInv /\ ThreadInv /\ LockInv /\ CloseInv
  /\ SinkAccounting /\ OnlyReleasePanics

-----------------------------------------------------------------------------
(* Lemmas *)

\* The smallest of some numbers is one of them.
LEMMA MinIsIn ==
  ASSUME NEW S \in SUBSET Nat, S # {}
  PROVE  Min(S) \in S
<1> DEFINE R == {ss \in Nat \X Nat : ss[1] < ss[2]}
<1>1. IsWellFoundedOn(R, Nat)
  BY NatLessThanWellFounded DEF OpToRel
<1> HIDE DEF R
<1>2. PICK x \in S : \A y \in S : ~ (<<y, x>> \in R)
  BY <1>1, WFMin
<1>3. \A y \in S : y < x => <<y, x>> \in R
  BY DEF R
<1>4. ASSUME NEW y \in S PROVE x <= y
  <2>1. x \in Nat /\ y \in Nat
    OBVIOUS
  <2>2. ~ (y < x)
    BY <1>2, <1>3
  <2> QED BY <2>1, <2>2
<1> QED BY <1>4 DEF Min

\* An enumeration of positions is a sequence of them.
LEMMA InOrderIsSeq ==
  ASSUME NEW n \in Nat, NEW S \in SUBSET (1 .. n), NEW order \in InOrder(S)
  PROVE  order \in Seq(S) /\ DOMAIN order = 1 .. Len(order) /\ Len(order) \in Nat
<1>1. IsFiniteSet(1 .. n)
  BY FS_Interval
<1>2. IsFiniteSet(S)
  BY <1>1, FS_Subset
<1>3. Cardinality(S) \in Nat
  BY <1>2, FS_CardinalityType
<1>4. order \in [1 .. Cardinality(S) -> S]
  BY DEF InOrder
<1> QED BY <1>3, <1>4

LEMMA RemoveAtIsSeq ==
  ASSUME NEW T, NEW s \in Seq(T), NEW i \in 1 .. Len(s)
  PROVE  RemoveAt(s, i) \in Seq(T)
<1>1. SubSeq(s, 1, i - 1) \in Seq(T)
  <2>1. \A j \in 1 .. i - 1 : s[j] \in T
    BY LenProperties, ElementOfSeq
  <2> QED BY <2>1, SubSeqProperties
<1>2. SubSeq(s, i + 1, Len(s)) \in Seq(T)
  <2>1. \A j \in i + 1 .. Len(s) : s[j] \in T
    BY LenProperties, ElementOfSeq
  <2> QED BY <2>1, LenProperties, SubSeqProperties
<1> QED BY <1>1, <1>2, ConcatProperties DEF RemoveAt

\* What a full log keeps.
LEMMA LastNIsSeq ==
  ASSUME NEW T, NEW s \in Seq(T), NEW n \in Nat
  PROVE  LastN(s, n) \in Seq(T) /\ Len(LastN(s, n)) <= n
<1>1. Len(s) \in Nat
  BY LenProperties
<1> DEFINE from == IF Len(s) > n THEN Len(s) - n + 1 ELSE 1
<1>2. from \in Int /\ from >= 1 /\ Len(s) - from + 1 <= n
  BY <1>1
<1>3. \A j \in from .. Len(s) : s[j] \in T
  BY <1>1, <1>2, ElementOfSeq
<1>4. /\ SubSeq(s, from, Len(s)) \in Seq(T)
      /\ Len(SubSeq(s, from, Len(s))) = IF from <= Len(s) THEN Len(s) - from + 1 ELSE 0
  BY <1>1, <1>2, <1>3, SubSeqProperties
<1> QED BY <1>1, <1>2, <1>4 DEF LastN

\* The deliveries that are built are deliveries.
LEMMA BuildIsSeq ==
  ASSUME NEW events \in Seq(Event), NEW of \in Thread, webhookSeq \in Nat
  PROVE  Build(events, of) \in Seq(Delivery)
<1>1. Len(events) \in Nat /\ DOMAIN events = 1 .. Len(events)
  BY LenProperties
<1>2. \A i \in 1 .. Len(events) : events[i] \in Event
  BY ElementOfSeq
<1>3. Build(events, of) \in [1 .. Len(events) -> Delivery]
  BY <1>1, <1>2 DEF Build, Delivery
<1> QED BY <1>1, <1>3

\* What a fault makes of a delivery: deliveries, a number of new numbers, and
\* faults.
LEMMA FaultOutcomeType ==
  ASSUME faults \in Seq(Fault), webhookSeq \in Nat, NEW d \in Delivery
  PROVE  /\ FaultOutcome(d).faults \in Seq(Fault)
         /\ FaultOutcome(d).emitted \in Seq(Delivery)
         /\ FaultOutcome(d).given \in Nat
<1>1. CASE Matching(d) = {}
  BY <1>1 DEF FaultOutcome, Outcome
<1>2. CASE Matching(d) # {}
  <2> DEFINE i == Min(Matching(d))
  <2>1. i \in 1 .. Len(faults)
    <3>1. DOMAIN faults = 1 .. Len(faults) /\ Len(faults) \in Nat
      BY LenProperties
    <3>2. Matching(d) \in SUBSET Nat /\ Matching(d) \subseteq 1 .. Len(faults)
      BY <3>1 DEF Matching
    <3> QED BY <1>2, <3>2, MinIsIn
  <2> HIDE DEF i
  <2>2. faults[i] \in Fault
    BY <2>1, ElementOfSeq
  <2>3. Without(i) \in Seq(Fault)
    BY <2>1, RemoveAtIsSeq DEF Without
  <2>4. [d EXCEPT !.seq = webhookSeq + 1] \in Delivery /\ [d EXCEPT !.late = TRUE] \in Delivery
    <3>1. webhookSeq + 1 \in Nat /\ TRUE \in BOOLEAN
      OBVIOUS
    <3> HIDE DEF Thread
    <3>2. [d EXCEPT !.seq = webhookSeq + 1] \in Delivery
      BY <3>1 DEF Delivery
    <3>3. [d EXCEPT !.late = TRUE] \in Delivery
      BY <3>1 DEF Delivery
    <3> QED BY <3>2, <3>3
  <2>5. faults[i].kind \in {"duplicate", "drop", "delay", "reorder"}
    BY <2>2, WebhooksAssumption DEF Fault
  <2>6. CASE faults[i].kind = "duplicate"
    <3>1. FaultOutcome(d) = Duplicated(d, i)
      BY <1>2, <2>6 DEF FaultOutcome, i
    <3> QED BY <2>3, <2>4, <3>1 DEF Duplicated, Outcome
  <2>7. CASE faults[i].kind = "drop"
    <3>1. FaultOutcome(d) = Dropped(d, i)
      BY <1>2, <2>7 DEF FaultOutcome, i
    <3> QED BY <2>3, <3>1 DEF Dropped, Outcome
  <2>8. CASE faults[i].kind = "delay"
    <3>1. FaultOutcome(d) = Delayed(d, i)
      BY <1>2, <2>8 DEF FaultOutcome, i
    <3> QED BY <2>3, <2>4, <3>1 DEF Delayed, Outcome
  <2>9. CASE faults[i].kind = "reorder"
    <3>1. FaultOutcome(d) = Reordered(d, i)
      BY <1>2, <2>9 DEF FaultOutcome, i
    <3>2. [faults EXCEPT ![i].held = d] \in Seq(Fault)
      <4>1. [faults[i] EXCEPT !.held = d] \in Fault
        BY <2>2 DEF Fault
      <4> QED BY <2>1, <4>1, ExceptSeq
    <3>3. faults[i].held # None => faults[i].held \in Delivery
      BY <2>2 DEF Fault
    <3> QED BY <2>3, <3>1, <3>2, <3>3 DEF Reordered, Outcome
  <2> QED BY <2>5, <2>6, <2>7, <2>8, <2>9
<1> QED BY <1>1, <1>2

-----------------------------------------------------------------------------
(* The steps of a thread *)

USE WebhooksAssumption DEF Thread

\* Steps that leave the sink alone.
LEMMA SinkKept ==
  ASSUME SinkInv, CloseInv, SinkAccounting, UNCHANGED <<sinkVars, appended>>
  PROVE  SinkInv' /\ CloseInv' /\ SinkAccounting'
BY DEF SinkInv, CloseInv, SinkAccounting, sinkVars

\* A thread moves on and keeps what it holds of the lock.
LEMMA MoveKeepsLock ==
  ASSUME ThreadInv, LockInv, OnlyReleasePanics, NEW t \in Thread, NEW next \in Step, Goto(t, next),
         sinkClosed' = sinkClosed,
         step[t] \in {"faults", "load", "store", "sink", "send"}, webhookMu' = webhookMu,
         next # "panicked", next = "send" /\ t \notin Clearer => ~sinkClosed
  PROVE  LockInv' /\ OnlyReleasePanics'
BY DEF ThreadInv, LockInv, OnlyReleasePanics, Goto

LEMMA StartKeeps ==
  ASSUME IInv, NEW t \in Thread, ChangeRow(t) \/ EmitWebhook(t) \/ Enqueue(t)
  PROVE  IInv'
<1>1. CASE ChangeRow(t)
  <2>1. SinkInv' /\ CloseInv' /\ SinkAccounting'
    BY <1>1, SinkKept DEF ChangeRow, IInv, modelVars
  <2>2. LogInv' /\ ThreadInv' /\ LockInv' /\ OnlyReleasePanics'
    BY <1>1 DEF ChangeRow, Goto, IInv, LogInv, ThreadInv, LockInv, OnlyReleasePanics, Step, sinkVars
  <2> QED BY <2>1, <2>2 DEF IInv
<1>2. ASSUME NEW events \in Seq(Event), step[t] \in {"start", "enqueue"}, Announce(t, events, t)
      PROVE  IInv'
  <2>1. SinkInv' /\ CloseInv' /\ SinkAccounting'
    BY <1>2, SinkKept DEF Announce, IInv, modelVars
  <2>2. Build(events, t) \in Seq(Delivery) /\ Len(events) \in Nat
    BY <1>2, BuildIsSeq, LenProperties DEF IInv, LogInv
  <2>3. LogInv'
    BY <1>2, <2>2 DEF Announce, IInv, LogInv
  <2>4. ThreadInv'
    BY <1>2, <2>2 DEF Announce, Goto, IInv, ThreadInv, Step
  <2>5. LockInv' /\ OnlyReleasePanics'
    BY <1>2 DEF Announce, Goto, IInv, ThreadInv, LockInv, OnlyReleasePanics, sinkVars, LogInv
  <2> QED BY <2>1, <2>3, <2>4, <2>5 DEF IInv
<1>3. CASE EmitWebhook(t)
  <2>1. EmitOf[t] \in Event
    BY <1>3 DEF EmitWebhook, Event
  <2>2. <<EmitOf[t]>> \in Seq(Event)
    BY <2>1
  <2> QED BY <1>2, <1>3, <2>2 DEF EmitWebhook
<1>4. CASE Enqueue(t)
  <2>1. PICK order \in InOrder(Announced(CallOf[t])) : Announce(t, EventsAt(order), t)
    BY <1>4 DEF Enqueue
  <2>2. Announced(CallOf[t]) \in SUBSET (1 .. Len(Declared))
    BY DEF Announced
  <2>3. /\ order \in Seq(Announced(CallOf[t])) /\ DOMAIN order = 1 .. Len(order)
        /\ Len(order) \in Nat
    BY <2>2, InOrderIsSeq
  <2>4. \A i \in 1 .. Len(order) : Declared[order[i]].event \in Event
    BY <2>2, <2>3, ElementOfSeq DEF Event
  <2>5. EventsAt(order) \in Seq(Event)
    BY <2>3, <2>4 DEF EventsAt
  <2> QED BY <1>2, <1>4, <2>1, <2>5 DEF Enqueue
<1> QED BY <1>1, <1>3, <1>4

LEMMA FaultsKeeps ==
  ASSUME IInv, NEW t \in Thread, EmitThroughFaults(t) \/ EndAnnounce(t)
  PROVE  IInv'
<1>1. CASE EmitThroughFaults(t)
  <2> DEFINE d == Head(built[t])
             o == FaultOutcome(d)
             next == IF o.emitted = <<>> THEN "faults" ELSE "load"
  <2>1. /\ faults' = o.faults /\ webhookSeq' = webhookSeq + o.given
        /\ emit' = [emit EXCEPT ![t] = o.emitted] /\ Goto(t, next)
        /\ built' = [built EXCEPT ![t] = Tail(built[t])]
        /\ step[t] = "faults" /\ built[t] # <<>>
        /\ UNCHANGED <<webhookMu, webhookLog, sinkVars, loaded, appended>>
    BY <1>1 DEF EmitThroughFaults
  <2>2. d \in Delivery /\ Tail(built[t]) \in Seq(Delivery)
    BY <2>1, HeadTailProperties DEF IInv, ThreadInv
  <2>3. o.faults \in Seq(Fault) /\ o.emitted \in Seq(Delivery) /\ o.given \in Nat
    BY <2>2, FaultOutcomeType DEF IInv, LogInv
  <2> HIDE DEF o
  <2>4. LogInv'
    BY <2>1, <2>3 DEF IInv, LogInv
  <2>5. ThreadInv'
    BY <2>1, <2>2, <2>3 DEF IInv, ThreadInv, Goto, Step
  <2>6. LockInv' /\ OnlyReleasePanics'
    BY <2>1, MoveKeepsLock DEF IInv, Step, sinkVars
  <2>7. SinkInv' /\ CloseInv' /\ SinkAccounting'
    BY <2>1, SinkKept DEF IInv
  <2> QED BY <2>4, <2>5, <2>6, <2>7 DEF IInv
<1>2. CASE EndAnnounce(t)
  <2>1. SinkInv' /\ CloseInv' /\ SinkAccounting'
    BY <1>2, SinkKept DEF EndAnnounce, IInv, modelVars
  <2>2. LogInv' /\ ThreadInv'
    BY <1>2 DEF EndAnnounce, Goto, IInv, LogInv, ThreadInv, Step
  <2>3. LockInv' /\ OnlyReleasePanics'
    BY <1>2 DEF EndAnnounce, Goto, IInv, ThreadInv, LockInv, OnlyReleasePanics, sinkVars
  <2> QED BY <2>1, <2>2, <2>3 DEF IInv
<1> QED BY <1>1, <1>2

LEMMA LogKeeps ==
  ASSUME IInv, NEW t \in Thread, LoadLog(t) \/ StoreLog(t) \/ CheckSink(t)
  PROVE  IInv'
<1>1. SinkInv' /\ CloseInv' /\ SinkAccounting'
  BY SinkKept DEF LoadLog, StoreLog, CheckSink, IInv, modelVars
<1>2. CASE LoadLog(t)
  <2>1. LogInv' /\ ThreadInv'
    BY <1>2 DEF LoadLog, Goto, IInv, LogInv, ThreadInv, Step
  <2>2. LockInv' /\ OnlyReleasePanics'
    BY <1>2, MoveKeepsLock DEF LoadLog, IInv, Step, sinkVars
  <2> QED BY <1>1, <2>1, <2>2 DEF IInv
<1>3. CASE StoreLog(t)
  <2>1. emit[t] # <<>> /\ emit[t] \in Seq(Delivery) /\ loaded[t] \in Seq(Delivery)
    BY <1>3 DEF StoreLog, IInv, ThreadInv
  <2>2. Head(emit[t]) \in Delivery
    BY <2>1, HeadTailProperties
  <2>3. Append(loaded[t], Head(emit[t])) \in Seq(Delivery)
    BY <2>1, <2>2, AppendProperties
  <2>4. LogInv'
    <3>1. /\ webhookLog' = LastN(Append(loaded[t], Head(emit[t])), MaxLog)
          /\ UNCHANGED <<webhookMu, webhookSeq, faults>>
      BY <1>3 DEF StoreLog
    <3>2. MaxLog \in Nat
      OBVIOUS
    <3> QED BY <2>3, <3>1, <3>2, LastNIsSeq DEF IInv, LogInv
  <2>5. ThreadInv'
    BY <1>3 DEF StoreLog, Goto, IInv, ThreadInv, Step
  <2>6. LockInv' /\ OnlyReleasePanics'
    BY <1>3, MoveKeepsLock DEF StoreLog, IInv, Step, sinkVars
  <2> QED BY <1>1, <2>4, <2>5, <2>6 DEF IInv
<1>4. CASE CheckSink(t)
  <2>1. LogInv' /\ ThreadInv'
    BY <1>4 DEF CheckSink, Goto, IInv, LogInv, ThreadInv, Step
  <2>2. LockInv' /\ OnlyReleasePanics'
    BY <1>4, MoveKeepsLock DEF CheckSink, IInv, Step, sinkVars
  <2> QED BY <1>1, <2>1, <2>2 DEF IInv
<1> QED BY <1>2, <1>3, <1>4

HIDE WebhooksAssumption DEF Thread

Counters == [delivered : Nat, failed : Nat, dropped : Nat]

\* Each of the three counters counts for itself.
LEMMA CountersCount ==
  ASSUME NEW c \in Counters, NEW n \in Nat
  PROVE  /\ [c EXCEPT !.dropped = n] \in Counters /\ [c EXCEPT !.dropped = n].dropped = n
         /\ [c EXCEPT !.dropped = n].delivered = c.delivered
         /\ [c EXCEPT !.dropped = n].failed = c.failed
         /\ [c EXCEPT !.delivered = n] \in Counters /\ [c EXCEPT !.delivered = n].delivered = n
         /\ [c EXCEPT !.delivered = n].dropped = c.dropped
         /\ [c EXCEPT !.delivered = n].failed = c.failed
         /\ [c EXCEPT !.failed = n] \in Counters /\ [c EXCEPT !.failed = n].failed = n
         /\ [c EXCEPT !.failed = n].dropped = c.dropped
         /\ [c EXCEPT !.failed = n].delivered = c.delivered
         /\ c.delivered \in Nat /\ c.failed \in Nat /\ c.dropped \in Nat
BY DEF Counters

LEMMA SendKeeps ==
  ASSUME IInv, NEW t \in Thread, DropClosed(t) \/ Send(t)
  PROVE  IInv'
<1>1. /\ step[t] \in {"sink", "send"} /\ Appended(t)
      /\ UNCHANGED sinkClosed
  BY DEF DropClosed, Send
<1> DEFINE next == IF Len(emit[t]) > 1 THEN "load" ELSE IF t \in Clearer THEN "done" ELSE "faults"
<1>2. /\ emit' = [emit EXCEPT ![t] = Tail(emit[t])] /\ Goto(t, next) /\ appended' = appended + 1
      /\ UNCHANGED <<webhookMu, webhookSeq, webhookLog, faults, inHand, sinkDone, closer, built, loaded>>
  BY <1>1 DEF Appended
<1>3. /\ Head(emit[t]) \in Delivery /\ Tail(emit[t]) \in Seq(Delivery)
      /\ Len(Tail(emit[t])) = Len(emit[t]) - 1 /\ Len(emit[t]) \in Nat
  BY <1>1, HeadTailProperties, LenProperties DEF IInv, ThreadInv
<1>4. LogInv'
  BY <1>2 DEF IInv, LogInv
<1>5. ThreadInv'
  <2>1. Len(emit[t]) > 1 => Tail(emit[t]) # <<>>
    <3>1. Len(<<>>) = 0
      OBVIOUS
    <3>2. Tail(emit[t]) = <<>> => Len(Tail(emit[t])) = 0
      BY <3>1, Zenon
    <3>3. Len(emit[t]) \in Nat /\ Len(Tail(emit[t])) = Len(emit[t]) - 1
      BY <1>3, Zenon
    <3>4. \A m \in Nat : m > 1 => m - 1 # 0
      OBVIOUS
    <3>5. Len(emit[t]) > 1 => Len(Tail(emit[t])) # 0
      BY <3>3, <3>4, Zenon
    <3> QED BY <3>2, <3>5, Zenon
  <2> QED BY <1>2, <1>3, <2>1 DEF IInv, ThreadInv, Goto, Step
<1>6. LockInv' /\ OnlyReleasePanics'
  BY <1>1, <1>2, MoveKeepsLock DEF IInv, Step
<1>7. SinkInv /\ CloseInv /\ SinkAccounting
  BY DEF IInv
<1>8. /\ sinkCh \in Seq(Delivery) /\ Len(sinkCh) <= QueueCap
      /\ sinkClosed \in BOOLEAN /\ sinkDone \in BOOLEAN /\ inHand \in Delivery \cup {None}
      /\ counters \in Counters /\ closer \in {"idle", "waiting", "returned", "timed out"}
      /\ appended \in Nat
  BY <1>7, Zenon DEF SinkInv, Counters
<1>9. Len(sinkCh) \in Nat
  BY <1>8, LenProperties
<1>10. appended \in Nat /\ appended' = appended + 1 /\ appended' \in Nat
  <2>1. appended \in Nat
    BY <1>8, Zenon
  <2>2. appended' = appended + 1
    BY <1>2, Zenon
  <2> QED BY <2>1, <2>2
<1>11. CASE CountDropped /\ UNCHANGED sinkCh
  <2>1. counters' = [counters EXCEPT !.dropped = counters.dropped + 1]
    BY <1>11 DEF CountDropped
  <2>2. /\ counters' \in Counters /\ counters'.dropped = counters.dropped + 1
        /\ counters'.delivered = counters.delivered /\ counters'.failed = counters.failed
        /\ counters.delivered \in Nat /\ counters.failed \in Nat /\ counters.dropped \in Nat
    <3>1. counters.delivered \in Nat /\ counters.failed \in Nat /\ counters.dropped \in Nat
      BY <1>8, CountersCount, Zenon
    <3>2. counters.dropped + 1 \in Nat
      BY <3>1
    <3> QED BY <1>8, <2>1, <3>1, <3>2, CountersCount, Zenon
  <2>3. UNCHANGED <<sinkCh, sinkClosed, inHand, sinkDone, closer>>
    BY <1>1, <1>2, <1>11
  <2>4. SinkInv'
    BY <1>8, <1>10, <2>2, <2>3, Zenon DEF SinkInv, Counters
  <2>5. CloseInv'
    BY <1>7, <2>3 DEF CloseInv
  <2>6. SinkAccounting'
    <3> DEFINE hand == IF inHand = None THEN 0 ELSE 1
    <3>1. hand \in Nat /\ hand' = hand
      BY <2>3
    <3> HIDE DEF hand
    <3>2. appended = counters.delivered + counters.failed + counters.dropped + Len(sinkCh) + hand
      BY <1>7 DEF SinkAccounting, hand
    <3>3. appended + 1 = counters'.delivered + counters'.failed + counters'.dropped + Len(sinkCh)
                         + hand
      <4>1. /\ counters.delivered \in Nat /\ counters.failed \in Nat /\ counters.dropped \in Nat
            /\ Len(sinkCh) \in Nat /\ hand \in Nat /\ counters'.dropped = counters.dropped + 1
            /\ counters'.delivered = counters.delivered /\ counters'.failed = counters.failed
        BY <1>9, <2>2, <3>1, Zenon
      <4> QED BY ONLY <3>2, <4>1, SMTT(40)
    <3> QED BY <1>10, <2>3, <3>1, <3>3 DEF SinkAccounting, hand
  <2> QED BY <1>4, <1>5, <1>6, <2>4, <2>5, <2>6 DEF IInv
<1>12. CASE /\ Len(sinkCh) < QueueCap /\ sinkCh' = Append(sinkCh, Head(emit[t]))
            /\ UNCHANGED counters /\ ~sinkClosed
  <2>1. sinkCh' \in Seq(Delivery) /\ Len(sinkCh') = Len(sinkCh) + 1
    BY <1>3, <1>8, <1>12, AppendProperties
  <2>2. UNCHANGED <<counters, sinkClosed, inHand, sinkDone, closer>>
    BY <1>1, <1>2, <1>12
  <2>3. Len(sinkCh') <= QueueCap
    BY <1>9, <1>12, <2>1, WebhooksAssumption
  <2>4. SinkInv'
    BY <1>8, <1>10, <2>1, <2>2, <2>3, Zenon DEF SinkInv, Counters
  <2>5. CloseInv'
    BY <1>7, <1>12, <2>2 DEF CloseInv
  <2>6. counters.delivered \in Nat /\ counters.failed \in Nat /\ counters.dropped \in Nat
    BY <1>8, CountersCount
  <2>7. SinkAccounting'
    <3> DEFINE hand == IF inHand = None THEN 0 ELSE 1
    <3>1. hand \in Nat /\ hand' = hand
      BY <2>2
    <3> HIDE DEF hand
    <3>2. appended = counters.delivered + counters.failed + counters.dropped + Len(sinkCh) + hand
      BY <1>7 DEF SinkAccounting, hand
    <3>3. appended + 1 = counters.delivered + counters.failed + counters.dropped + Len(sinkCh')
                         + hand
      <4>1. /\ counters.delivered \in Nat /\ counters.failed \in Nat /\ counters.dropped \in Nat
            /\ Len(sinkCh) \in Nat /\ hand \in Nat /\ Len(sinkCh') = Len(sinkCh) + 1
        BY <1>9, <2>1, <2>6, <3>1, Zenon
      <4> QED BY ONLY <3>2, <4>1, SMTT(40)
    <3> QED BY <1>10, <2>2, <3>1, <3>3 DEF SinkAccounting, hand
  <2> QED BY <1>4, <1>5, <1>6, <2>4, <2>5, <2>7 DEF IInv
<1> QED BY <1>1, <1>11, <1>12 DEF DropClosed, Send

LEMMA PanicKeeps ==
  ASSUME IInv, NEW t \in Thread, SendOnClosed(t)
  PROVE  IInv'
<1>1. SinkInv' /\ CloseInv' /\ SinkAccounting'
  BY SinkKept DEF SendOnClosed, IInv, modelVars
<1>2. LogInv' /\ ThreadInv'
  BY DEF SendOnClosed, Goto, IInv, LogInv, ThreadInv, Step
<1>3. t \in Clearer
  BY DEF SendOnClosed, IInv, LockInv
<1>4. LockInv' /\ OnlyReleasePanics'
  BY <1>3 DEF SendOnClosed, Goto, IInv, ThreadInv, LockInv, OnlyReleasePanics, sinkVars
<1> QED BY <1>1, <1>2, <1>4 DEF IInv

LEMMA ClearKeeps ==
  ASSUME IInv, NEW t \in Thread, ClearFaults(t)
  PROVE  IInv'
<1> DEFINE Holding == {i \in DOMAIN faults : faults[i].held # None}
           Release(order) == [i \in DOMAIN order |-> faults[order[i]].held]
<1>1. PICK order \in InOrder(Holding) :
        /\ emit' = [emit EXCEPT ![t] = Release(order)]
        /\ Goto(t, IF Release(order) = <<>> THEN "done" ELSE "load")
  BY DEF ClearFaults
<1>2. /\ t \in Clearer /\ step[t] = "start" /\ faults' = <<>>
      /\ UNCHANGED <<webhookMu, webhookSeq, webhookLog, sinkVars, built, loaded, appended>>
  BY DEF ClearFaults
<1>3. Len(faults) \in Nat /\ DOMAIN faults = 1 .. Len(faults)
  BY LenProperties DEF IInv, LogInv
<1>4. /\ order \in Seq(Holding) /\ DOMAIN order = 1 .. Len(order) /\ Len(order) \in Nat
  BY <1>3, InOrderIsSeq
<1>5. \A i \in 1 .. Len(order) : faults[order[i]].held \in Delivery
  <2>1. ASSUME NEW i \in 1 .. Len(order) PROVE faults[order[i]].held \in Delivery
    <3>1. order[i] \in Holding
      BY <1>4, ElementOfSeq
    <3>2. faults[order[i]] \in Fault
      BY <1>3, <3>1, ElementOfSeq DEF IInv, LogInv
    <3> QED BY <3>1, <3>2 DEF Fault
  <2> QED BY <2>1
<1>6. Release(order) \in Seq(Delivery)
  BY <1>4, <1>5
<1> HIDE DEF Release
<1>7. SinkInv' /\ CloseInv' /\ SinkAccounting'
  BY <1>2, SinkKept DEF IInv
<1>8. LogInv'
  BY <1>2 DEF IInv, LogInv
<1>9. ThreadInv'
  BY <1>1, <1>2, <1>6 DEF IInv, ThreadInv, Goto, Step
<1>10. LockInv' /\ OnlyReleasePanics'
  BY <1>1, <1>2 DEF IInv, ThreadInv, LockInv, OnlyReleasePanics, Goto, sinkVars
<1> QED BY <1>7, <1>8, <1>9, <1>10 DEF IInv

LEMMA ArmKeeps ==
  ASSUME IInv, NEW kind \in FaultKind, NEW event \in FaultEvent, Arm(kind, event)
  PROVE  IInv'
<1>1. [kind |-> kind, event |-> event, held |-> None] \in Fault
  BY DEF Fault
<1>2. /\ faults' = Append(faults, [kind |-> kind, event |-> event, held |-> None])
      /\ UNCHANGED <<webhookMu, webhookSeq, webhookLog, sinkVars, threadVars, appended>>
  BY DEF Arm
<1>3. faults \in Seq(Fault)
  BY DEF IInv, LogInv
<1>4. faults' \in Seq(Fault)
  BY <1>1, <1>2, <1>3, AppendProperties
<1>5. LogInv'
  BY <1>2, <1>4 DEF IInv, LogInv
<1>6. SinkInv' /\ CloseInv' /\ SinkAccounting'
  BY <1>2, SinkKept DEF IInv
<1>7. ThreadInv' /\ LockInv' /\ OnlyReleasePanics'
  BY <1>2 DEF IInv, ThreadInv, LockInv, OnlyReleasePanics, threadVars, sinkVars
<1> QED BY <1>5, <1>6, <1>7 DEF IInv

\* Steps of the sink and of Close that take no lock.
LEMMA ThreadsKept ==
  ASSUME LogInv, ThreadInv, LockInv, OnlyReleasePanics,
         UNCHANGED <<webhookMu, webhookSeq, webhookLog, faults, threadVars>>,
         sinkClosed' = sinkClosed \/ webhookMu = None
  PROVE  LogInv' /\ ThreadInv' /\ LockInv' /\ OnlyReleasePanics'
BY WebhooksAssumption DEF LogInv, ThreadInv, LockInv, OnlyReleasePanics, threadVars, Thread

LEMMA LoopKeeps ==
  ASSUME IInv,
         Receive \/ EndLoop \/ Close \/ CloseReturns
  PROVE  IInv'
<1>1. LogInv' /\ ThreadInv' /\ LockInv' /\ OnlyReleasePanics'
  BY ThreadsKept DEF IInv, Receive, EndLoop, Close, CloseReturns
<1>2. SinkInv /\ CloseInv /\ SinkAccounting
  BY DEF IInv
<1>3. sinkCh \in Seq(Delivery) /\ Len(sinkCh) <= QueueCap /\ counters \in Counters
      /\ appended \in Nat /\ inHand \in Delivery \cup {None}
  BY <1>2, Zenon DEF SinkInv, Counters
<1>4. CASE Receive
  <2>1. /\ inHand = None /\ sinkCh # <<>> /\ inHand' = Head(sinkCh) /\ sinkCh' = Tail(sinkCh)
        /\ UNCHANGED <<sinkClosed, sinkDone, counters, closer, appended>>
    BY <1>4 DEF Receive, modelVars
  <2>2. /\ inHand' \in Delivery /\ sinkCh' \in Seq(Delivery)
        /\ Len(sinkCh') = Len(sinkCh) - 1 /\ Len(sinkCh) \in Nat
    BY <1>3, <2>1, HeadTailProperties, LenProperties
  <2>3. Len(sinkCh') <= QueueCap
    BY <1>3, <2>2, WebhooksAssumption
  <2>4. inHand' # None
    BY <2>2, WebhooksAssumption
  <2>5. SinkInv'
    BY <1>2, <2>1, <2>2, <2>3, Zenon DEF SinkInv
  <2>6. CloseInv'
    BY <1>2, <2>1 DEF CloseInv
  <2>7. counters.delivered \in Nat /\ counters.failed \in Nat /\ counters.dropped \in Nat
    BY <1>3, CountersCount
  <2>8. SinkAccounting'
    BY <1>2, <1>3, <2>1, <2>2, <2>4, <2>7 DEF SinkAccounting
  <2> QED BY <1>1, <2>5, <2>6, <2>8 DEF IInv
<1>5. CASE EndLoop
  <2>1. /\ inHand = None /\ sinkCh = <<>> /\ sinkClosed /\ sinkDone' = TRUE
        /\ UNCHANGED <<sinkCh, sinkClosed, inHand, counters, closer, appended>>
    BY <1>5 DEF EndLoop, modelVars
  <2>2. SinkInv'
    BY <1>2, <2>1, Zenon DEF SinkInv
  <2>3. CloseInv' /\ SinkAccounting'
    BY <1>2, <2>1 DEF CloseInv, SinkAccounting
  <2> QED BY <1>1, <2>2, <2>3 DEF IInv
<1>6. CASE Close
  <2>1. /\ sinkClosed' = TRUE /\ closer = "idle" /\ closer' = "waiting"
        /\ UNCHANGED <<sinkCh, inHand, sinkDone, counters, appended>>
    BY <1>6 DEF Close, modelVars
  <2>2. SinkInv'
    BY <1>2, <2>1, Zenon DEF SinkInv
  <2>3. CloseInv' /\ SinkAccounting'
    BY <1>2, <2>1 DEF CloseInv, SinkAccounting
  <2> QED BY <1>1, <2>2, <2>3 DEF IInv
<1>7. CASE CloseReturns
  <2>1. /\ closer = "waiting" /\ closer' = IF sinkDone THEN "returned" ELSE "timed out"
        /\ UNCHANGED <<sinkCh, sinkClosed, inHand, sinkDone, counters, appended>>
    BY <1>7 DEF CloseReturns, modelVars
  <2>2. closer' \in {"idle", "waiting", "returned", "timed out"}
    BY <2>1
  <2>3. SinkInv'
    BY <1>2, <2>1, <2>2, Zenon DEF SinkInv
  <2>4. CloseInv' /\ SinkAccounting'
    BY <1>2, <2>1 DEF CloseInv, SinkAccounting
  <2> QED BY <1>1, <2>3, <2>4 DEF IInv
<1> QED BY <1>4, <1>5, <1>6, <1>7

LEMMA PostKeeps ==
  ASSUME IInv, NEW result \in {"delivered", "failed"}, Post(result)
  PROVE  IInv'
<1>1. /\ inHand # None /\ inHand' = None
      /\ counters' = [counters EXCEPT ![result] = counters[result] + 1]
      /\ UNCHANGED <<webhookMu, webhookSeq, webhookLog, faults, sinkCh, sinkClosed, sinkDone,
                     closer, threadVars, appended>>
  BY DEF Post, modelVars
<1>2. LogInv' /\ ThreadInv' /\ LockInv' /\ OnlyReleasePanics'
  BY <1>1, ThreadsKept DEF IInv
<1>3. SinkInv /\ CloseInv /\ SinkAccounting
  BY DEF IInv
<1>4. sinkCh \in Seq(Delivery) /\ counters \in Counters /\ appended \in Nat
  BY <1>3, Zenon DEF SinkInv, Counters
<1>5. Len(sinkCh) \in Nat
  BY <1>4, LenProperties
<1>6. counters.delivered \in Nat /\ counters.failed \in Nat /\ counters.dropped \in Nat
  BY <1>4, CountersCount
<1>7. /\ counters' \in Counters
      /\ counters'.delivered + counters'.failed + counters'.dropped
         = counters.delivered + counters.failed + counters.dropped + 1
  <2>1. CASE result = "delivered"
    <3>1. counters' = [counters EXCEPT !.delivered = counters.delivered + 1]
      BY <1>1, <2>1
    <3>2. counters.delivered + 1 \in Nat
      BY <1>6
    <3>3. /\ counters' \in Counters /\ counters'.delivered = counters.delivered + 1
          /\ counters'.failed = counters.failed /\ counters'.dropped = counters.dropped
      BY <1>4, <3>1, <3>2, CountersCount
    <3> QED BY <1>6, <3>3
  <2>2. CASE result = "failed"
    <3>1. counters' = [counters EXCEPT !.failed = counters.failed + 1]
      BY <1>1, <2>2
    <3>2. counters.failed + 1 \in Nat
      BY <1>6
    <3>3. /\ counters' \in Counters /\ counters'.failed = counters.failed + 1
          /\ counters'.delivered = counters.delivered /\ counters'.dropped = counters.dropped
      BY <1>4, <3>1, <3>2, CountersCount
    <3> QED BY <1>6, <3>3
  <2> QED BY <2>1, <2>2
<1>8. SinkInv'
  BY <1>1, <1>3, <1>7, Zenon DEF SinkInv, Counters
<1>9. CloseInv'
  BY <1>1, <1>3 DEF CloseInv
<1>10. SinkAccounting'
  <2>1. \A d, f, r, d1, f1, r1, l \in Nat :
           appended = d + f + r + l + 1 /\ d1 + f1 + r1 = d + f + r + 1
             => appended = d1 + f1 + r1 + l + 0
    BY <1>4
  <2>2. counters'.delivered \in Nat /\ counters'.failed \in Nat /\ counters'.dropped \in Nat
    BY <1>7, CountersCount
  <2>3. appended = counters.delivered + counters.failed + counters.dropped + Len(sinkCh) + 1
    BY <1>1, <1>3 DEF SinkAccounting
  <2>4. appended = counters'.delivered + counters'.failed + counters'.dropped + Len(sinkCh) + 0
    BY <1>5, <1>6, <1>7, <2>1, <2>2, <2>3
  <2> QED BY <1>1, <2>4 DEF SinkAccounting
<1> QED BY <1>2, <1>8, <1>9, <1>10 DEF IInv

-----------------------------------------------------------------------------
(* Theorems *)

\* The invariant holds when the sandbox starts: nothing is announced, queued or
\* counted.
THEOREM InitInv == Init => IInv
<1> SUFFICES ASSUME Init PROVE IInv
  OBVIOUS
<1>1. LogInv
  <2>1. webhookLog \in Seq(Delivery) /\ Len(webhookLog) = 0 /\ faults \in Seq(Fault)
    BY DEF Init
  <2> QED BY <2>1, WebhooksAssumption DEF Init, LogInv
<1>2. SinkInv
  <2>1. sinkCh \in Seq(Delivery) /\ Len(sinkCh) = 0
    BY DEF Init
  <2>2. Len(sinkCh) <= QueueCap
    BY <2>1, WebhooksAssumption
  <2>3. counters \in [delivered : Nat, failed : Nat, dropped : Nat]
    BY DEF Init
  <2>4. appended \in Nat /\ closer \in {"idle", "waiting", "returned", "timed out"}
    BY DEF Init
  <2> QED BY <2>1, <2>2, <2>3, <2>4, Zenon DEF Init, SinkInv
<1>3. ThreadInv /\ LockInv /\ OnlyReleasePanics
  BY DEF Init, ThreadInv, LockInv, OnlyReleasePanics, Step
<1>4. CloseInv /\ SinkAccounting
  BY DEF Init, CloseInv, SinkAccounting
<1> QED BY <1>1, <1>2, <1>3, <1>4 DEF IInv

\* Every step of a request, an emission, a release, the sink or Close keeps it.
THEOREM StepInv == IInv /\ [Next]_vars => IInv'
<1> SUFFICES ASSUME IInv, [Next]_vars PROVE IInv'
  OBVIOUS
<1>1. ASSUME NEW t \in Thread, ChangeRow(t) \/ EmitWebhook(t) \/ ClearFaults(t) \/ Progress(t)
      PROVE  IInv'
  BY <1>1, StartKeeps, FaultsKeeps, LogKeeps, SendKeeps, PanicKeeps, ClearKeeps DEF Progress
<1>2. ASSUME NEW kind \in FaultKind, NEW event \in FaultEvent, Arm(kind, event) PROVE IInv'
  BY <1>2, ArmKeeps
<1>3. CASE Receive \/ EndLoop \/ Close \/ CloseReturns
  BY <1>3, LoopKeeps
<1>4. ASSUME NEW result \in {"delivered", "failed"}, Post(result) PROVE IInv'
  BY <1>4, PostKeeps
<1>5. CASE UNCHANGED vars
  <2>1. UNCHANGED <<webhookMu, webhookSeq, webhookLog, faults, sinkVars, threadVars, appended>>
    BY <1>5 DEF vars, modelVars
  <2>2. SinkInv' /\ CloseInv' /\ SinkAccounting'
    BY <2>1, SinkKept DEF IInv
  <2>3. LogInv' /\ ThreadInv' /\ LockInv' /\ OnlyReleasePanics'
    BY <2>1, ThreadsKept DEF IInv, sinkVars
  <2> QED BY <2>2, <2>3 DEF IInv
<1> QED BY <1>1, <1>2, <1>3, <1>4, <1>5 DEF Next

THEOREM Invariance == Spec => []IInv
BY InitInv, StepInv, PTL DEF Spec

\* The types of the Engine's webhook fields, the log never longer than
\* maxWebhookLog and the queue never longer than webhookSinkQueue.
THEOREM TypeCorrect == Spec => []WebhooksTypeOK
<1>1. IInv => WebhooksTypeOK
  <2> SUFFICES ASSUME IInv PROVE WebhooksTypeOK
    OBVIOUS
  <2> QED BY Zenon DEF IInv, LogInv, SinkInv, ThreadInv, Step, Fault, WebhooksTypeOK
<1> QED BY <1>1, Invariance, PTL

\* appendDelivery, sinkLoop and deliverToSink lose no delivery uncounted.
THEOREM SinkBooksBalance == Spec => []SinkAccounting
<1>1. IInv => SinkAccounting
  BY DEF IInv
<1> QED BY <1>1, Invariance, PTL

\* Close takes webhookMu, so an announcement it waited for finds the channel
\* open: a release, which does not take it, is the only one that can panic.  And
\* a Close that returned before its timeout has seen sinkLoop end, which drains
\* the channel first.
THEOREM CloseHarmsNobody == Spec => []CloseIsSafe
<1>1. IInv => CloseIsSafe
  BY DEF IInv, CloseInv, CloseIsSafe, ReturnedMeansTried
<1> QED BY <1>1, Invariance, PTL

-----------------------------------------------------------------------------
(* The invariant of the log's order *)

Held == {faults[i].held : i \in DOMAIN faults} \ {None}

\* The deliveries that have been through the faults and are still about.
Past ==
  ToSet(webhookLog) \cup Held \cup {d \in Delivery : \E t \in Thread : d \in ToSet(loaded[t])}
  \cup {d \in Delivery : \E t \in Thread : d \in ToSet(emit[t])}

NoneAfter(n) == \A d \in Past : d.id <= n

Ordered(log, held) ==
  \A i, j \in DOMAIN log : i < j /\ log[i].id > log[j].id => log[j].id \in held

\* What announces has something built only while it announces, and something to
\* append only while it appends; a release announces nothing.
StepOrder ==
  \A t \in Thread :
    /\ step[t] \in {"enqueue", "faults"} => t \notin Clearer
    /\ t \in Clearer \/ step[t] \in {"start", "enqueue", "done", "panicked"} => built[t] = <<>>
    /\ t \notin Clearer /\ step[t] \notin {"load", "store", "sink", "send"} => emit[t] = <<>>

\* The deliveries of a call are built in the order of their numbers, and behind
\* everything that has been built before.
BuiltOrder ==
  \A t \in Thread :
    /\ \A i, j \in DOMAIN built[t] : i < j => built[t][i].id < built[t][j].id
    /\ \A i \in DOMAIN built[t] :
         /\ built[t][i].seq = built[t][i].id /\ built[t][i].id <= webhookSeq
         /\ NoneAfter(built[t][i].id - 1)

\* What is appended is the newest there is, unless a reorder fault has held it.
EmitOrder ==
  \A t \in Thread : \A d \in ToSet(emit[t]) :
    d.id \in heldBack \/ (t \notin Clearer /\ NoneAfter(d.id))

HeldOrder == NoneAfter(webhookSeq) /\ \A d \in Held : d.id \in heldBack

LogOrder == Ordered(webhookLog, heldBack) /\ \A t \in Thread : Ordered(loaded[t], heldBack)

OrderInv == StepOrder /\ BuiltOrder /\ EmitOrder /\ HeldOrder /\ LogOrder

-----------------------------------------------------------------------------
(* Lemmas about the order *)

\* What is in a sequence that has been cut or extended.
LEMMA Contents ==
  ASSUME NEW T, NEW s \in Seq(T)
  PROVE  /\ ToSet(s) \subseteq T
         /\ \A x \in T : ToSet(Append(s, x)) = ToSet(s) \cup {x}
         /\ \A i \in Nat \ {0} : \A j \in 0 .. Len(s) : ToSet(SubSeq(s, i, j)) \subseteq ToSet(s)
         /\ s # <<>> => Head(s) \in ToSet(s) /\ ToSet(Tail(s)) \subseteq ToSet(s)
<1>1. Len(s) \in Nat /\ DOMAIN s = 1 .. Len(s)
  BY LenProperties
<1>2. ToSet(s) \subseteq T
  BY <1>1, ElementOfSeq DEF ToSet
<1>3. ASSUME NEW x \in T PROVE ToSet(Append(s, x)) = ToSet(s) \cup {x}
  <2>1. /\ DOMAIN Append(s, x) = 1 .. Len(s) + 1 /\ Append(s, x)[Len(s) + 1] = x
        /\ \A i \in 1 .. Len(s) : Append(s, x)[i] = s[i]
    BY <1>1, AppendProperties, LenProperties
  <2> QED BY <1>1, <2>1 DEF ToSet
<1>4. ASSUME NEW i \in Nat \ {0}, NEW j \in 0 .. Len(s)
      PROVE  ToSet(SubSeq(s, i, j)) \subseteq ToSet(s)
  <2>1. \A k \in i .. j : s[k] \in T
    BY <1>1, ElementOfSeq
  <2>2. /\ DOMAIN SubSeq(s, i, j) = IF i <= j THEN 1 .. j - i + 1 ELSE {}
        /\ i <= j => \A k \in 1 .. j - i + 1 : SubSeq(s, i, j)[k] = s[i + k - 1]
    BY <1>1
  <2> QED BY <1>1, <2>2 DEF ToSet
<1>5. ASSUME s # <<>> PROVE Head(s) \in ToSet(s) /\ ToSet(Tail(s)) \subseteq ToSet(s)
  BY <1>1, <1>5 DEF ToSet
<1> QED BY <1>2, <1>3, <1>4, <1>5

\* A full log gives up its oldest.
LEMMA LastNKeeps ==
  ASSUME NEW T, NEW s \in Seq(T), NEW n \in Nat, NEW held, Ordered(s, held)
  PROVE  ToSet(LastN(s, n)) \subseteq ToSet(s) /\ Ordered(LastN(s, n), held)
<1>1. Len(s) \in Nat /\ DOMAIN s = 1 .. Len(s)
  BY LenProperties
<1> DEFINE from == IF Len(s) > n THEN Len(s) - n + 1 ELSE 1
<1>2. from \in Nat \ {0}
  BY <1>1
<1>3. LastN(s, n) = SubSeq(s, from, Len(s))
  BY DEF LastN
<1> HIDE DEF from
<1>4. ToSet(LastN(s, n)) \subseteq ToSet(s)
  BY <1>1, <1>2, <1>3, Contents
<1>5. /\ DOMAIN LastN(s, n) = IF from <= Len(s) THEN 1 .. Len(s) - from + 1 ELSE {}
      /\ from <= Len(s) =>
           \A k \in 1 .. Len(s) - from + 1 : LastN(s, n)[k] = s[from + k - 1]
  BY <1>1, <1>2, <1>3
<1>6. ASSUME NEW i \in DOMAIN LastN(s, n), NEW j \in DOMAIN LastN(s, n), i < j,
             LastN(s, n)[i].id > LastN(s, n)[j].id
      PROVE  LastN(s, n)[j].id \in held
  <2>1. from <= Len(s) /\ i \in 1 .. Len(s) - from + 1 /\ j \in 1 .. Len(s) - from + 1
    BY <1>5
  <2>2. LastN(s, n)[i] = s[from + i - 1] /\ LastN(s, n)[j] = s[from + j - 1]
    BY <1>5, <2>1
  <2>3. /\ from + i - 1 \in DOMAIN s /\ from + j - 1 \in DOMAIN s
        /\ from + i - 1 < from + j - 1
    BY <1>1, <1>2, <1>6, <2>1
  <2> QED BY <1>6, <2>2, <2>3 DEF Ordered
<1> QED BY <1>4, <1>6 DEF Ordered

\* The log stays in order when the newest, or one that was held, follows.
LEMMA AppendKeepsOrder ==
  ASSUME NEW log \in Seq(Delivery), NEW held, NEW d \in Delivery, Ordered(log, held),
         d.id \in held \/ \A e \in ToSet(log) : e.id <= d.id
  PROVE  Ordered(Append(log, d), held)
<1>1. Len(log) \in Nat /\ DOMAIN log = 1 .. Len(log)
  BY LenProperties
<1>2. /\ DOMAIN Append(log, d) = 1 .. Len(log) + 1 /\ Append(log, d)[Len(log) + 1] = d
      /\ \A i \in 1 .. Len(log) : Append(log, d)[i] = log[i]
  BY <1>1, AppendProperties, LenProperties
<1>3. ASSUME NEW i \in 1 .. Len(log) + 1, NEW j \in 1 .. Len(log) + 1, i < j,
             Append(log, d)[i].id > Append(log, d)[j].id
      PROVE  Append(log, d)[j].id \in held
  <2>1. i \in 1 .. Len(log) /\ Append(log, d)[i] = log[i]
    BY <1>1, <1>2, <1>3
  <2>2. CASE j = Len(log) + 1
    <3>1. log[i] \in ToSet(log) /\ log[i].id > d.id
      BY <1>1, <1>2, <1>3, <2>1, <2>2 DEF ToSet
    <3>2. log[i] \in Delivery
      BY <2>1, ElementOfSeq
    <3>3. log[i].id \in Nat /\ d.id \in Nat
      BY <3>2 DEF Delivery
    <3> QED BY <1>2, <2>2, <3>1, <3>3
  <2>3. CASE j # Len(log) + 1
    <3>1. j \in 1 .. Len(log) /\ Append(log, d)[j] = log[j]
      BY <1>1, <1>2, <2>3
    <3> QED BY <1>1, <1>3, <2>1, <3>1 DEF Ordered
  <2> QED BY <2>2, <2>3
<1> QED BY <1>2, <1>3 DEF Ordered

\* What is about are deliveries.
LEMMA PastTyped ==
  ASSUME IInv
  PROVE  Past \subseteq Delivery
<1>1. ToSet(webhookLog) \subseteq Delivery
  BY Contents DEF IInv, LogInv
<1>2. Held \subseteq Delivery
  <2>1. \A i \in DOMAIN faults : faults[i] \in Fault
    BY LenProperties, ElementOfSeq DEF IInv, LogInv
  <2> QED BY <2>1 DEF Held, Fault
<1> QED BY <1>1, <1>2 DEF Past

\* A step after which nothing new is about keeps the order of what is built.
LEMMA BuiltKept ==
  ASSUME BuiltOrder, Past' \subseteq Past, webhookSeq \in Nat, webhookSeq' \in Nat,
         webhookSeq <= webhookSeq', ThreadInv, NEW t \in Thread,
         built'[t] = built[t] \/ built'[t] = <<>>
  PROVE  /\ \A i, j \in DOMAIN built'[t] : i < j => built'[t][i].id < built'[t][j].id
         /\ \A i \in DOMAIN built'[t] :
              /\ built'[t][i].seq = built'[t][i].id /\ built'[t][i].id <= webhookSeq'
              /\ \A d \in Past' : d.id <= built'[t][i].id - 1
<1>1. CASE built'[t] = <<>>
  BY <1>1
<1>2. CASE built'[t] = built[t]
  <2>1. \A i \in DOMAIN built[t] : built[t][i] \in Delivery
    BY LenProperties, ElementOfSeq DEF ThreadInv
  <2>2. \A i \in DOMAIN built[t] : built[t][i].id \in Nat
    BY <2>1 DEF Delivery
  <2>3. \A i \in DOMAIN built[t] : built[t][i].id <= webhookSeq
    BY DEF BuiltOrder
  <2>4. \A i \in DOMAIN built[t] : built[t][i].id <= webhookSeq'
    BY <2>2, <2>3
  <2>5. \A i \in DOMAIN built[t] : \A d \in Past' : d.id <= built[t][i].id - 1
    BY DEF BuiltOrder, NoneAfter
  <2> QED BY <1>2, <2>4, <2>5 DEF BuiltOrder
<1> QED BY <1>1, <1>2

\* And it keeps the order of what is appended and what is held.
LEMMA OrderKept ==
  ASSUME OrderInv, ThreadInv, Past' \subseteq Past, Past \subseteq Delivery, Held' \subseteq Held,
         heldBack \subseteq heldBack',
         webhookSeq \in Nat, webhookSeq' \in Nat, webhookSeq <= webhookSeq',
         \A t \in Thread : built'[t] = built[t] \/ built'[t] = <<>>,
         \A t \in Thread : \A d \in ToSet(emit'[t]) : d \in ToSet(emit[t]) \/ d \in Held,
         StepOrder', LogOrder'
  PROVE  OrderInv'
<1>1. BuiltOrder'
  BY BuiltKept DEF OrderInv, BuiltOrder, NoneAfter
<1>2. EmitOrder'
  <2>1. ASSUME NEW t \in Thread, NEW d \in ToSet(emit'[t])
        PROVE  d.id \in heldBack' \/ (t \notin Clearer /\ \A e \in Past' : e.id <= d.id)
    BY <2>1 DEF OrderInv, EmitOrder, HeldOrder, NoneAfter
  <2> QED BY <2>1 DEF EmitOrder, NoneAfter
<1>3. HeldOrder'
  <2>1. \A d \in Past' : d.id \in Nat /\ d.id <= webhookSeq
    BY DEF OrderInv, HeldOrder, NoneAfter, Delivery
  <2>2. \A d \in Past' : d.id <= webhookSeq'
    BY <2>1
  <2> QED BY <2>2 DEF OrderInv, HeldOrder, NoneAfter
<1> QED BY <1>1, <1>2, <1>3 DEF OrderInv

\* What a step may take to the log: what is about, as far as it is not in the
\* step's own hands.
LEMMA PastOf ==
  ASSUME IInv, IInv', Held' \subseteq Past, ToSet(webhookLog') \subseteq Past,
         \A t \in Thread : ToSet(loaded'[t]) \subseteq Past /\ ToSet(emit'[t]) \subseteq Past
  PROVE  Past' \subseteq Past
BY DEF Past

LEMMA InPast ==
  ASSUME IInv
  PROVE  /\ Held \subseteq Past /\ ToSet(webhookLog) \subseteq Past
         /\ \A t \in Thread : ToSet(loaded[t]) \subseteq Past /\ ToSet(emit[t]) \subseteq Past
<1>1. \A t \in Thread : ToSet(loaded[t]) \subseteq Delivery /\ ToSet(emit[t]) \subseteq Delivery
  BY Contents DEF IInv, ThreadInv
<1> QED BY <1>1 DEF Past

\* Steps that leave the log and what goes there alone.
LEMMA QuietKeeps ==
  ASSUME IInv, OrderInv, StepOrder',
         UNCHANGED <<webhookSeq, webhookLog, faults, built, emit, loaded, heldBack>>
  PROVE  OrderInv'
<1>1. Held' = Held
  BY DEF Held
<1>2. Past' = Past
  BY <1>1 DEF Past
<1>3. LogOrder'
  BY DEF OrderInv, LogOrder
<1> QED BY <1>1, <1>2, <1>3, PastTyped, OrderKept DEF IInv, LogInv

-----------------------------------------------------------------------------
(* The steps and the order *)

\* Steps that only move on.
LEMMA MoveKeepsOrder ==
  ASSUME IInv, OrderInv, NEW t \in Thread, ChangeRow(t) \/ EndAnnounce(t) \/ CheckSink(t)
  PROVE  OrderInv'
<1>1. UNCHANGED <<webhookSeq, webhookLog, faults, built, emit, loaded, heldBack>>
  BY DEF ChangeRow, EndAnnounce, CheckSink, modelVars
<1>2. StepOrder /\ ThreadInv
  BY DEF OrderInv, IInv
<1>3. StepOrder'
  <2>1. CASE ChangeRow(t)
    <3>1. t \notin Clearer
      BY <2>1, WebhooksAssumption DEF ChangeRow
    <3> QED BY <1>1, <1>2, <2>1, <3>1 DEF ChangeRow, Goto, StepOrder, ThreadInv
  <2>2. CASE EndAnnounce(t)
    BY <1>1, <1>2, <2>2 DEF EndAnnounce, Goto, StepOrder, ThreadInv
  <2>3. CASE CheckSink(t)
    BY <1>1, <1>2, <2>3 DEF CheckSink, Goto, StepOrder, ThreadInv
  <2> QED BY <2>1, <2>2, <2>3
<1> QED BY <1>1, <1>3, QuietKeeps

\* The deliveries of a call are numbered on from everything there is.
LEMMA AnnounceKeepsOrder ==
  ASSUME IInv, OrderInv, NEW t \in Thread, NEW events \in Seq(Event), t \notin Clearer,
         step[t] \in {"start", "enqueue"}, Announce(t, events, t)
  PROVE  OrderInv'
<1>1. /\ webhookSeq' = webhookSeq + Len(events)
      /\ built' = [built EXCEPT ![t] = Build(events, t)] /\ Goto(t, "faults")
      /\ UNCHANGED <<webhookLog, faults, emit, loaded, heldBack>>
  BY DEF Announce, modelVars
<1>2. Len(events) \in Nat /\ DOMAIN events = 1 .. Len(events) /\ webhookSeq \in Nat
  BY LenProperties DEF IInv, LogInv
<1>3. StepOrder /\ ThreadInv
  BY DEF OrderInv, IInv
<1>4. Held' = Held
  BY <1>1 DEF Held
<1>5. Past' = Past
  BY <1>1, <1>4 DEF Past
<1>6. webhookSeq' \in Nat /\ webhookSeq <= webhookSeq'
  BY <1>1, <1>2
<1>7. StepOrder'
  BY <1>1, <1>3 DEF Goto, StepOrder, ThreadInv
<1>8. LogOrder'
  BY <1>1 DEF OrderInv, LogOrder
<1>9. EmitOrder'
  BY <1>1, <1>5 DEF OrderInv, EmitOrder, NoneAfter
<1>10. \A d \in Past : d.id \in Nat /\ d.id <= webhookSeq
  BY PastTyped DEF OrderInv, HeldOrder, NoneAfter, Delivery
<1>11. HeldOrder'
  <2>1. \A d \in Past : d.id <= webhookSeq'
    BY <1>2, <1>6, <1>10
  <2> QED BY <1>1, <1>4, <1>5, <2>1 DEF OrderInv, HeldOrder, NoneAfter
<1>12. BuiltOrder'
  <2> DEFINE b == built'
  <2>1. ASSUME NEW u \in Thread
        PROVE  /\ \A i, j \in DOMAIN b[u] : i < j => b[u][i].id < b[u][j].id
               /\ \A i \in DOMAIN b[u] :
                    /\ b[u][i].seq = b[u][i].id /\ b[u][i].id <= webhookSeq'
                    /\ \A d \in Past' : d.id <= b[u][i].id - 1
    <3>1. CASE u = t
      <4>1. b[u] = Build(events, t)
        BY <1>1, <1>3, <3>1 DEF ThreadInv
      <4>2. DOMAIN b[u] = 1 .. Len(events)
        BY <1>2, <4>1 DEF Build
      <4>3. \A i \in 1 .. Len(events) : b[u][i].id = webhookSeq + i /\ b[u][i].seq = webhookSeq + i
        BY <1>2, <4>1 DEF Build
      <4>4. \A i \in 1 .. Len(events) : \A d \in Past : d.id <= webhookSeq + i - 1
        BY <1>2, <1>10
      <4>5. \A i \in 1 .. Len(events) : webhookSeq + i <= webhookSeq'
        BY <1>1, <1>2
      <4>6. \A i, j \in 1 .. Len(events) : i < j => webhookSeq + i < webhookSeq + j
        BY <1>2
      <4>7. \A i \in 1 .. Len(events) : \A d \in Past' : d.id <= b[u][i].id - 1
        BY <1>2, <1>5, <4>3, <4>4
      <4> HIDE DEF b
      <4> QED BY <4>2, <4>3, <4>5, <4>6, <4>7
    <3>2. CASE u # t
      <4>1. built'[u] = built[u]
        BY <1>1, <1>3, <3>2 DEF ThreadInv
      <4> QED BY <1>2, <1>3, <1>5, <1>6, <4>1, BuiltKept DEF OrderInv
    <3> QED BY <3>1, <3>2
  <2> QED BY <2>1 DEF BuiltOrder, NoneAfter
<1> QED BY <1>7, <1>8, <1>9, <1>11, <1>12 DEF OrderInv

\* The log as it is, to be extended.
LEMMA LoadKeepsOrder ==
  ASSUME IInv, IInv', OrderInv, NEW t \in Thread, LoadLog(t)
  PROVE  OrderInv'
<1>1. /\ loaded' = [loaded EXCEPT ![t] = webhookLog] /\ Goto(t, "store") /\ step[t] = "load"
      /\ UNCHANGED <<webhookSeq, webhookLog, faults, built, emit, heldBack>>
  BY DEF LoadLog, modelVars
<1>2. StepOrder /\ ThreadInv
  BY DEF OrderInv, IInv
<1>3. Held' = Held
  BY <1>1 DEF Held
<1>4. Past' \subseteq Past
  BY <1>1, <1>2, <1>3, InPast, PastOf DEF ThreadInv
<1>5. StepOrder'
  BY <1>1, <1>2 DEF Goto, StepOrder, ThreadInv
<1>6. LogOrder'
  BY <1>1, <1>2 DEF OrderInv, LogOrder, ThreadInv
<1> QED BY <1>1, <1>3, <1>4, <1>5, <1>6, PastTyped, OrderKept DEF IInv, LogInv

\* What follows the loaded log is the newest there is, or was held.
LEMMA StoreKeepsOrder ==
  ASSUME IInv, IInv', OrderInv, NEW t \in Thread, StoreLog(t)
  PROVE  OrderInv'
<1> DEFINE d == Head(emit[t])
           longer == Append(loaded[t], d)
<1>1. /\ webhookLog' = LastN(longer, MaxLog)
      /\ loaded' = [loaded EXCEPT ![t] = <<>>] /\ Goto(t, "sink") /\ step[t] = "store"
      /\ UNCHANGED <<webhookSeq, faults, built, emit, heldBack>>
  BY DEF StoreLog
<1>2. StepOrder /\ ThreadInv
  BY DEF OrderInv, IInv
<1>3. emit[t] # <<>> /\ emit[t] \in Seq(Delivery) /\ loaded[t] \in Seq(Delivery)
  BY <1>1, <1>2 DEF ThreadInv
<1>4. d \in Delivery /\ d \in ToSet(emit[t])
  BY <1>3, HeadTailProperties, Contents
<1> HIDE DEF d
<1>5. ToSet(loaded[t]) \subseteq Past /\ d \in Past
  BY <1>4, InPast
<1>6. Ordered(loaded[t], heldBack)
  BY DEF OrderInv, LogOrder
<1>7. d.id \in heldBack \/ \A e \in ToSet(loaded[t]) : e.id <= d.id
  BY <1>4, <1>5 DEF OrderInv, EmitOrder, NoneAfter
<1>8. longer \in Seq(Delivery) /\ Ordered(longer, heldBack)
  BY <1>3, <1>4, <1>6, <1>7, AppendProperties, AppendKeepsOrder
<1>9. ToSet(longer) \subseteq Past
  BY <1>3, <1>4, <1>5, Contents
<1> HIDE DEF longer
<1>10. ToSet(webhookLog') \subseteq Past /\ Ordered(webhookLog', heldBack')
  BY <1>1, <1>8, <1>9, LastNKeeps, WebhooksAssumption
<1>11. Held' = Held
  BY <1>1 DEF Held
<1>12. ToSet(<<>>) = {} /\ Ordered(<<>>, heldBack')
  BY DEF ToSet, Ordered
<1>13. Past' \subseteq Past
  BY <1>1, <1>2, <1>10, <1>11, <1>12, InPast, PastOf DEF ThreadInv
<1>14. StepOrder'
  BY <1>1, <1>2 DEF Goto, StepOrder, ThreadInv
<1>15. LogOrder'
  BY <1>1, <1>2, <1>10, <1>12 DEF OrderInv, LogOrder, ThreadInv
<1> QED BY <1>1, <1>11, <1>13, <1>14, <1>15, PastTyped, OrderKept DEF IInv, LogInv

\* What has been appended, or will not be, is no longer in hand.
LEMMA ReleaseKeepsOrder ==
  ASSUME IInv, IInv', OrderInv, NEW t \in Thread, DropClosed(t) \/ Send(t) \/ SendOnClosed(t)
  PROVE  OrderInv'
<1> DEFINE next == IF Len(emit[t]) > 1 THEN "load" ELSE IF t \in Clearer THEN "done" ELSE "faults"
<1>1. /\ \/ emit' = [emit EXCEPT ![t] = Tail(emit[t])] /\ Goto(t, next)
         \/ emit' = [emit EXCEPT ![t] = <<>>] /\ Goto(t, "panicked") /\ t \in Clearer
      /\ step[t] \in {"sink", "send"}
      /\ UNCHANGED <<webhookSeq, webhookLog, faults, built, loaded, heldBack>>
  <2>1. CASE DropClosed(t) \/ Send(t)
    BY <2>1 DEF DropClosed, Send, Appended
  <2>2. CASE SendOnClosed(t)
    BY <2>2 DEF SendOnClosed, IInv, LockInv, modelVars
  <2> QED BY <2>1, <2>2
<1>2. StepOrder /\ ThreadInv
  BY DEF OrderInv, IInv
<1>3. emit[t] # <<>> /\ emit[t] \in Seq(Delivery)
  BY <1>1, <1>2 DEF ThreadInv
<1>4. ToSet(Tail(emit[t])) \subseteq ToSet(emit[t]) /\ ToSet(<<>>) = {}
  BY <1>3, Contents DEF ToSet
<1>5. \A u \in Thread : ToSet(emit'[u]) \subseteq ToSet(emit[u])
  BY <1>1, <1>2, <1>4 DEF ThreadInv
<1>6. ~ (Len(emit[t]) > 1) => Tail(emit[t]) = <<>>
  BY <1>3, HeadTailProperties, LenProperties, EmptySeq
<1>7. Held' = Held
  BY <1>1 DEF Held
<1>8. Past' \subseteq Past
  BY <1>1, <1>5, <1>7, InPast, PastOf
<1>9. StepOrder'
  BY <1>1, <1>2, <1>6 DEF Goto, StepOrder, ThreadInv
<1>10. LogOrder'
  BY <1>1 DEF OrderInv, LogOrder
<1>11. webhookSeq \in Nat /\ UNCHANGED <<webhookSeq, built, heldBack>>
  BY <1>1 DEF IInv, LogInv
<1> HIDE DEF next
<1> QED BY <1>2, <1>5, <1>7, <1>8, <1>9, <1>10, <1>11, PastTyped, OrderKept

\* ArmFault arms a fault that holds nothing.
LEMMA ArmKeepsOrder ==
  ASSUME IInv, IInv', OrderInv, NEW kind \in FaultKind, NEW event \in FaultEvent, Arm(kind, event)
  PROVE  OrderInv'
<1> DEFINE f == [kind |-> kind, event |-> event, held |-> None]
<1>1. /\ faults' = Append(faults, f)
      /\ UNCHANGED <<webhookSeq, webhookLog, threadVars, heldBack>>
  BY DEF Arm
<1>2. UNCHANGED <<step, built, emit, loaded>>
  BY <1>1 DEF threadVars
<1>3. f \in Fault /\ f.held = None
  BY DEF Fault
<1> HIDE DEF f
<1>4. Held' = Held
  <2>1. /\ DOMAIN faults' = 1 .. Len(faults) + 1 /\ faults'[Len(faults) + 1] = f
        /\ \A i \in 1 .. Len(faults) : faults'[i] = faults[i]
        /\ DOMAIN faults = 1 .. Len(faults) /\ Len(faults) \in Nat
    BY <1>1, <1>3, AppendProperties, LenProperties DEF IInv, LogInv
  <2> QED BY <1>3, <2>1 DEF Held
<1>5. Past' = Past
  BY <1>1, <1>2, <1>4 DEF Past
<1>6. StepOrder' /\ LogOrder'
  BY <1>1, <1>2 DEF OrderInv, StepOrder, LogOrder
<1> QED BY <1>1, <1>2, <1>4, <1>5, <1>6, PastTyped, OrderKept DEF IInv, LogInv

\* ClearFaults appends what the faults held.
LEMMA ClearKeepsOrder ==
  ASSUME IInv, IInv', OrderInv, NEW t \in Thread, ClearFaults(t)
  PROVE  OrderInv'
<1> DEFINE Holding == {i \in DOMAIN faults : faults[i].held # None}
           Release(order) == [i \in DOMAIN order |-> faults[order[i]].held]
<1>1. PICK order \in InOrder(Holding) :
        /\ emit' = [emit EXCEPT ![t] = Release(order)]
        /\ Goto(t, IF Release(order) = <<>> THEN "done" ELSE "load")
  BY DEF ClearFaults
<1>2. /\ t \in Clearer /\ step[t] = "start" /\ faults' = <<>>
      /\ UNCHANGED <<webhookSeq, webhookLog, built, loaded, heldBack>>
  BY DEF ClearFaults
<1>3. Len(faults) \in Nat /\ DOMAIN faults = 1 .. Len(faults)
  BY LenProperties DEF IInv, LogInv
<1>4. /\ order \in Seq(Holding) /\ DOMAIN order = 1 .. Len(order) /\ Len(order) \in Nat
  BY <1>3, InOrderIsSeq
<1>5. ToSet(Release(order)) \subseteq Held
  <2>1. \A i \in DOMAIN order : order[i] \in Holding
    BY <1>4, ElementOfSeq
  <2> QED BY <2>1 DEF ToSet, Held
<1> HIDE DEF Release
<1>6. StepOrder /\ ThreadInv
  BY DEF OrderInv, IInv
<1>7. Held' = {}
  BY <1>2 DEF Held
<1>8. \A u \in Thread : \A d \in ToSet(emit'[u]) : d \in ToSet(emit[u]) \/ d \in Held
  BY <1>1, <1>5, <1>6 DEF ThreadInv
<1>9. Past' \subseteq Past
  BY <1>2, <1>7, <1>8, InPast, PastOf
<1>10. StepOrder'
  BY <1>1, <1>2, <1>6 DEF Goto, StepOrder, ThreadInv
<1>11. LogOrder'
  BY <1>2 DEF OrderInv, LogOrder
<1> QED BY <1>2, <1>7, <1>8, <1>9, <1>10, <1>11, PastTyped, OrderKept DEF IInv, LogInv

\* What is left when one is taken out was there.
LEMMA RemoveAtKeeps ==
  ASSUME NEW T, NEW s \in Seq(T), NEW i \in 1 .. Len(s)
  PROVE  \A j \in DOMAIN RemoveAt(s, i) : \E k \in DOMAIN s : RemoveAt(s, i)[j] = s[k]
<1> DEFINE p == SubSeq(s, 1, i - 1)
           q == SubSeq(s, i + 1, Len(s))
<1>1. Len(s) \in Nat /\ DOMAIN s = 1 .. Len(s)
  BY LenProperties
<1>2. p \in Seq(T) /\ q \in Seq(T)
  <2>1. \A j \in 1 .. i - 1 : s[j] \in T
    BY <1>1, ElementOfSeq
  <2>2. \A j \in i + 1 .. Len(s) : s[j] \in T
    BY <1>1, ElementOfSeq
  <2> QED BY <1>1, <2>1, <2>2, SubSeqProperties
<1>3. ToSet(p) \subseteq ToSet(s) /\ ToSet(q) \subseteq ToSet(s)
  BY <1>1, Contents
<1>4. RemoveAt(s, i) = p \o q
  BY DEF RemoveAt
<1> HIDE DEF p, q
<1>5. ASSUME NEW j \in DOMAIN RemoveAt(s, i)
      PROVE  RemoveAt(s, i)[j] \in ToSet(p) \cup ToSet(q)
  <2>1. /\ j \in 1 .. Len(p) + Len(q) /\ Len(p) \in Nat /\ Len(q) \in Nat
        /\ (p \o q)[j] = IF j <= Len(p) THEN p[j] ELSE q[j - Len(p)]
        /\ DOMAIN p = 1 .. Len(p) /\ DOMAIN q = 1 .. Len(q)
    BY <1>2, <1>4, ConcatProperties, LenProperties
  <2> QED BY <1>4, <2>1 DEF ToSet
<1> QED BY <1>3, <1>5 DEF ToSet

\* The outcomes of emitThroughFaults: what is emitted is the delivery itself, or
\* was held; what the faults hold is what they held, or the delivery itself; and
\* what is emitted is not held any more.
LEMMA OutcomeOf ==
  ASSUME IInv, NEW d \in Delivery
  PROVE  LET o == FaultOutcome(d) IN
         /\ \A e \in ToSet(o.emitted) : e.id = d.id \/ e \in Held
         /\ \A i \in DOMAIN o.faults :
              \/ o.faults[i].held \in Held \cup {None}
              \/ o.faults[i].held = d /\ o.kind = "reorder" /\ o.emitted = <<>>
<1>1. faults \in Seq(Fault) /\ webhookSeq \in Nat /\ Len(faults) \in Nat
      /\ DOMAIN faults = 1 .. Len(faults)
  BY LenProperties DEF IInv, LogInv
<1>2. \A i \in DOMAIN faults : faults[i].held \in Held \cup {None}
  BY DEF Held
<1>3. CASE Matching(d) = {}
  <2>1. FaultOutcome(d) = Outcome("none", <<d>>, 0, faults)
    BY <1>3 DEF FaultOutcome
  <2> QED BY <1>2, <2>1 DEF Outcome, ToSet
<1>4. CASE Matching(d) # {}
  <2> DEFINE i == Min(Matching(d))
  <2>1. i \in 1 .. Len(faults)
    <3>1. Matching(d) \in SUBSET Nat /\ Matching(d) \subseteq 1 .. Len(faults)
      BY <1>1 DEF Matching
    <3> QED BY <1>4, <3>1, MinIsIn
  <2> HIDE DEF i
  <2>2. faults[i] \in Fault
    BY <1>1, <2>1, ElementOfSeq
  <2>3. \A j \in DOMAIN Without(i) : Without(i)[j].held \in Held \cup {None}
    BY <1>1, <1>2, <2>1, RemoveAtKeeps DEF Without
  <2>4. faults[i].kind \in {"duplicate", "drop", "delay", "reorder"}
    BY <2>2, WebhooksAssumption DEF Fault
  <2>5. CASE faults[i].kind = "duplicate"
    <3>1. FaultOutcome(d) = Duplicated(d, i)
      BY <1>4, <2>5 DEF FaultOutcome, i
    <3> DEFINE again == [d EXCEPT !.seq = webhookSeq + 1]
    <3>2. again.id = d.id
      BY DEF Delivery
    <3>3. FaultOutcome(d) = Outcome("duplicate", <<d, again>>, 1, Without(i))
      BY <3>1 DEF Duplicated
    <3> HIDE DEF again
    <3>4. \A e \in ToSet(<<d, again>>) : e = d \/ e = again
      BY DEF ToSet
    <3> QED BY <2>3, <3>2, <3>3, <3>4 DEF Outcome
  <2>6. CASE faults[i].kind = "drop"
    <3>1. FaultOutcome(d) = Dropped(d, i)
      BY <1>4, <2>6 DEF FaultOutcome, i
    <3> QED BY <2>3, <3>1 DEF Dropped, Outcome, ToSet
  <2>7. CASE faults[i].kind = "delay"
    <3>1. FaultOutcome(d) = Delayed(d, i)
      BY <1>4, <2>7 DEF FaultOutcome, i
    <3> DEFINE late == [d EXCEPT !.late = TRUE]
    <3>2. late.id = d.id
      BY DEF Delivery
    <3>3. FaultOutcome(d) = Outcome("delay", <<late>>, 0, Without(i))
      BY <3>1 DEF Delayed
    <3> HIDE DEF late
    <3>4. \A e \in ToSet(<<late>>) : e = late
      BY DEF ToSet
    <3> QED BY <2>3, <3>2, <3>3, <3>4 DEF Outcome
  <2>8. CASE faults[i].kind = "reorder" /\ faults[i].held = None
    <3>1. FaultOutcome(d) = Reordered(d, i)
      BY <1>4, <2>8 DEF FaultOutcome, i
    <3>2. FaultOutcome(d) = Outcome("reorder", <<>>, 0, [faults EXCEPT ![i].held = d])
      BY <2>8, <3>1 DEF Reordered
    <3>3. \A j \in DOMAIN faults : [faults EXCEPT ![i].held = d][j].held
                                    \in (IF j = i THEN {d} ELSE {faults[j].held})
      BY <1>1, <2>1, <2>2 DEF Fault
    <3> QED BY <1>2, <3>2, <3>3 DEF Outcome, ToSet
  <2>9. CASE faults[i].kind = "reorder" /\ faults[i].held # None
    <3>1. FaultOutcome(d) = Reordered(d, i)
      BY <1>4, <2>9 DEF FaultOutcome, i
    <3>2. FaultOutcome(d) = Outcome("reorder", <<d, faults[i].held>>, 0, Without(i))
      BY <2>9, <3>1 DEF Reordered
    <3>3. faults[i].held \in Held
      BY <1>1, <2>1, <2>9 DEF Held
    <3> QED BY <2>3, <3>2, <3>3 DEF Outcome, ToSet
  <2> QED BY <2>4, <2>5, <2>6, <2>7, <2>8, <2>9
<1> QED BY <1>3, <1>4

\* What has been through the faults is behind everything built after it.
LEMMA EmitKeepsOrder ==
  ASSUME IInv, IInv', OrderInv, NEW t \in Thread, EmitThroughFaults(t)
  PROVE  OrderInv'
<1> DEFINE d == Head(built[t])
           o == FaultOutcome(d)
           next == IF o.emitted = <<>> THEN "faults" ELSE "load"
<1>1. /\ faults' = o.faults /\ webhookSeq' = webhookSeq + o.given
      /\ emit' = [emit EXCEPT ![t] = o.emitted] /\ Goto(t, next)
      /\ built' = [built EXCEPT ![t] = Tail(built[t])]
      /\ heldBack' = IF o.kind = "reorder" /\ o.emitted = <<>> THEN heldBack \cup {d.seq}
                     ELSE heldBack
      /\ step[t] = "faults" /\ built[t] # <<>>
      /\ UNCHANGED <<webhookLog, loaded>>
  BY DEF EmitThroughFaults
<1>2. StepOrder /\ BuiltOrder /\ EmitOrder /\ HeldOrder /\ LogOrder
  BY DEF OrderInv
<1>3. ThreadInv /\ built[t] \in Seq(Delivery)
  BY DEF IInv, ThreadInv
<1>4. /\ d \in Delivery /\ d = built[t][1] /\ 1 \in DOMAIN built[t]
      /\ Tail(built[t]) \in Seq(Delivery) /\ Len(built[t]) \in Nat \ {0}
      /\ DOMAIN built[t] = 1 .. Len(built[t]) /\ DOMAIN Tail(built[t]) = 1 .. Len(built[t]) - 1
      /\ \A i \in 1 .. Len(built[t]) - 1 : Tail(built[t])[i] = built[t][i + 1]
  <2>1. Len(built[t]) \in Nat \ {0} /\ DOMAIN built[t] = 1 .. Len(built[t])
    BY <1>1, <1>3, LenProperties, EmptySeq
  <2> QED BY <1>1, <1>3, <2>1, HeadTailProperties
<1>5. d.id \in Nat /\ d.seq = d.id /\ d.id <= webhookSeq /\ NoneAfter(d.id - 1)
  <2>1. d.id \in Nat
    BY <1>4 DEF Delivery
  <2> QED BY <1>2, <1>4, <2>1 DEF BuiltOrder
<1>6. /\ \A e \in ToSet(o.emitted) : e.id = d.id \/ e \in Held
      /\ \A i \in DOMAIN o.faults :
           \/ o.faults[i].held \in Held \cup {None}
           \/ o.faults[i].held = d /\ o.kind = "reorder" /\ o.emitted = <<>>
  BY <1>4, OutcomeOf
<1>7. webhookSeq \in Nat /\ o.given \in Nat
  BY <1>4, FaultOutcomeType DEF IInv, LogInv
<1>8. t \notin Clearer /\ \A u \in Thread \ Clearer : u # t => step[u] \notin
          {"faults", "load", "store", "sink", "send"}
  <2>1. webhookMu = t
    BY <1>1, <1>2 DEF StepOrder, IInv, LockInv
  <2> QED BY <1>1, <1>2, <2>1 DEF StepOrder, IInv, LockInv
<1> HIDE DEF o, d
<1>9. webhookSeq' \in Nat /\ webhookSeq <= webhookSeq'
  BY <1>1, <1>7
<1>10. heldBack \subseteq heldBack' /\ \A e \in Held' : e \in Held \/ (e = d /\ d.id \in heldBack')
  <2>1. heldBack \subseteq heldBack'
    BY <1>1
  <2>2. ASSUME NEW e \in Held', e \notin Held PROVE e = d /\ d.id \in heldBack'
    <3>1. PICK i \in DOMAIN faults' : e = faults'[i].held /\ e # None
      BY <2>2 DEF Held
    <3>2. o.faults[i].held = d /\ o.kind = "reorder" /\ o.emitted = <<>>
      BY <1>1, <1>6, <2>2, <3>1
    <3> QED BY <1>1, <1>5, <3>1, <3>2
  <2> QED BY <2>1, <2>2
<1>11. \A e \in Past : e.id \in Nat /\ e.id <= d.id - 1
  BY <1>5, PastTyped DEF NoneAfter, Delivery
<1>12. \A e \in Past' : e \in Past \/ e.id = d.id
  <2>1. \A u \in Thread : \A e \in ToSet(emit'[u]) : e \in ToSet(emit[u]) \/ e.id = d.id \/ e \in Held
    BY <1>1, <1>3, <1>6 DEF ThreadInv
  <2>2. \A u \in Thread : \A e \in ToSet(loaded'[u]) : e \in Past
    BY <1>1, InPast
  <2>3. \A e \in ToSet(webhookLog') : e \in Past
    BY <1>1, InPast
  <2>4. \A u \in Thread : \A e \in ToSet(emit'[u]) : e \in Past \/ e.id = d.id
    BY <2>1, InPast
  <2>5. \A e \in Held' : e \in Past \/ e.id = d.id
    BY <1>10, InPast
  <2> QED BY <2>2, <2>3, <2>4, <2>5 DEF Past
<1>13. \A e \in Past' : e.id \in Nat /\ e.id <= d.id
  BY <1>5, <1>11, <1>12
<1>14. StepOrder'
  BY <1>1, <1>2, <1>3, <1>8 DEF Goto, StepOrder, ThreadInv
<1>15. LogOrder'
  BY <1>1, <1>2, <1>10 DEF LogOrder, Ordered
<1>16. HeldOrder'
  <2>1. \A e \in Past' : e.id <= webhookSeq'
    BY <1>5, <1>7, <1>9, <1>13
  <2>2. \A e \in Held' : e.id \in heldBack'
    BY <1>2, <1>10 DEF HeldOrder
  <2> QED BY <2>1, <2>2 DEF HeldOrder, NoneAfter
<1>17. EmitOrder'
  <2>1. ASSUME NEW u \in Thread, NEW e \in ToSet(emit'[u])
        PROVE  e.id \in heldBack' \/ (u \notin Clearer /\ \A x \in Past' : x.id <= e.id)
    <3>1. CASE u = t
      <4>1. e.id = d.id \/ e \in Held
        BY <1>1, <1>3, <1>6, <2>1, <3>1 DEF ThreadInv
      <4> QED BY <1>2, <1>8, <1>10, <1>13, <3>1, <4>1 DEF HeldOrder
    <3>2. CASE u # t
      <4>1. e \in ToSet(emit[u]) /\ emit[u] # <<>>
        BY <1>1, <1>3, <2>1, <3>2 DEF ThreadInv, ToSet
      <4>2. u \in Clearer
        BY <1>2, <1>8, <3>2, <4>1 DEF StepOrder
      <4> QED BY <1>2, <1>10, <4>1, <4>2 DEF EmitOrder
    <3> QED BY <3>1, <3>2
  <2> QED BY <2>1 DEF EmitOrder, NoneAfter
<1>18. BuiltOrder'
  <2> DEFINE b == built'
  <2>1. ASSUME NEW u \in Thread
        PROVE  /\ \A i, j \in DOMAIN b[u] : i < j => b[u][i].id < b[u][j].id
               /\ \A i \in DOMAIN b[u] :
                    /\ b[u][i].seq = b[u][i].id /\ b[u][i].id <= webhookSeq'
                    /\ \A e \in Past' : e.id <= b[u][i].id - 1
    <3>1. CASE u = t
      <4>1. b[u] = Tail(built[t])
        BY <1>1, <1>3, <3>1 DEF ThreadInv
      <4> HIDE DEF b
      <4>2. \A i \in DOMAIN b[u] : i + 1 \in DOMAIN built[t] /\ b[u][i] = built[t][i + 1]
        BY <1>4, <4>1
      <4>3. \A i \in DOMAIN built[t] : built[t][i].id \in Nat
        <5>1. \A i \in DOMAIN built[t] : built[t][i] \in Delivery
          BY <1>3, <1>4, ElementOfSeq
        <5> QED BY <5>1 DEF Delivery
      <4>4. \A i, j \in DOMAIN b[u] : i < j => b[u][i].id < b[u][j].id
        <5>1. \A i, j \in DOMAIN b[u] : i < j => i + 1 < j + 1
          BY <1>4, <4>1
        <5> QED BY <1>2, <4>2, <5>1 DEF BuiltOrder
      <4>5. \A i \in DOMAIN b[u] : b[u][i].id \in Nat /\ d.id < b[u][i].id
        <5>1. \A i \in DOMAIN b[u] : 1 < i + 1
          BY <1>4, <4>1
        <5> QED BY <1>2, <1>4, <4>2, <4>3, <5>1 DEF BuiltOrder
      <4>6. \A i \in DOMAIN b[u] : b[u][i].seq = b[u][i].id /\ b[u][i].id <= webhookSeq
        BY <1>2, <4>2 DEF BuiltOrder
      <4>7. \A i \in DOMAIN b[u] : b[u][i].id <= webhookSeq'
        BY <1>7, <1>9, <4>5, <4>6
      <4>8. \A i \in DOMAIN b[u] : \A e \in Past' : e.id <= b[u][i].id - 1
        BY <1>5, <1>13, <4>5
      <4> QED BY <4>4, <4>6, <4>7, <4>8
    <3>2. CASE u # t
      <4>1. b[u] = built[u]
        BY <1>1, <1>3, <3>2 DEF ThreadInv
      <4>2. b[u] = <<>>
        BY <1>2, <1>8, <3>2, <4>1, <1>3 DEF StepOrder, ThreadInv, Step
      <4> QED BY <4>2
    <3> QED BY <3>1, <3>2
  <2> QED BY <2>1 DEF BuiltOrder, NoneAfter
<1> QED BY <1>14, <1>15, <1>16, <1>17, <1>18 DEF OrderInv

-----------------------------------------------------------------------------
(* The order of the log *)

\* What a request announces are declared events.
LEMMA AnnouncedEvents ==
  ASSUME NEW t, NEW order \in InOrder(Announced(CallOf[t]))
  PROVE  EventsAt(order) \in Seq(Event)
<1>1. Announced(CallOf[t]) \in SUBSET (1 .. Len(Declared)) /\ Len(Declared) \in Nat
  BY WebhooksAssumption DEF Announced
<1>2. /\ order \in Seq(Announced(CallOf[t])) /\ DOMAIN order = 1 .. Len(order)
      /\ Len(order) \in Nat
  BY <1>1, InOrderIsSeq
<1>3. \A i \in 1 .. Len(order) : Declared[order[i]].event \in Event
  BY <1>1, <1>2, ElementOfSeq, WebhooksAssumption DEF Event
<1> QED BY <1>2, <1>3 DEF EventsAt

THEOREM StepOrderInv == IInv /\ IInv' /\ OrderInv /\ [Next]_vars => OrderInv'
<1> SUFFICES ASSUME IInv, IInv', OrderInv, [Next]_vars PROVE OrderInv'
  OBVIOUS
<1>1. ASSUME NEW t \in Thread, Enqueue(t) PROVE OrderInv'
  <2>1. PICK order \in InOrder(Announced(CallOf[t])) : Announce(t, EventsAt(order), t)
    BY <1>1 DEF Enqueue
  <2>2. EventsAt(order) \in Seq(Event)
    BY AnnouncedEvents
  <2>3. t \notin Clearer /\ step[t] = "enqueue"
    BY <1>1 DEF Enqueue, OrderInv, StepOrder
  <2> QED BY <2>1, <2>2, <2>3, AnnounceKeepsOrder
<1>2. ASSUME NEW t \in Thread, EmitWebhook(t) PROVE OrderInv'
  <2>1. <<EmitOf[t]>> \in Seq(Event)
    <3>1. EmitOf[t] \in Event
      BY <1>2 DEF EmitWebhook, Event
    <3> QED BY <3>1
  <2>2. t \notin Clearer /\ step[t] = "start" /\ Announce(t, <<EmitOf[t]>>, t)
    BY <1>2, WebhooksAssumption DEF EmitWebhook
  <2> QED BY <2>1, <2>2, AnnounceKeepsOrder
<1>3. ASSUME NEW t \in Thread, ChangeRow(t) \/ EmitWebhook(t) \/ ClearFaults(t) \/ Progress(t)
      PROVE  OrderInv'
  BY <1>1, <1>2, <1>3, MoveKeepsOrder, EmitKeepsOrder, LoadKeepsOrder, StoreKeepsOrder,
     ReleaseKeepsOrder, ClearKeepsOrder DEF Progress
<1>4. ASSUME NEW kind \in FaultKind, NEW event \in FaultEvent, Arm(kind, event) PROVE OrderInv'
  BY <1>4, ArmKeepsOrder
<1>5. ASSUME UNCHANGED <<webhookSeq, webhookLog, faults, threadVars, heldBack>> PROVE OrderInv'
  <2>1. UNCHANGED <<webhookSeq, webhookLog, faults, built, emit, loaded, heldBack, step>>
    BY <1>5 DEF threadVars
  <2>2. StepOrder'
    BY <2>1 DEF OrderInv, StepOrder
  <2> QED BY <2>1, <2>2, QuietKeeps
<1>6. CASE Receive \/ EndLoop \/ Close \/ CloseReturns
  BY <1>5, <1>6 DEF Receive, EndLoop, Close, CloseReturns, modelVars
<1>7. ASSUME NEW result \in {"delivered", "failed"}, Post(result) PROVE OrderInv'
  BY <1>5, <1>7 DEF Post, modelVars
<1>8. CASE UNCHANGED vars
  BY <1>5, <1>8 DEF vars, modelVars
<1> QED BY <1>3, <1>4, <1>6, <1>7, <1>8 DEF Next

THEOREM OrderInvariance == Spec => []OrderInv
<1>1. Init => OrderInv
  <2> SUFFICES ASSUME Init PROVE OrderInv
    OBVIOUS
  <2>1. Held = {} /\ Past = {}
    BY DEF Init, Held, Past, ToSet
  <2> QED BY <2>1 DEF Init, OrderInv, StepOrder, BuiltOrder, EmitOrder, HeldOrder, LogOrder,
                      NoneAfter, Ordered, ToSet
<1> QED BY <1>1, Invariance, StepOrderInv, PTL DEF Spec

\* Who announces holds webhookMu from the numbers to the last append, so nothing
\* is numbered between a delivery and its place in the log: whatever requests,
\* faults and releases overlap, only what a reorder fault held comes late.  A
\* release, which appends without the lock, can store a log that is out of
\* date, and that one is in order too.
THEOREM LogKeepsOrder == Spec => []LogInOrder
<1>1. OrderInv => LogInOrder
  BY DEF OrderInv, LogOrder, LogInOrder, Ordered
<1> QED BY <1>1, OrderInvariance, PTL

-----------------------------------------------------------------------------
(* The invariant of the deliveries' places *)

\* What a thread has still to append: not what it has stored.
Rest(t) == IF step[t] \in {"sink", "send"} THEN Tail(emit[t]) ELSE emit[t]

Way == UNION {OnTheWay(t) : t \in Thread}

HeldAt(fs) == {i \in DOMAIN fs : fs[i].held # None}
HeldSeqs(fs) == {fs[i].held.seq : i \in HeldAt(fs)}

Distinct(s) == \A i, j \in DOMAIN s : s[i].seq = s[j].seq => i = j

\* The numbers up to n, each in one of five places.
Parted(log, left, dropped, held, way, n) ==
  /\ log \cup left \cup dropped \cup held \cup way = 1 .. n
  /\ log \cap left = {} /\ log \cap dropped = {} /\ log \cap held = {} /\ log \cap way = {}
  /\ left \cap dropped = {} /\ left \cap held = {} /\ left \cap way = {}
  /\ dropped \cap held = {} /\ dropped \cap way = {}
  /\ held \cap way = {}

\* As long as no release appends without webhookMu, an append stores the log it
\* has loaded with one more delivery, and no two deliveries share a number.
Account ==
  /\ \A t \in Clearer : emit[t] = <<>>
  /\ \A t \in Thread : step[t] = "store" => loaded[t] = webhookLog
  /\ \A i \in HeldAt(faults) : faults[i].kind = "reorder"
  /\ \A i, j \in HeldAt(faults) : faults[i].held.seq = faults[j].held.seq => i = j
  /\ Distinct(webhookLog)
  /\ \A t \in Thread : /\ Distinct(built[t]) /\ Distinct(Rest(t))
                       /\ Seqs(built[t]) \cap Seqs(Rest(t)) = {}
  /\ Parted(Seqs(webhookLog), trimmed, swallowed, HeldSeqs(faults), Way, webhookSeq)

AccountInv == ~released => Account

-----------------------------------------------------------------------------
(* Lemmas about numbers *)

LEMMA SeqsOfAppend ==
  ASSUME NEW s \in Seq(Delivery), NEW d \in Delivery
  PROVE  /\ Seqs(Append(s, d)) = Seqs(s) \cup {d.seq}
         /\ Distinct(s) /\ d.seq \notin Seqs(s) => Distinct(Append(s, d))
<1>1. Len(s) \in Nat /\ DOMAIN s = 1 .. Len(s)
  BY LenProperties
<1>2. /\ DOMAIN Append(s, d) = 1 .. Len(s) + 1 /\ Append(s, d)[Len(s) + 1] = d
      /\ \A i \in 1 .. Len(s) : Append(s, d)[i] = s[i]
  BY <1>1, AppendProperties, LenProperties
<1> DEFINE a == Append(s, d)
<1> HIDE DEF a
<1>3. DOMAIN a = 1 .. Len(s) + 1 /\ a[Len(s) + 1] = d /\ \A i \in 1 .. Len(s) : a[i] = s[i]
  BY <1>2 DEF a
<1>4. 1 .. Len(s) + 1 = (1 .. Len(s)) \cup {Len(s) + 1} /\ Len(s) + 1 \notin 1 .. Len(s)
  BY <1>1
<1>5. Seqs(a) = Seqs(s) \cup {d.seq}
  BY <1>1, <1>3, <1>4 DEF Seqs
<1>6. ASSUME Distinct(s), d.seq \notin Seqs(s) PROVE Distinct(a)
  <2>1. \A i \in 1 .. Len(s) : s[i].seq # d.seq
    BY <1>1, <1>6 DEF Seqs
  <2> QED BY <1>1, <1>3, <1>4, <1>6, <2>1 DEF Distinct
<1> QED BY <1>5, <1>6 DEF a

LEMMA SeqsOfTail ==
  ASSUME NEW s \in Seq(Delivery), s # <<>>, Distinct(s)
  PROVE  /\ Head(s) \in Delivery /\ Head(s).seq \in Seqs(s) /\ Tail(s) \in Seq(Delivery)
         /\ Seqs(Tail(s)) = Seqs(s) \ {Head(s).seq} /\ Distinct(Tail(s))
<1>1. Len(s) \in Nat \ {0} /\ DOMAIN s = 1 .. Len(s)
  BY LenProperties, EmptySeq
<1>2. /\ Head(s) = s[1] /\ s[1] \in Delivery /\ Tail(s) \in Seq(Delivery)
      /\ DOMAIN Tail(s) = 1 .. Len(s) - 1
      /\ \A i \in 1 .. Len(s) - 1 : Tail(s)[i] = s[i + 1]
  BY <1>1, HeadTailProperties, ElementOfSeq, LenProperties
<1> DEFINE r == Tail(s)
<1> HIDE DEF r
<1>3. DOMAIN r = 1 .. Len(s) - 1 /\ \A i \in 1 .. Len(s) - 1 : r[i] = s[i + 1]
  BY <1>2 DEF r
<1>4. \A i \in 1 .. Len(s) - 1 : i + 1 \in 1 .. Len(s) /\ i + 1 # 1
  BY <1>1
<1>5. \A i \in 1 .. Len(s) : i # 1 => i - 1 \in 1 .. Len(s) - 1 /\ i = (i - 1) + 1
  BY <1>1
<1>6. 1 \in 1 .. Len(s)
  BY <1>1
<1>7. Seqs(r) = Seqs(s) \ {s[1].seq}
  <2>1. ASSUME NEW i \in 1 .. Len(s) - 1 PROVE r[i].seq \in Seqs(s) \ {s[1].seq}
    BY <1>1, <1>3, <1>4, <1>6 DEF Seqs, Distinct
  <2>2. ASSUME NEW i \in 1 .. Len(s), s[i].seq # s[1].seq PROVE s[i].seq \in Seqs(r)
    <3>1. i - 1 \in DOMAIN r /\ r[i - 1] = s[i]
      BY <1>3, <1>5, <2>2
    <3> QED BY <3>1 DEF Seqs
  <2> QED BY <1>1, <1>3, <2>1, <2>2 DEF Seqs
<1>8. Distinct(r)
  <2>1. ASSUME NEW i \in 1 .. Len(s) - 1, NEW j \in 1 .. Len(s) - 1, r[i].seq = r[j].seq
        PROVE  i = j
    <3>1. i + 1 = j + 1
      BY <1>1, <1>3, <1>4, <2>1 DEF Distinct
    <3> QED BY <3>1
  <2> QED BY <1>3, <2>1 DEF Distinct
<1> QED BY <1>1, <1>2, <1>6, <1>7, <1>8 DEF r, Seqs

LEMMA SeqsOfLastN ==
  ASSUME NEW s \in Seq(Delivery), NEW n \in Nat
  PROVE  /\ Seqs(LastN(s, n)) \subseteq Seqs(s)
         /\ Distinct(s) => Distinct(LastN(s, n))
<1>1. Len(s) \in Nat /\ DOMAIN s = 1 .. Len(s)
  BY LenProperties
<1> DEFINE from == IF Len(s) > n THEN Len(s) - n + 1 ELSE 1
           r == LastN(s, n)
<1>2. from \in Nat \ {0} /\ r = SubSeq(s, from, Len(s))
  BY <1>1 DEF LastN
<1> HIDE DEF from, r
<1>3. /\ DOMAIN r = IF from <= Len(s) THEN 1 .. Len(s) - from + 1 ELSE {}
      /\ from <= Len(s) => \A k \in 1 .. Len(s) - from + 1 : r[k] = s[from + k - 1]
  BY <1>1, <1>2
<1>4. \A k \in DOMAIN r : from + k - 1 \in DOMAIN s /\ r[k] = s[from + k - 1]
  BY <1>1, <1>2, <1>3
<1>5. \A i, j \in DOMAIN r : from + i - 1 = from + j - 1 => i = j
  BY <1>1, <1>2, <1>3
<1>6. Seqs(r) \subseteq Seqs(s)
  BY <1>4 DEF Seqs
<1>7. ASSUME Distinct(s) PROVE Distinct(r)
  BY <1>4, <1>5, <1>7 DEF Distinct
<1> QED BY <1>6, <1>7 DEF r

\* Taking one fault out.
LEMMA RemoveAtIs ==
  ASSUME NEW T, NEW s \in Seq(T), NEW i \in 1 .. Len(s)
  PROVE  /\ RemoveAt(s, i) \in Seq(T) /\ DOMAIN RemoveAt(s, i) = 1 .. Len(s) - 1
         /\ \A j \in 1 .. Len(s) - 1 : RemoveAt(s, i)[j] = s[IF j < i THEN j ELSE j + 1]
<1> DEFINE p == SubSeq(s, 1, i - 1)
           q == SubSeq(s, i + 1, Len(s))
<1>1. Len(s) \in Nat /\ DOMAIN s = 1 .. Len(s)
  BY LenProperties
<1>2. /\ p \in Seq(T) /\ q \in Seq(T) /\ Len(p) = i - 1 /\ Len(q) = Len(s) - i
      /\ \A j \in 1 .. i - 1 : p[j] = s[j]
      /\ \A j \in 1 .. Len(s) - i : q[j] = s[j + i]
  <2>1. \A j \in 1 .. i - 1 : s[j] \in T
    BY <1>1, ElementOfSeq
  <2>2. \A j \in i + 1 .. Len(s) : s[j] \in T
    BY <1>1, ElementOfSeq
  <2> QED BY <1>1, <2>1, <2>2, SubSeqProperties
<1>3. RemoveAt(s, i) = p \o q
  BY DEF RemoveAt
<1> HIDE DEF p, q
<1>4. /\ p \o q \in Seq(T) /\ Len(p \o q) = Len(s) - 1
      /\ \A j \in 1 .. Len(s) - 1 : (p \o q)[j] = IF j <= i - 1 THEN p[j] ELSE q[j - (i - 1)]
  <2>1. /\ p \o q \in Seq(T) /\ Len(p \o q) = Len(p) + Len(q)
        /\ \A j \in 1 .. Len(p) + Len(q) : (p \o q)[j] = IF j <= Len(p) THEN p[j] ELSE q[j - Len(p)]
    BY <1>2, ConcatProperties
  <2>2. Len(p) + Len(q) = Len(s) - 1
    BY <1>1, <1>2
  <2> QED BY <1>2, <2>1, <2>2
<1>5. \A j \in 1 .. Len(s) - 1 : (p \o q)[j] = s[IF j < i THEN j ELSE j + 1]
  <2>1. ASSUME NEW j \in 1 .. Len(s) - 1 PROVE (p \o q)[j] = s[IF j < i THEN j ELSE j + 1]
    <3>1. CASE j < i
      <4>1. j \in 1 .. i - 1 /\ j <= i - 1
        BY <1>1, <3>1
      <4> QED BY <1>2, <1>4, <3>1, <4>1
    <3>2. CASE ~(j < i)
      <4>1. j - (i - 1) \in 1 .. Len(s) - i /\ ~(j <= i - 1) /\ j - (i - 1) + i = j + 1
        BY <1>1, <3>2
      <4> QED BY <1>2, <1>4, <3>2, <4>1
    <3> QED BY <3>1, <3>2
  <2> QED BY <2>1
<1> QED BY <1>1, <1>3, <1>4, <1>5, LenProperties

\* What the other faults hold stays held.
LEMMA HeldWithout ==
  ASSUME NEW fs \in Seq(Fault), NEW i \in 1 .. Len(fs),
         \A j, k \in HeldAt(fs) : fs[j].held.seq = fs[k].held.seq => j = k
  PROVE  /\ HeldSeqs(RemoveAt(fs, i)) = HeldSeqs(fs) \ {fs[k].held.seq : k \in HeldAt(fs) \cap {i}}
         /\ \A j, k \in HeldAt(RemoveAt(fs, i)) :
              RemoveAt(fs, i)[j].held.seq = RemoveAt(fs, i)[k].held.seq => j = k
         /\ \A j \in HeldAt(RemoveAt(fs, i)) : \E k \in HeldAt(fs) : RemoveAt(fs, i)[j] = fs[k]
<1> DEFINE r == RemoveAt(fs, i)
           at(j) == IF j < i THEN j ELSE j + 1
<1>1. Len(fs) \in Nat /\ DOMAIN fs = 1 .. Len(fs)
  BY LenProperties
<1>2. DOMAIN r = 1 .. Len(fs) - 1 /\ \A j \in 1 .. Len(fs) - 1 : r[j] = fs[at(j)]
  BY RemoveAtIs
<1>3. /\ \A j \in 1 .. Len(fs) - 1 : at(j) \in 1 .. Len(fs) /\ at(j) # i
      /\ \A j, k \in 1 .. Len(fs) - 1 : at(j) = at(k) => j = k
  BY <1>1
<1>4. \A k \in 1 .. Len(fs) : k # i => \E j \in 1 .. Len(fs) - 1 : at(j) = k
  <2>1. ASSUME NEW k \in 1 .. Len(fs), k # i PROVE \E j \in 1 .. Len(fs) - 1 : at(j) = k
    <3>1. CASE k < i
      <4>1. k \in 1 .. Len(fs) - 1 /\ at(k) = k
        BY <1>1, <3>1
      <4> QED BY <4>1
    <3>2. CASE k > i
      <4>1. k - 1 \in 1 .. Len(fs) - 1 /\ at(k - 1) = k
        BY <1>1, <3>2
      <4> QED BY <4>1
    <3> QED BY <1>1, <2>1, <3>1, <3>2
  <2> QED BY <2>1
<1> HIDE DEF r, at
<1>5. \A j \in HeldAt(r) : at(j) \in HeldAt(fs) /\ at(j) # i /\ r[j] = fs[at(j)]
  BY <1>1, <1>2, <1>3 DEF HeldAt
<1>6. \A k \in HeldAt(fs) : k # i => \E j \in HeldAt(r) : r[j] = fs[k]
  <2>1. ASSUME NEW k \in HeldAt(fs), k # i PROVE \E j \in HeldAt(r) : r[j] = fs[k]
    <3>1. k \in 1 .. Len(fs) /\ fs[k].held # None
      BY <1>1 DEF HeldAt
    <3>2. PICK j \in 1 .. Len(fs) - 1 : at(j) = k
      BY <1>4, <2>1, <3>1
    <3>3. r[j] = fs[k] /\ j \in DOMAIN r
      BY <1>2, <3>2
    <3> QED BY <3>1, <3>3 DEF HeldAt
  <2> QED BY <2>1
<1>7. \A j, k \in HeldAt(r) : r[j].held.seq = r[k].held.seq => j = k
  BY <1>2, <1>3, <1>5 DEF HeldAt
<1>8. HeldSeqs(r) = HeldSeqs(fs) \ {fs[k].held.seq : k \in HeldAt(fs) \cap {i}}
  <2>1. ASSUME NEW j \in HeldAt(r)
        PROVE  r[j].held.seq \in HeldSeqs(fs) \ {fs[k].held.seq : k \in HeldAt(fs) \cap {i}}
    BY <1>5 DEF HeldSeqs
  <2>2. ASSUME NEW k \in HeldAt(fs), k # i PROVE fs[k].held.seq \in HeldSeqs(r)
    BY <1>6, <2>2 DEF HeldSeqs
  <2> QED BY <2>1, <2>2 DEF HeldSeqs
<1> QED BY <1>5, <1>7, <1>8 DEF r

\* Nobody but the holder of webhookMu has a delivery on the way.
LEMMA OnlyHolder ==
  ASSUME IInv, StepOrder, \A k \in Clearer : emit[k] = <<>>, NEW t \in Thread, webhookMu # t
  PROVE  built[t] = <<>> /\ Rest(t) = <<>> /\ OnTheWay(t) = {}
<1>1. built[t] = <<>> /\ emit[t] = <<>>
  <2>1. CASE t \in Clearer
    BY <2>1 DEF StepOrder
  <2>2. CASE t \notin Clearer
    <3>1. step[t] \notin {"faults", "load", "store", "sink", "send"} /\ step[t] \in Step
      BY <2>2 DEF IInv, LockInv, ThreadInv
    <3> QED BY <2>2, <3>1 DEF StepOrder, Step
  <2> QED BY <2>1, <2>2
<1>2. step[t] \notin {"sink", "send"}
  BY <1>1 DEF IInv, ThreadInv
<1> QED BY <1>1, <1>2 DEF Rest, OnTheWay, Seqs

\* The holder alone has deliveries on the way, before its step and after.
LEMMA HoldersWay ==
  ASSUME NEW t \in Thread, \A u \in Thread : u # t => OnTheWay(u) = {},
         \A u \in Thread : u # t => UNCHANGED <<built[u], emit[u], step[u]>>
  PROVE  Way = OnTheWay(t) /\ Way' = OnTheWay(t)'
<1>1. \A u \in Thread : u # t => OnTheWay(u)' = {}
  <2>1. ASSUME NEW u \in Thread, u # t PROVE OnTheWay(u)' = {}
    <3>1. UNCHANGED <<built[u], emit[u], step[u]>> /\ OnTheWay(u) = {}
      BY <2>1
    <3>2. OnTheWay(u)' = OnTheWay(u)
      BY <3>1 DEF OnTheWay
    <3> QED BY <3>1, <3>2
  <2> QED BY <2>1
<1> QED BY <1>1 DEF Way

\* Steps that move no delivery from one place to another.
LEMMA PlacesKept ==
  ASSUME Account, UNCHANGED <<webhookSeq, webhookLog, trimmed, swallowed, faults>>,
         \A k \in Clearer : emit'[k] = <<>>,
         \A t \in Thread : built'[t] = built[t] /\ Rest(t)' = Rest(t),
         \A t \in Thread : step'[t] = "store" => loaded'[t] = webhookLog
  PROVE  Account'
<1>1. \A t \in Thread : OnTheWay(t)' = OnTheWay(t)
  BY DEF OnTheWay, Rest
<1>2. Way' = Way
  BY <1>1 DEF Way
<1> QED BY <1>2 DEF Account

LEMMA PlacesQuiet ==
  ASSUME AccountInv,
         UNCHANGED <<webhookSeq, webhookLog, trimmed, swallowed, faults, threadVars, released>>
  PROVE  AccountInv'
<1>1. UNCHANGED <<built, emit, step, loaded>>
  BY DEF threadVars
<1>2. \A t \in Thread : built'[t] = built[t] /\ Rest(t)' = Rest(t)
  BY <1>1 DEF Rest
<1>3. ASSUME Account PROVE Account'
  <2>1. /\ \A k \in Clearer : emit'[k] = <<>>
        /\ \A t \in Thread : step'[t] = "store" => loaded'[t] = webhookLog
    BY <1>1, <1>3 DEF Account
  <2> QED BY <1>2, <1>3, <2>1, PlacesKept
<1> QED BY <1>3 DEF AccountInv

Unsaid == {"start", "enqueue"}

\* Steps that move on, read the log or leave the sink behind move no delivery.
LEMMA MoveKeepsHands ==
  ASSUME IInv, IInv', StepOrder, Account, NEW t \in Thread,
         ChangeRow(t) \/ EndAnnounce(t) \/ LoadLog(t) \/ CheckSink(t) \/ DropClosed(t) \/ Send(t)
           \/ SendOnClosed(t)
  PROVE  /\ UNCHANGED <<webhookSeq, webhookLog, trimmed, swallowed, faults, released, armed>>
         /\ \A k \in Clearer : emit'[k] = <<>>
         /\ \A u \in Thread : /\ built'[u] = built[u] /\ Rest(u)' = Rest(u)
                              /\ step'[u] = "store" => loaded'[u] = webhookLog
                              /\ step'[u] \in Unsaid <=> step[u] \in Unsaid
<1>1. UNCHANGED <<webhookSeq, webhookLog, trimmed, swallowed, faults, released, armed, built>>
  BY DEF ChangeRow, EndAnnounce, LoadLog, CheckSink, DropClosed, Send, SendOnClosed, Appended, modelVars
<1>2. Account /\ ThreadInv
  BY DEF IInv
<1>3. \A k \in Clearer : emit[k] = <<>> /\ step[k] \notin {"load", "store", "sink", "send"}
  BY <1>2, WebhooksAssumption DEF Account, ThreadInv, Thread
<1> DEFINE Hands == /\ \A k \in Clearer : emit'[k] = <<>>
                    /\ \A u \in Thread : /\ built'[u] = built[u] /\ Rest(u)' = Rest(u)
                                         /\ step'[u] = "store" => loaded'[u] = webhookLog
                                         /\ step'[u] \in Unsaid <=> step[u] \in Unsaid
<1>4. ASSUME emit' = emit, NEW next \in Step, Goto(t, next),
             next \in {"sink", "send"} <=> step[t] \in {"sink", "send"},
             next \in Unsaid <=> step[t] \in Unsaid,
             loaded' = loaded, next # "store"
      PROVE  Hands
  <2>1. step'[t] = next /\ \A u \in Thread : u # t => step'[u] = step[u]
    BY <1>2, <1>4 DEF Goto, ThreadInv
  <2>2. \A u \in Thread : built'[u] = built[u] /\ Rest(u)' = Rest(u)
    BY <1>1, <1>4, <2>1 DEF Rest
  <2>3. \A k \in Clearer : emit'[k] = <<>>
    BY <1>3, <1>4
  <2>4. \A u \in Thread : step'[u] = "store" => loaded'[u] = webhookLog
    BY <1>2, <1>4, <2>1 DEF Account
  <2>5. \A u \in Thread : step'[u] \in Unsaid <=> step[u] \in Unsaid
    BY <1>4, <2>1
  <2> QED BY <2>2, <2>3, <2>4, <2>5
<1>a. ASSUME NEW next \in {"enqueue", "done", "send"}, Goto(t, next), emit' = emit, loaded' = loaded,
             step[t] \in {"start", "faults", "sink"},
             next = "enqueue" <=> step[t] = "start", next = "send" <=> step[t] = "sink"
      PROVE  Hands
  <2>1. next \in Step /\ next # "store"
    BY <1>a DEF Step
  <2>2. next \in {"sink", "send"} <=> step[t] \in {"sink", "send"}
    BY <1>a
  <2>3. next \in Unsaid <=> step[t] \in Unsaid
    BY <1>a DEF Unsaid
  <2> HIDE DEF Hands
  <2> QED BY <1>4, <1>a, <2>1, <2>2, <2>3
<1>5. ASSUME ChangeRow(t) \/ EndAnnounce(t) \/ CheckSink(t) PROVE Hands
  <2> HIDE DEF Hands
  <2>1. CASE ChangeRow(t)
    <3>1. Goto(t, "enqueue") /\ emit' = emit /\ loaded' = loaded /\ step[t] = "start"
      BY <2>1 DEF ChangeRow
    <3> QED BY <1>a, <3>1
  <2>2. CASE EndAnnounce(t)
    <3>1. Goto(t, "done") /\ emit' = emit /\ loaded' = loaded /\ step[t] = "faults"
      BY <2>2 DEF EndAnnounce
    <3> QED BY <1>a, <3>1
  <2>3. CASE CheckSink(t)
    <3>1. Goto(t, "send") /\ emit' = emit /\ loaded' = loaded /\ step[t] = "sink"
      BY <2>3 DEF CheckSink
    <3> QED BY <1>a, <3>1
  <2> QED BY <1>5, <2>1, <2>2, <2>3
<1>8. ASSUME LoadLog(t) PROVE Hands
  <2>1. /\ emit' = emit /\ loaded' = [loaded EXCEPT ![t] = webhookLog] /\ step[t] = "load"
        /\ step' = [step EXCEPT ![t] = "store"]
    BY <1>8 DEF LoadLog, Goto
  <2>2. /\ step'[t] = "store" /\ loaded'[t] = webhookLog
        /\ \A u \in Thread : u # t => UNCHANGED <<step[u], loaded[u]>>
    BY <1>2, <2>1 DEF ThreadInv
  <2>3. \A u \in Thread : built'[u] = built[u] /\ Rest(u)' = Rest(u)
    BY <1>1, <2>1, <2>2 DEF Rest
  <2>4. \A k \in Clearer : emit'[k] = <<>>
    BY <1>3, <2>1
  <2>5. \A u \in Thread : step'[u] = "store" => loaded'[u] = webhookLog
    BY <1>2, <2>2 DEF Account
  <2>6. \A u \in Thread : step'[u] \in Unsaid <=> step[u] \in Unsaid
    BY <2>1, <2>2 DEF Unsaid
  <2> QED BY <2>3, <2>4, <2>5, <2>6
<1>9. ASSUME DropClosed(t) \/ Send(t) PROVE Hands
  <2>1. /\ step[t] \in {"sink", "send"} /\ emit' = [emit EXCEPT ![t] = Tail(emit[t])]
        /\ \E next \in {"load", "done", "faults"} : step' = [step EXCEPT ![t] = next]
        /\ loaded' = loaded
    BY <1>9 DEF DropClosed, Send, Appended, Goto
  <2>2. /\ emit'[t] = Tail(emit[t]) /\ step'[t] \in {"load", "done", "faults"}
        /\ \A u \in Thread : u # t => UNCHANGED <<step[u], emit[u]>>
    BY <1>2, <2>1 DEF ThreadInv
  <2>3. \A u \in Thread : built'[u] = built[u] /\ Rest(u)' = Rest(u)
    BY <1>1, <2>1, <2>2 DEF Rest
  <2>4. \A k \in Clearer : emit'[k] = <<>>
    BY <1>3, <2>1, <2>2, WebhooksAssumption DEF Thread
  <2>5. \A u \in Thread : step'[u] = "store" => loaded'[u] = webhookLog
    BY <1>2, <2>1, <2>2 DEF Account
  <2>6. \A u \in Thread : step'[u] \in Unsaid <=> step[u] \in Unsaid
    BY <2>1, <2>2 DEF Unsaid
  <2> QED BY <2>3, <2>4, <2>5, <2>6
<1>10. ~SendOnClosed(t)
  <2>1. SUFFICES ASSUME SendOnClosed(t) PROVE FALSE
    OBVIOUS
  <2>2. step'[t] = "panicked" /\ step[t] = "send"
    BY <1>2, <2>1 DEF SendOnClosed, Goto, ThreadInv
  <2>3. t \in Clearer
    BY <2>2 DEF IInv, OnlyReleasePanics
  <2> QED BY <1>3, <2>2, <2>3
<1>11. Hands
  <2> HIDE DEF Hands
  <2> QED BY <1>5, <1>8, <1>9, <1>10
<1> QED BY <1>1, <1>11

LEMMA MoveKeepsPlaces ==
  ASSUME IInv, IInv', StepOrder, AccountInv, NEW t \in Thread,
         ChangeRow(t) \/ EndAnnounce(t) \/ LoadLog(t) \/ CheckSink(t) \/ DropClosed(t) \/ Send(t)
           \/ SendOnClosed(t)
  PROVE  AccountInv'
<1>1. released' = released
  BY DEF ChangeRow, EndAnnounce, LoadLog, CheckSink, DropClosed, Send, SendOnClosed, Appended, modelVars
<1>2. ASSUME Account PROVE Account'
  BY <1>2, MoveKeepsHands, PlacesKept
<1> QED BY <1>1, <1>2 DEF AccountInv

\* New numbers are on the way.
LEMMA PartedMore ==
  ASSUME NEW n \in Nat, NEW k \in Nat, NEW a, NEW b, NEW c, NEW d, NEW w, Parted(a, b, c, d, w, n)
  PROVE  Parted(a, b, c, d, w \cup (n + 1 .. n + k), n + k)
<1>1. 1 .. n + k = (1 .. n) \cup (n + 1 .. n + k) /\ (1 .. n) \cap (n + 1 .. n + k) = {}
  OBVIOUS
<1> DEFINE new == n + 1 .. n + k
           old == 1 .. n
           all == 1 .. n + k
<1> HIDE DEF new, old, all
<1>2. all = old \cup new /\ old \cap new = {}
  BY <1>1 DEF all, old, new
<1>3. Parted(a, b, c, d, w, n) /\ old = 1 .. n /\ all = 1 .. n + k /\ new = n + 1 .. n + k
  BY DEF old, all, new
<1>4. a \cup b \cup c \cup d \cup w = old
  BY <1>3 DEF Parted
<1>5. a \cup b \cup c \cup d \cup (w \cup new) = all
  BY <1>2, <1>4
<1>6. a \cap new = {} /\ b \cap new = {} /\ c \cap new = {} /\ d \cap new = {}
  BY <1>2, <1>4
<1> QED BY <1>3, <1>5, <1>6 DEF Parted

LEMMA AnnounceKeepsPlaces ==
  ASSUME IInv, StepOrder, AccountInv, NEW t \in Thread, NEW events \in Seq(Event),
         t \notin Clearer, step[t] \in {"start", "enqueue"}, Announce(t, events, t)
  PROVE  AccountInv'
<1> SUFFICES ASSUME ~released' PROVE Account'
  BY DEF AccountInv
<1>1. /\ webhookSeq' = webhookSeq + Len(events) /\ webhookMu = None
      /\ built' = [built EXCEPT ![t] = Build(events, t)] /\ Goto(t, "faults")
      /\ UNCHANGED <<webhookLog, faults, emit, loaded, swallowed, trimmed, released>>
  BY DEF Announce, modelVars
<1>2. Account /\ ThreadInv /\ webhookSeq \in Nat
  BY <1>1 DEF AccountInv, IInv, LogInv
<1>3. Len(events) \in Nat /\ DOMAIN events = 1 .. Len(events)
  BY LenProperties
<1>4. \A u \in Thread : built[u] = <<>> /\ Rest(u) = <<>> /\ OnTheWay(u) = {}
  <2>1. \A u \in Thread : webhookMu # u
    BY <1>1, WebhooksAssumption
  <2> QED BY <1>2, <2>1, OnlyHolder DEF Account
<1>5. /\ step'[t] = "faults" /\ built'[t] = Build(events, t)
      /\ \A u \in Thread : u # t => UNCHANGED <<built[u], emit[u], step[u]>>
  BY <1>1, <1>2 DEF Goto, ThreadInv
<1>6. \A u \in Thread : Rest(u)' = <<>>
  <2>1. Rest(t)' = Rest(t)
    BY <1>1, <1>5 DEF Rest
  <2>2. \A u \in Thread : u # t => Rest(u)' = Rest(u)
    BY <1>5 DEF Rest
  <2> QED BY <1>4, <2>1, <2>2
<1> DEFINE b == Build(events, t)
<1>7. /\ DOMAIN b = 1 .. Len(events)
      /\ \A i \in 1 .. Len(events) : b[i].seq = webhookSeq + i
  BY <1>3 DEF Build
<1> HIDE DEF b
<1>8. Distinct(b) /\ Seqs(b) = webhookSeq + 1 .. webhookSeq + Len(events)
  <2>1. \A i, j \in 1 .. Len(events) : webhookSeq + i = webhookSeq + j => i = j
    BY <1>2, <1>3
  <2>2. \A n \in webhookSeq + 1 .. webhookSeq + Len(events) :
          n - webhookSeq \in 1 .. Len(events) /\ n = webhookSeq + (n - webhookSeq)
    BY <1>2, <1>3
  <2>3. \A i \in 1 .. Len(events) : webhookSeq + i \in webhookSeq + 1 .. webhookSeq + Len(events)
    BY <1>2, <1>3
  <2> QED BY <1>7, <2>1, <2>2, <2>3 DEF Distinct, Seqs
<1>9. Way = {} /\ Way' = Seqs(b)
  <2>1. Way = OnTheWay(t) /\ Way' = OnTheWay(t)'
    BY <1>4, <1>5, HoldersWay
  <2>2. OnTheWay(t)' = Seqs(built'[t]) \cup Seqs(Rest(t)')
    BY DEF OnTheWay, Rest
  <2>3. Seqs(<<>>) = {}
    BY DEF Seqs
  <2> QED BY <1>4, <1>5, <1>6, <2>1, <2>2, <2>3 DEF b
<1>10. Parted(Seqs(webhookLog), trimmed, swallowed, HeldSeqs(faults), Way', webhookSeq')
  <2>1. Parted(Seqs(webhookLog), trimmed, swallowed, HeldSeqs(faults), Way, webhookSeq)
    BY <1>2 DEF Account
  <2>2. Way' = Way \cup (webhookSeq + 1 .. webhookSeq + Len(events))
    BY <1>8, <1>9
  <2> QED BY <1>1, <1>2, <1>3, <2>1, <2>2, PartedMore
<1>11. \A u \in Thread : Distinct(built'[u]) /\ Distinct(Rest(u)')
                         /\ Seqs(built'[u]) \cap Seqs(Rest(u)') = {}
  <2>1. Distinct(<<>>) /\ Seqs(<<>>) = {}
    BY DEF Distinct, Seqs
  <2> QED BY <1>4, <1>5, <1>6, <1>8, <2>1 DEF b
<1>12. \A u \in Thread : step'[u] = "store" => loaded'[u] = webhookLog
  BY <1>1, <1>2, <1>5 DEF Account
<1> QED BY <1>1, <1>2, <1>10, <1>11, <1>12 DEF Account

\* The delivery in hand goes to the log, which may push its oldest out.
LEMMA PartedStored ==
  ASSUME NEW n, NEW a, NEW b, NEW c, NEW d, NEW w, NEW x \in w, NEW log \in SUBSET (a \cup {x}),
         Parted(a, b, c, d, w, n)
  PROVE  Parted(log, b \cup ((a \cup {x}) \ log), c, d, w \ {x}, n)
BY DEF Parted

\* What an append finds: the log it has loaded is the log, and its delivery is
\* new to it.
LEMMA StoreFinds ==
  ASSUME IInv, StepOrder, Account, NEW t \in Thread, StoreLog(t),
         NEW d, d = Head(emit[t]), NEW longer, longer = Append(webhookLog, d)
  PROVE  /\ webhookLog' = LastN(longer, MaxLog)
         /\ trimmed' = trimmed \cup (Seqs(longer) \ Seqs(webhookLog'))
         /\ longer \in Seq(Delivery) /\ Distinct(longer) /\ Seqs(longer) = Seqs(webhookLog) \cup {d.seq}
         /\ d \in Delivery /\ emit[t] \in Seq(Delivery) /\ emit[t] # <<>>
         /\ Seqs(Tail(emit[t])) = Seqs(emit[t]) \ {d.seq} /\ Distinct(Tail(emit[t]))
         /\ \A u \in Thread : u # t => OnTheWay(u) = {} /\ step[u] # "store"
         /\ step[t] = "store" /\ step'[t] = "sink" /\ \A u \in Thread : u # t => step'[u] = step[u]
         /\ Rest(t) = emit[t] /\ Rest(t)' = Tail(emit[t])
         /\ \A u \in Thread : u # t => Rest(u)' = Rest(u)
         /\ d.seq \in Way /\ Way' = Way \ {d.seq}
         /\ UNCHANGED <<webhookSeq, faults, built, emit, swallowed, released, armed>>
<1>1. /\ step[t] = "store" /\ webhookLog' = LastN(Append(loaded[t], d), MaxLog)
      /\ trimmed' = trimmed \cup (Seqs(Append(loaded[t], d)) \ Seqs(LastN(Append(loaded[t], d), MaxLog)))
      /\ step' = [step EXCEPT ![t] = "sink"]
      /\ UNCHANGED <<webhookSeq, faults, built, emit, swallowed, released, armed>>
  BY DEF StoreLog, Goto
<1>2. ThreadInv /\ webhookLog \in Seq(Delivery)
  BY DEF IInv, LogInv
<1>3. loaded[t] = webhookLog /\ emit[t] \in Seq(Delivery) /\ emit[t] # <<>>
  BY <1>1, <1>2 DEF Account, ThreadInv
<1>4. /\ step'[t] = "sink" /\ \A u \in Thread : u # t => step'[u] = step[u]
  BY <1>1, <1>2 DEF ThreadInv
<1>5. t \notin Clearer
  BY <1>2, <1>3 DEF Account
<1>6. webhookMu = t
  BY <1>1, <1>5 DEF IInv, LockInv
<1>7. \A u \in Thread : u # t => OnTheWay(u) = {} /\ step[u] # "store"
  <2>1. ASSUME NEW u \in Thread, u # t PROVE OnTheWay(u) = {}
    BY <1>2, <1>6, <2>1, OnlyHolder DEF Account
  <2>2. ASSUME NEW u \in Thread, u # t PROVE step[u] # "store"
    <3>1. CASE u \in Clearer
      BY <1>2, <3>1 DEF Account, ThreadInv
    <3>2. CASE u \notin Clearer
      BY <1>6, <2>2, <3>2 DEF IInv, LockInv
    <3> QED BY <3>1, <3>2
  <2> QED BY <2>1, <2>2
<1>8. /\ Rest(t) = emit[t] /\ Rest(t)' = Tail(emit[t])
      /\ \A u \in Thread : u # t => Rest(u)' = Rest(u)
  BY <1>1, <1>4 DEF Rest
<1>9. /\ Distinct(emit[t]) /\ Distinct(built[t]) /\ Seqs(built[t]) \cap Seqs(emit[t]) = {}
      /\ Distinct(webhookLog)
  BY <1>2, <1>8 DEF Account
<1>10. /\ d \in Delivery /\ d.seq \in Seqs(emit[t])
       /\ Seqs(Tail(emit[t])) = Seqs(emit[t]) \ {d.seq} /\ Distinct(Tail(emit[t]))
  BY <1>3, <1>9, SeqsOfTail
<1>11. Way = Seqs(built[t]) \cup Seqs(emit[t]) /\ Way' = Way \ {d.seq}
  <2>1. Way = OnTheWay(t) /\ Way' = OnTheWay(t)'
    BY <1>1, <1>4, <1>7, HoldersWay
  <2>2. OnTheWay(t) = Seqs(built[t]) \cup Seqs(Rest(t))
    BY DEF OnTheWay, Rest
  <2>3. OnTheWay(t)' = Seqs(built'[t]) \cup Seqs(Rest(t)')
    BY DEF OnTheWay, Rest
  <2> QED BY <1>1, <1>8, <1>9, <1>10, <2>1, <2>2, <2>3
<1>12. d.seq \in Way /\ d.seq \notin Seqs(webhookLog)
  BY <1>2, <1>10, <1>11 DEF Account, Parted
<1>13. Seqs(longer) = Seqs(webhookLog) \cup {d.seq} /\ Distinct(longer) /\ longer \in Seq(Delivery)
  BY <1>2, <1>9, <1>10, <1>12, SeqsOfAppend, AppendProperties
<1>14. webhookLog' = LastN(longer, MaxLog) /\ trimmed' = trimmed \cup (Seqs(longer) \ Seqs(webhookLog'))
  BY <1>1, <1>3
<1> QED BY <1>1, <1>3, <1>4, <1>7, <1>8, <1>10, <1>11, <1>12, <1>13, <1>14

LEMMA StoreKeepsPlaces ==
  ASSUME IInv, StepOrder, AccountInv, NEW t \in Thread, StoreLog(t)
  PROVE  AccountInv'
<1> SUFFICES ASSUME ~released' PROVE Account'
  BY DEF AccountInv
<1> DEFINE d == Head(emit[t])
           longer == Append(webhookLog, d)
<1>1. released' = released
  BY DEF StoreLog
<1>2. Account
  BY <1>1 DEF AccountInv
<1>3. d = Head(emit[t]) /\ longer = Append(webhookLog, d)
  OBVIOUS
<1> HIDE DEF d, longer
<1>4. /\ webhookLog' = LastN(longer, MaxLog)
      /\ trimmed' = trimmed \cup (Seqs(longer) \ Seqs(webhookLog'))
      /\ longer \in Seq(Delivery) /\ Distinct(longer) /\ Seqs(longer) = Seqs(webhookLog) \cup {d.seq}
      /\ Seqs(Tail(emit[t])) = Seqs(emit[t]) \ {d.seq} /\ Distinct(Tail(emit[t]))
      /\ \A u \in Thread : u # t => OnTheWay(u) = {} /\ step[u] # "store"
      /\ step'[t] = "sink" /\ \A u \in Thread : u # t => step'[u] = step[u]
      /\ Rest(t) = emit[t] /\ Rest(t)' = Tail(emit[t])
      /\ \A u \in Thread : u # t => Rest(u)' = Rest(u)
      /\ d.seq \in Way /\ Way' = Way \ {d.seq}
      /\ UNCHANGED <<webhookSeq, faults, built, emit, swallowed>>
  BY <1>2, <1>3, StoreFinds
<1>5. Seqs(webhookLog') \subseteq Seqs(longer) /\ Distinct(webhookLog')
  BY <1>4, SeqsOfLastN, WebhooksAssumption
<1>6. Parted(Seqs(webhookLog)', trimmed', swallowed, HeldSeqs(faults), Way', webhookSeq)
  <2>1. Parted(Seqs(webhookLog), trimmed, swallowed, HeldSeqs(faults), Way, webhookSeq)
    BY <1>2 DEF Account
  <2>2. trimmed' = trimmed \cup ((Seqs(webhookLog) \cup {d.seq}) \ Seqs(webhookLog'))
    BY <1>4
  <2>3. Seqs(webhookLog') \in SUBSET (Seqs(webhookLog) \cup {d.seq})
    BY <1>4, <1>5
  <2> QED BY <1>4, <2>1, <2>2, <2>3, PartedStored
<1>7. \A u \in Thread : Distinct(built'[u]) /\ Distinct(Rest(u)')
                        /\ Seqs(built'[u]) \cap Seqs(Rest(u)') = {}
  <2>1. /\ Distinct(built[t]) /\ Seqs(built[t]) \cap Seqs(emit[t]) = {}
    BY <1>2, <1>4 DEF Account
  <2> QED BY <1>2, <1>4, <2>1 DEF Account
<1>8. \A u \in Thread : step'[u] # "store"
  BY <1>4
<1> QED BY <1>2, <1>4, <1>5, <1>6, <1>7, <1>8 DEF Account

\* A fault that is armed holds nothing.
LEMMA ArmKeepsPlaces ==
  ASSUME IInv, AccountInv, NEW kind \in FaultKind, NEW event \in FaultEvent, Arm(kind, event)
  PROVE  AccountInv'
<1> SUFFICES ASSUME ~released' PROVE Account'
  BY DEF AccountInv
<1> DEFINE f == [kind |-> kind, event |-> event, held |-> None]
<1>1. /\ faults' = Append(faults, f)
      /\ UNCHANGED <<webhookSeq, webhookLog, trimmed, swallowed, step, built, emit, loaded, released>>
  BY DEF Arm, threadVars
<1>2. Account /\ faults \in Seq(Fault)
  BY <1>1 DEF AccountInv, IInv, LogInv
<1>3. f \in Fault /\ f.held = None
  BY DEF Fault
<1> HIDE DEF f
<1>4. Len(faults) \in Nat /\ DOMAIN faults = 1 .. Len(faults)
  BY <1>2, LenProperties
<1>5. /\ DOMAIN faults' = 1 .. Len(faults) + 1 /\ faults'[Len(faults) + 1] = f
      /\ \A i \in 1 .. Len(faults) : faults'[i] = faults[i]
  BY <1>1, <1>2, <1>3, <1>4, AppendProperties, LenProperties
<1>6. 1 .. Len(faults) + 1 = (1 .. Len(faults)) \cup {Len(faults) + 1}
  BY <1>4
<1>7. HeldAt(faults)' = HeldAt(faults) /\ \A i \in HeldAt(faults) : faults'[i] = faults[i]
  BY <1>3, <1>4, <1>5, <1>6 DEF HeldAt
<1>8. HeldSeqs(faults)' = HeldSeqs(faults)
  BY <1>7 DEF HeldSeqs
<1>9. \A t \in Thread : Rest(t)' = Rest(t) /\ OnTheWay(t)' = OnTheWay(t)
  BY <1>1 DEF Rest, OnTheWay
<1>10. Way' = Way
  BY <1>9 DEF Way
<1>11. /\ \A i \in HeldAt(faults)' : faults'[i].kind = "reorder"
       /\ \A i, j \in HeldAt(faults)' : faults'[i].held.seq = faults'[j].held.seq => i = j
  BY <1>2, <1>7 DEF Account
<1> QED BY <1>1, <1>2, <1>8, <1>9, <1>10, <1>11 DEF Account

\* Without a release the faults that are removed hold nothing.
LEMMA ClearKeepsPlaces ==
  ASSUME IInv, StepOrder, AccountInv, NEW t \in Thread, ClearFaults(t)
  PROVE  AccountInv'
<1> SUFFICES ASSUME ~released' PROVE Account'
  BY DEF AccountInv
<1> DEFINE H == {i \in DOMAIN faults : faults[i].held # None}
<1>1. PICK order \in InOrder(H) :
        /\ emit' = [emit EXCEPT ![t] = [i \in DOMAIN order |-> faults[order[i]].held]]
        /\ Goto(t, IF [i \in DOMAIN order |-> faults[order[i]].held] = <<>> THEN "done" ELSE "load")
        /\ released' = (released \/ [i \in DOMAIN order |-> faults[order[i]].held] # <<>>)
  BY DEF ClearFaults
<1>2. /\ faults' = <<>> /\ t \in Clearer /\ step[t] = "start"
      /\ UNCHANGED <<webhookSeq, webhookLog, built, loaded, trimmed, swallowed>>
  BY DEF ClearFaults
<1>3. faults \in Seq(Fault) /\ ThreadInv
  BY DEF IInv, LogInv
<1>4. H \in SUBSET (1 .. Len(faults)) /\ Len(faults) \in Nat
  BY <1>3, LenProperties
<1> DEFINE release == [i \in DOMAIN order |-> faults[order[i]].held]
<1>5. ~released /\ release = <<>>
  BY <1>1
<1> HIDE DEF H, release
<1>6. H = {}
  <2>1. order \in [1 .. Cardinality(H) -> H] /\ DOMAIN order = {}
    <3>1. DOMAIN release = {}
      BY <1>5
    <3> QED BY <3>1 DEF release, InOrder
  <2>2. IsFiniteSet(H) /\ Cardinality(H) \in Nat
    <3>1. IsFiniteSet(1 .. Len(faults))
      BY <1>4, FS_Interval
    <3>2. IsFiniteSet(H)
      BY <1>4, <3>1, FS_Subset
    <3> QED BY <3>2, FS_CardinalityType
  <2>3. Cardinality(H) = 0
    BY <2>1, <2>2
  <2> QED BY <2>2, <2>3, FS_EmptySet
<1>7. Account
  BY <1>5 DEF AccountInv
<1>8. emit' = [emit EXCEPT ![t] = <<>>] /\ step' = [step EXCEPT ![t] = "done"]
  BY <1>1, <1>5 DEF Goto, release
<1>9. emit[t] = <<>>
  BY <1>2, <1>7 DEF Account
<1>10. emit' = emit /\ step'[t] = "done" /\ \A u \in Thread : u # t => step'[u] = step[u]
  BY <1>3, <1>8, <1>9 DEF ThreadInv
<1>11. \A u \in Thread : Rest(u)' = Rest(u)
  BY <1>2, <1>10 DEF Rest
<1>12. \A u \in Thread : OnTheWay(u)' = OnTheWay(u)
  BY <1>2, <1>11 DEF OnTheWay, Rest
<1>13. Way' = Way
  BY <1>12 DEF Way
<1>14. HeldAt(faults) = {} /\ HeldAt(faults)' = {} /\ HeldSeqs(faults) = {} /\ HeldSeqs(faults)' = {}
  BY <1>2, <1>6 DEF H, HeldAt, HeldSeqs
<1>15. \A u \in Thread : step'[u] = "store" => loaded'[u] = webhookLog
  BY <1>2, <1>7, <1>10 DEF Account
<1> QED BY <1>2, <1>7, <1>10, <1>11, <1>13, <1>14, <1>15 DEF Account

\* The shapes of what emitThroughFaults makes of a delivery.
LEMMA OutcomeCases ==
  ASSUME IInv, NEW d \in Delivery
  PROVE  \/ FaultOutcome(d) = Outcome("none", <<d>>, 0, faults)
         \/ \E i \in 1 .. Len(faults) :
              \/ /\ faults[i].kind = "duplicate"
                 /\ \E e \in Delivery : e.seq = webhookSeq + 1
                                        /\ FaultOutcome(d) = Outcome("duplicate", <<d, e>>, 1, Without(i))
              \/ faults[i].kind = "drop" /\ FaultOutcome(d) = Outcome("drop", <<>>, 0, Without(i))
              \/ /\ faults[i].kind = "delay"
                 /\ \E e \in Delivery : e.seq = d.seq
                                        /\ FaultOutcome(d) = Outcome("delay", <<e>>, 0, Without(i))
              \/ /\ faults[i].kind = "reorder" /\ faults[i].held = None
                 /\ FaultOutcome(d) = Outcome("reorder", <<>>, 0, [faults EXCEPT ![i].held = d])
              \/ /\ faults[i].kind = "reorder" /\ faults[i].held # None
                 /\ FaultOutcome(d) = Outcome("reorder", <<d, faults[i].held>>, 0, Without(i))
<1>1. faults \in Seq(Fault) /\ webhookSeq \in Nat /\ Len(faults) \in Nat
      /\ DOMAIN faults = 1 .. Len(faults)
  BY LenProperties DEF IInv, LogInv
<1>3. CASE Matching(d) = {}
  BY <1>3 DEF FaultOutcome
<1>4. CASE Matching(d) # {}
  <2> DEFINE i == Min(Matching(d))
  <2>1. i \in 1 .. Len(faults)
    <3>1. Matching(d) \in SUBSET Nat /\ Matching(d) \subseteq 1 .. Len(faults)
      BY <1>1 DEF Matching
    <3> QED BY <1>4, <3>1, MinIsIn
  <2> HIDE DEF i
  <2>2. faults[i] \in Fault
    BY <1>1, <2>1, ElementOfSeq
  <2>3. faults[i].kind \in {"duplicate", "drop", "delay", "reorder"}
    BY <2>2, WebhooksAssumption DEF Fault
  <2>4. FaultOutcome(d) = CASE faults[i].kind = "duplicate" -> Duplicated(d, i)
                            [] faults[i].kind = "drop"      -> Dropped(d, i)
                            [] faults[i].kind = "delay"     -> Delayed(d, i)
                            [] faults[i].kind = "reorder"   -> Reordered(d, i)
    BY <1>4 DEF FaultOutcome, i
  <2>5. CASE faults[i].kind = "duplicate"
    <3> DEFINE e == [d EXCEPT !.seq = webhookSeq + 1]
    <3>1. e \in Delivery /\ e.seq = webhookSeq + 1
      BY <1>1 DEF Delivery
    <3>2. FaultOutcome(d) = Outcome("duplicate", <<d, e>>, 1, Without(i))
      BY <2>4, <2>5 DEF Duplicated
    <3> HIDE DEF e
    <3> QED BY <2>1, <2>5, <3>1, <3>2
  <2>6. CASE faults[i].kind = "drop"
    <3>1. FaultOutcome(d) = Outcome("drop", <<>>, 0, Without(i))
      BY <2>4, <2>6 DEF Dropped
    <3> QED BY <2>1, <2>6, <3>1
  <2>7. CASE faults[i].kind = "delay"
    <3> DEFINE e == [d EXCEPT !.late = TRUE]
    <3>1. e \in Delivery /\ e.seq = d.seq
      BY <1>1 DEF Delivery
    <3>2. FaultOutcome(d) = Outcome("delay", <<e>>, 0, Without(i))
      BY <2>4, <2>7 DEF Delayed
    <3> HIDE DEF e
    <3> QED BY <2>1, <2>7, <3>1, <3>2
  <2>8. CASE faults[i].kind = "reorder" /\ faults[i].held = None
    <3>1. FaultOutcome(d) = Outcome("reorder", <<>>, 0, [faults EXCEPT ![i].held = d])
      BY <2>4, <2>8 DEF Reordered
    <3> QED BY <2>1, <2>8, <3>1
  <2>9. CASE faults[i].kind = "reorder" /\ faults[i].held # None
    <3>1. FaultOutcome(d) = Outcome("reorder", <<d, faults[i].held>>, 0, Without(i))
      BY <2>4, <2>9 DEF Reordered
    <3> QED BY <2>1, <2>9, <3>1
  <2> QED BY <2>3, <2>5, <2>6, <2>7, <2>8, <2>9
<1> QED BY <1>3, <1>4

\* A number changes its place.
LEMMA PartedMoves ==
  ASSUME NEW n, NEW a, NEW b, NEW c, NEW d, NEW w, Parted(a, b, c, d, w, n)
  PROVE  /\ \A x \in w : Parted(a, b, c \cup {x}, d, w \ {x}, n)
         /\ \A x \in w : Parted(a, b, c, d \cup {x}, w \ {x}, n)
         /\ \A x \in d : Parted(a, b, c, d \ {x}, w \cup {x}, n)
BY DEF Parted

\* The numbers of the few that are emitted.
LEMMA SeqsOfFew ==
  /\ Seqs(<<>>) = {} /\ Distinct(<<>>)
  /\ \A d \in Delivery : Seqs(<<d>>) = {d.seq} /\ Distinct(<<d>>)
  /\ \A d, e \in Delivery : /\ Seqs(<<d, e>>) = {d.seq, e.seq}
                            /\ d.seq # e.seq => Distinct(<<d, e>>)
<1>1. Seqs(<<>>) = {} /\ Distinct(<<>>)
  BY DEF Seqs, Distinct
<1>2. ASSUME NEW d \in Delivery PROVE Seqs(<<d>>) = {d.seq} /\ Distinct(<<d>>)
  BY DEF Seqs, Distinct
<1>3. ASSUME NEW d \in Delivery, NEW e \in Delivery
      PROVE  Seqs(<<d, e>>) = {d.seq, e.seq} /\ (d.seq # e.seq => Distinct(<<d, e>>))
  <2>1. DOMAIN <<d, e>> = {1, 2} /\ <<d, e>>[1] = d /\ <<d, e>>[2] = e
    OBVIOUS
  <2> QED BY <2>1 DEF Seqs, Distinct
<1> QED BY <1>1, <1>2, <1>3

\* A reorder fault takes a delivery.
LEMMA HeldWith ==
  ASSUME NEW fs \in Seq(Fault), NEW i \in 1 .. Len(fs), fs[i].held = None, NEW d \in Delivery,
         NEW r, DOMAIN r = DOMAIN fs, r[i].held = d, r[i].kind = fs[i].kind,
         \A j \in DOMAIN fs : j # i => r[j] = fs[j]
  PROVE  /\ HeldAt(r) = HeldAt(fs) \cup {i} /\ r[i].held = d /\ r[i].kind = fs[i].kind
         /\ \A j \in HeldAt(fs) : r[j] = fs[j]
         /\ HeldSeqs(r) = HeldSeqs(fs) \cup {d.seq}
<1>1. DOMAIN fs = 1 .. Len(fs) /\ fs[i] \in Fault /\ d # None
  BY LenProperties, ElementOfSeq, WebhooksAssumption
<1>2. DOMAIN r = DOMAIN fs /\ r[i].held = d /\ r[i].kind = fs[i].kind
      /\ \A j \in DOMAIN fs : j # i => r[j] = fs[j]
  OBVIOUS
<1>3. HeldAt(r) = HeldAt(fs) \cup {i} /\ i \notin HeldAt(fs)
  BY <1>1, <1>2 DEF HeldAt
<1>4. \A j \in HeldAt(fs) : r[j] = fs[j]
  BY <1>2, <1>3 DEF HeldAt
<1>5. HeldSeqs(r) = HeldSeqs(fs) \cup {d.seq}
  <2>1. \A j \in HeldAt(r) : r[j].held.seq \in HeldSeqs(fs) \cup {d.seq}
    BY <1>2, <1>3, <1>4 DEF HeldSeqs
  <2>2. d.seq \in HeldSeqs(r)
    BY <1>2, <1>3 DEF HeldSeqs
  <2>3. \A j \in HeldAt(fs) : fs[j].held.seq \in HeldSeqs(r)
    BY <1>3, <1>4 DEF HeldSeqs
  <2>4. HeldSeqs(r) \subseteq HeldSeqs(fs) \cup {d.seq}
    BY <2>1 DEF HeldSeqs
  <2>5. HeldSeqs(fs) \subseteq HeldSeqs(r)
    BY <2>3 DEF HeldSeqs
  <2> QED BY <2>2, <2>4, <2>5
<1> QED BY <1>2, <1>3, <1>4, <1>5

\* Through the faults each delivery stays on the way, is dropped or held, and
\* what a second one frees is on the way again.
LEMMA EmitKeepsPlaces ==
  ASSUME IInv, IInv', StepOrder, AccountInv, NEW t \in Thread, EmitThroughFaults(t)
  PROVE  AccountInv'
<1> SUFFICES ASSUME ~released' PROVE Account'
  BY DEF AccountInv
<1> DEFINE d == Head(built[t])
           o == FaultOutcome(d)
           next == IF o.emitted = <<>> THEN "faults" ELSE "load"
           n == d.seq
           tail == Tail(built[t])
<1>1. /\ faults' = o.faults /\ webhookSeq' = webhookSeq + o.given
      /\ emit' = [emit EXCEPT ![t] = o.emitted] /\ step' = [step EXCEPT ![t] = next]
      /\ built' = [built EXCEPT ![t] = tail]
      /\ swallowed' = IF o.kind = "drop" THEN swallowed \cup {n} ELSE swallowed
      /\ step[t] = "faults" /\ built[t] # <<>>
      /\ UNCHANGED <<webhookLog, loaded, trimmed, released>>
  BY DEF EmitThroughFaults, Goto
<1>2. Account /\ ThreadInv /\ faults \in Seq(Fault) /\ webhookSeq \in Nat
      /\ built[t] \in Seq(Delivery) /\ Len(faults) \in Nat /\ DOMAIN faults = 1 .. Len(faults)
  BY <1>1, LenProperties DEF AccountInv, IInv, LogInv, ThreadInv
<1>3. t \notin Clearer /\ emit[t] = <<>> /\ webhookMu = t
  <2>1. t \notin Clearer
    BY <1>1 DEF StepOrder
  <2> QED BY <1>1, <2>1 DEF StepOrder, IInv, LockInv
<1>4. \A u \in Thread : u # t => OnTheWay(u) = {}
  <2>1. ASSUME NEW u \in Thread, u # t PROVE OnTheWay(u) = {}
    BY <1>2, <1>3, <2>1, OnlyHolder DEF Account
  <2> QED BY <2>1
<1>5. /\ Rest(t) = <<>> /\ Distinct(built[t])
      /\ \A u \in Thread : Distinct(built[u]) /\ Distinct(Rest(u)) /\ Seqs(built[u]) \cap Seqs(Rest(u)) = {}
  BY <1>1, <1>2, <1>3 DEF Rest, Account
<1>6. /\ d \in Delivery /\ n \in Seqs(built[t]) /\ tail \in Seq(Delivery)
      /\ Seqs(tail) = Seqs(built[t]) \ {n} /\ Distinct(tail)
  BY <1>1, <1>2, <1>5, SeqsOfTail
<1>7. next \in {"faults", "load"}
  OBVIOUS
<1> HIDE DEF d, o, n, tail, next
<1>8. /\ step'[t] = next /\ built'[t] = tail /\ emit'[t] = o.emitted
      /\ \A u \in Thread : u # t => UNCHANGED <<built[u], emit[u], step[u]>>
  BY <1>1, <1>2 DEF ThreadInv
<1>9. /\ Rest(t)' = o.emitted /\ \A u \in Thread : u # t => Rest(u)' = Rest(u)
  BY <1>7, <1>8 DEF Rest
<1>10. Way = Seqs(built[t]) /\ Way' = Seqs(tail) \cup Seqs(o.emitted)
  <2>1. Way = OnTheWay(t) /\ Way' = OnTheWay(t)'
    BY <1>4, <1>8, HoldersWay
  <2>2. OnTheWay(t) = Seqs(built[t]) \cup Seqs(Rest(t))
    BY DEF OnTheWay, Rest
  <2>3. OnTheWay(t)' = Seqs(built'[t]) \cup Seqs(Rest(t)')
    BY DEF OnTheWay, Rest
  <2> QED BY <1>5, <1>8, <1>9, <2>1, <2>2, <2>3, SeqsOfFew
<1>11. /\ n \in Way /\ Seqs(tail) = Way \ {n}
       /\ Parted(Seqs(webhookLog), trimmed, swallowed, HeldSeqs(faults), Way, webhookSeq)
       /\ \A x \in Way : x \in 1 .. webhookSeq /\ x \notin HeldSeqs(faults)
  <2>1. n \in Way /\ Seqs(tail) = Way \ {n}
    BY <1>6, <1>10
  <2>2. Parted(Seqs(webhookLog), trimmed, swallowed, HeldSeqs(faults), Way, webhookSeq)
    BY <1>2 DEF Account
  <2> QED BY <2>1, <2>2 DEF Parted
<1>12. \A i, j \in HeldAt(faults) : faults[i].held.seq = faults[j].held.seq => i = j
  BY <1>2 DEF Account
<1>13. \A i \in HeldAt(faults) : faults[i].kind = "reorder"
  BY <1>2 DEF Account
\* What is left to show of an outcome.
<1>14. ASSUME \A i \in HeldAt(o.faults) : o.faults[i].kind = "reorder",
              \A i, j \in HeldAt(o.faults) : o.faults[i].held.seq = o.faults[j].held.seq => i = j,
              Distinct(o.emitted), Seqs(o.emitted) \cap Seqs(tail) = {},
              Parted(Seqs(webhookLog), trimmed, swallowed', HeldSeqs(o.faults),
                     Seqs(tail) \cup Seqs(o.emitted), webhookSeq + o.given)
       PROVE  Account'
  <2>1. \A u \in Thread : Distinct(built'[u]) /\ Distinct(Rest(u)')
                          /\ Seqs(built'[u]) \cap Seqs(Rest(u)') = {}
    BY <1>5, <1>6, <1>8, <1>9, <1>14
  <2>2. \A k \in Clearer : emit'[k] = <<>>
    BY <1>2, <1>3, <1>8, WebhooksAssumption DEF Account, Thread
  <2>3. \A u \in Thread : step'[u] = "store" => loaded'[u] = webhookLog
    BY <1>1, <1>2, <1>7, <1>8 DEF Account
  <2>4. Parted(Seqs(webhookLog)', trimmed', swallowed', HeldSeqs(faults)', Way', webhookSeq')
    BY <1>1, <1>10, <1>14
  <2>5. HeldAt(faults)' = HeldAt(o.faults)
    BY <1>1 DEF HeldAt
  <2>6. Distinct(webhookLog')
    BY <1>1, <1>2 DEF Account
  <2>7. /\ \A i \in HeldAt(faults)' : faults'[i].kind = "reorder"
        /\ \A i, j \in HeldAt(faults)' : faults'[i].held.seq = faults'[j].held.seq => i = j
    BY <1>1, <1>14, <2>5
  <2>8. \A u \in Thread : step'[u] = "store" => loaded'[u] = webhookLog'
    BY <1>1, <2>3
  <2> QED BY <2>1, <2>2, <2>4, <2>6, <2>7, <2>8 DEF Account
<1>15. \/ o = Outcome("none", <<d>>, 0, faults)
       \/ \E i \in 1 .. Len(faults) :
            \/ /\ faults[i].kind = "duplicate"
               /\ \E e \in Delivery : e.seq = webhookSeq + 1
                                      /\ o = Outcome("duplicate", <<d, e>>, 1, Without(i))
            \/ faults[i].kind = "drop" /\ o = Outcome("drop", <<>>, 0, Without(i))
            \/ /\ faults[i].kind = "delay"
               /\ \E e \in Delivery : e.seq = n /\ o = Outcome("delay", <<e>>, 0, Without(i))
            \/ /\ faults[i].kind = "reorder" /\ faults[i].held = None
               /\ o = Outcome("reorder", <<>>, 0, [faults EXCEPT ![i].held = d])
            \/ /\ faults[i].kind = "reorder" /\ faults[i].held # None
               /\ o = Outcome("reorder", <<d, faults[i].held>>, 0, Without(i))
  BY <1>6, OutcomeCases DEF o, n
<1>16. \A kind, emitted, given, fs : LET u == Outcome(kind, emitted, given, fs) IN
         u.kind = kind /\ u.emitted = emitted /\ u.given = given /\ u.faults = fs
  BY DEF Outcome
<1>17. webhookSeq + 0 = webhookSeq /\ webhookSeq + 1 \notin Way
       /\ (webhookSeq + 1 .. webhookSeq + 1) = {webhookSeq + 1}
  BY <1>2, <1>11
<1>18. CASE o = Outcome("none", <<d>>, 0, faults)
  <2>1. /\ o.emitted = <<d>> /\ o.given = 0 /\ o.faults = faults /\ o.kind = "none"
    BY <1>16, <1>18
  <2>2. Seqs(o.emitted) = {n} /\ Distinct(o.emitted)
    BY <1>6, <2>1, SeqsOfFew DEF n
  <2>3. Seqs(tail) \cup Seqs(o.emitted) = Way /\ Seqs(o.emitted) \cap Seqs(tail) = {}
    BY <1>11, <2>2
  <2>4. swallowed' = swallowed
    BY <1>1, <2>1
  <2> QED BY <1>11, <1>12, <1>13, <1>14, <1>17, <2>1, <2>2, <2>3, <2>4
\* The other outcomes use a fault up, but for the one that takes the delivery.
<1>19. ASSUME NEW i \in 1 .. Len(faults)
       PROVE  /\ HeldSeqs(Without(i)) = HeldSeqs(faults) \ {faults[k].held.seq : k \in HeldAt(faults) \cap {i}}
              /\ \A j, k \in HeldAt(Without(i)) : Without(i)[j].held.seq = Without(i)[k].held.seq => j = k
              /\ \A j \in HeldAt(Without(i)) : Without(i)[j].kind = "reorder"
              /\ faults[i].kind # "reorder" => HeldSeqs(Without(i)) = HeldSeqs(faults)
              /\ faults[i].held # None =>
                   /\ HeldSeqs(Without(i)) = HeldSeqs(faults) \ {faults[i].held.seq}
                   /\ faults[i].held \in Delivery /\ faults[i].held.seq \in HeldSeqs(faults)
  <2>1. /\ HeldSeqs(Without(i)) = HeldSeqs(faults) \ {faults[k].held.seq : k \in HeldAt(faults) \cap {i}}
        /\ \A j, k \in HeldAt(Without(i)) : Without(i)[j].held.seq = Without(i)[k].held.seq => j = k
        /\ \A j \in HeldAt(Without(i)) : \E k \in HeldAt(faults) : Without(i)[j] = faults[k]
    BY <1>2, <1>12, HeldWithout DEF Without
  <2>2. faults[i].kind # "reorder" => HeldAt(faults) \cap {i} = {}
    BY <1>13
  <2>3. faults[i].held # None => HeldAt(faults) \cap {i} = {i}
    BY <1>2 DEF HeldAt
  <2>4. faults[i] \in Fault
    BY <1>2, ElementOfSeq
  <2>5. faults[i].held # None => faults[i].held \in Delivery /\ faults[i].held.seq \in HeldSeqs(faults)
    BY <2>3, <2>4 DEF HeldSeqs, Fault
  <2> HIDE DEF Without
  <2> QED BY <1>13, <2>1, <2>2, <2>3, <2>5
<1>20. ASSUME NEW i \in 1 .. Len(faults), NEW e \in Delivery, faults[i].kind = "duplicate",
              e.seq = webhookSeq + 1, o = Outcome("duplicate", <<d, e>>, 1, Without(i))
       PROVE  Account'
  <2>1. /\ o.emitted = <<d, e>> /\ o.given = 1 /\ o.faults = Without(i) /\ o.kind = "duplicate"
    BY <1>16, <1>20
  <2>2. Seqs(o.emitted) = {n, webhookSeq + 1} /\ Distinct(o.emitted)
    BY <1>6, <1>11, <1>17, <1>20, <2>1, SeqsOfFew DEF n
  <2>3. Seqs(tail) \cup Seqs(o.emitted) = Way \cup (webhookSeq + 1 .. webhookSeq + 1)
        /\ Seqs(o.emitted) \cap Seqs(tail) = {}
    BY <1>11, <1>17, <2>2
  <2>4. swallowed' = swallowed /\ HeldSeqs(o.faults) = HeldSeqs(faults)
    BY <1>1, <1>19, <1>20, <2>1
  <2>5. Parted(Seqs(webhookLog), trimmed, swallowed, HeldSeqs(faults),
               Way \cup (webhookSeq + 1 .. webhookSeq + 1), webhookSeq + 1)
    BY <1>2, <1>11, PartedMore
  <2> QED BY <1>14, <1>19, <2>1, <2>2, <2>3, <2>4, <2>5
<1>21. ASSUME NEW i \in 1 .. Len(faults), faults[i].kind = "drop",
              o = Outcome("drop", <<>>, 0, Without(i))
       PROVE  Account'
  <2>1. /\ o.emitted = <<>> /\ o.given = 0 /\ o.faults = Without(i) /\ o.kind = "drop"
    BY <1>16, <1>21
  <2>2. Seqs(o.emitted) = {} /\ Distinct(o.emitted)
    BY <2>1, SeqsOfFew
  <2>3. Seqs(tail) \cup Seqs(o.emitted) = Way \ {n} /\ Seqs(o.emitted) \cap Seqs(tail) = {}
    BY <1>11, <2>2
  <2>4. swallowed' = swallowed \cup {n} /\ HeldSeqs(o.faults) = HeldSeqs(faults)
    BY <1>1, <1>19, <1>21, <2>1
  <2>5. Parted(Seqs(webhookLog), trimmed, swallowed \cup {n}, HeldSeqs(faults), Way \ {n}, webhookSeq)
    BY <1>11, PartedMoves
  <2> QED BY <1>14, <1>17, <1>19, <2>1, <2>2, <2>3, <2>4, <2>5
<1>22. ASSUME NEW i \in 1 .. Len(faults), NEW e \in Delivery, faults[i].kind = "delay",
              e.seq = n, o = Outcome("delay", <<e>>, 0, Without(i))
       PROVE  Account'
  <2>1. /\ o.emitted = <<e>> /\ o.given = 0 /\ o.faults = Without(i) /\ o.kind = "delay"
    BY <1>16, <1>22
  <2>2. Seqs(o.emitted) = {n} /\ Distinct(o.emitted)
    BY <1>22, <2>1, SeqsOfFew
  <2>3. Seqs(tail) \cup Seqs(o.emitted) = Way /\ Seqs(o.emitted) \cap Seqs(tail) = {}
    BY <1>11, <2>2
  <2>4. swallowed' = swallowed /\ HeldSeqs(o.faults) = HeldSeqs(faults)
    BY <1>1, <1>19, <1>22, <2>1
  <2> QED BY <1>11, <1>14, <1>17, <1>19, <2>1, <2>2, <2>3, <2>4
<1>23. ASSUME NEW i \in 1 .. Len(faults), faults[i].kind = "reorder", faults[i].held = None,
              o = Outcome("reorder", <<>>, 0, [faults EXCEPT ![i].held = d])
       PROVE  Account'
  <2> DEFINE r == [faults EXCEPT ![i].held = d]
  <2>1. /\ o.emitted = <<>> /\ o.given = 0 /\ o.faults = r /\ o.kind = "reorder"
    BY <1>16, <1>23
  <2>r. /\ DOMAIN r = DOMAIN faults /\ r[i].held = d /\ r[i].kind = faults[i].kind
        /\ \A j \in DOMAIN faults : j # i => r[j] = faults[j]
    <3>1. faults[i] \in Fault
      BY <1>2, ElementOfSeq
    <3> QED BY <1>2, <3>1 DEF Fault
  <2> HIDE DEF r
  <2>2. /\ HeldAt(r) = HeldAt(faults) \cup {i} /\ r[i].held = d /\ r[i].kind = faults[i].kind
        /\ \A j \in HeldAt(faults) : r[j] = faults[j]
        /\ HeldSeqs(r) = HeldSeqs(faults) \cup {n}
    <3>1. /\ faults \in Seq(Fault) /\ i \in 1 .. Len(faults) /\ faults[i].held = None
          /\ d \in Delivery /\ n = d.seq
      BY <1>2, <1>6, <1>23 DEF n
    <3> QED BY ONLY <2>r, <3>1, HeldWith
  <2>3. Seqs(o.emitted) = {} /\ Distinct(o.emitted)
    BY <2>1, SeqsOfFew
  <2>4. Seqs(tail) \cup Seqs(o.emitted) = Way \ {n} /\ Seqs(o.emitted) \cap Seqs(tail) = {}
    BY <1>11, <2>3
  <2>5. swallowed' = swallowed
    BY <1>1, <2>1
  <2>6. Parted(Seqs(webhookLog), trimmed, swallowed, HeldSeqs(faults) \cup {n}, Way \ {n}, webhookSeq)
    BY <1>11, PartedMoves
  <2>7. \A j \in HeldAt(faults) : faults[j].held.seq # n
    BY <1>11 DEF HeldSeqs
  <2>8. /\ \A j \in HeldAt(r) : r[j].kind = "reorder"
        /\ \A j, k \in HeldAt(r) : r[j].held.seq = r[k].held.seq => j = k
    BY <1>12, <1>13, <1>23, <2>2, <2>7 DEF n
  <2> QED BY <1>14, <1>17, <2>1, <2>2, <2>3, <2>4, <2>5, <2>6, <2>8
<1>24. ASSUME NEW i \in 1 .. Len(faults), faults[i].kind = "reorder", faults[i].held # None,
              o = Outcome("reorder", <<d, faults[i].held>>, 0, Without(i))
       PROVE  Account'
  <2> DEFINE h == faults[i].held
  <2>1. /\ o.emitted = <<d, h>> /\ o.given = 0 /\ o.faults = Without(i) /\ o.kind = "reorder"
    BY <1>16, <1>24
  <2>2. /\ HeldSeqs(Without(i)) = HeldSeqs(faults) \ {h.seq}
        /\ h \in Delivery /\ h.seq \in HeldSeqs(faults)
    BY <1>19, <1>24
  <2> HIDE DEF h
  <2>3. h.seq \notin Way
    BY <1>11, <2>2
  <2>4. Seqs(o.emitted) = {n, h.seq} /\ Distinct(o.emitted)
    BY <1>6, <1>11, <2>1, <2>2, <2>3, SeqsOfFew DEF n
  <2>5. Seqs(tail) \cup Seqs(o.emitted) = Way \cup {h.seq} /\ Seqs(o.emitted) \cap Seqs(tail) = {}
    BY <1>11, <2>3, <2>4
  <2>6. swallowed' = swallowed
    BY <1>1, <2>1
  <2>7. Parted(Seqs(webhookLog), trimmed, swallowed, HeldSeqs(faults) \ {h.seq}, Way \cup {h.seq}, webhookSeq)
    BY <1>11, <2>2, PartedMoves
  <2> QED BY <1>14, <1>17, <1>19, <2>1, <2>2, <2>4, <2>5, <2>6, <2>7
<1> QED BY <1>15, <1>18, <1>20, <1>21, <1>22, <1>23, <1>24

THEOREM StepAccount ==
  IInv /\ IInv' /\ StepOrder /\ AccountInv /\ [Next]_vars => AccountInv'
<1> SUFFICES ASSUME IInv, IInv', StepOrder, AccountInv, [Next]_vars PROVE AccountInv'
  OBVIOUS
<1>1. ASSUME NEW t \in Thread, Enqueue(t) PROVE AccountInv'
  <2>1. PICK order \in InOrder(Announced(CallOf[t])) : Announce(t, EventsAt(order), t)
    BY <1>1 DEF Enqueue
  <2>2. EventsAt(order) \in Seq(Event)
    BY AnnouncedEvents
  <2>3. t \notin Clearer /\ step[t] = "enqueue"
    BY <1>1 DEF Enqueue, StepOrder
  <2> QED BY <2>1, <2>2, <2>3, AnnounceKeepsPlaces
<1>2. ASSUME NEW t \in Thread, EmitWebhook(t) PROVE AccountInv'
  <2>1. <<EmitOf[t]>> \in Seq(Event)
    <3>1. EmitOf[t] \in Event
      BY <1>2 DEF EmitWebhook, Event
    <3> QED BY <3>1
  <2>2. t \notin Clearer /\ step[t] = "start" /\ Announce(t, <<EmitOf[t]>>, t)
    BY <1>2, WebhooksAssumption DEF EmitWebhook
  <2> QED BY <2>1, <2>2, AnnounceKeepsPlaces
<1>3. ASSUME NEW t \in Thread, ChangeRow(t) \/ EmitWebhook(t) \/ ClearFaults(t) \/ Progress(t)
      PROVE  AccountInv'
  BY <1>1, <1>2, <1>3, MoveKeepsPlaces, EmitKeepsPlaces, StoreKeepsPlaces, ClearKeepsPlaces
     DEF Progress
<1>4. ASSUME NEW kind \in FaultKind, NEW event \in FaultEvent, Arm(kind, event) PROVE AccountInv'
  BY <1>4, ArmKeepsPlaces
<1>6. CASE Receive \/ EndLoop \/ Close \/ CloseReturns
  BY <1>6, PlacesQuiet DEF Receive, EndLoop, Close, CloseReturns, modelVars
<1>7. ASSUME NEW result \in {"delivered", "failed"}, Post(result) PROVE AccountInv'
  BY <1>7, PlacesQuiet DEF Post, modelVars
<1>8. CASE UNCHANGED vars
  BY <1>8, PlacesQuiet DEF vars, modelVars
<1> QED BY <1>3, <1>4, <1>6, <1>7, <1>8 DEF Next

LEMMA InitAccount == Init => AccountInv
<1> SUFFICES ASSUME Init PROVE Account
  BY DEF AccountInv
<1>1. \A t \in Thread : built[t] = <<>> /\ emit[t] = <<>> /\ Rest(t) = <<>> /\ step[t] = "start"
  BY DEF Init, Rest
<1>2. \A t \in Thread : OnTheWay(t) = {}
  BY <1>1, SeqsOfFew DEF OnTheWay
<1>3. Way = {} /\ Seqs(webhookLog) = {} /\ Distinct(webhookLog)
  BY <1>2, SeqsOfFew DEF Init, Way
<1>4. HeldAt(faults) = {} /\ HeldSeqs(faults) = {}
  BY DEF Init, HeldAt, HeldSeqs
<1>5. 1 .. webhookSeq = {}
  BY DEF Init
<1>6. Parted(Seqs(webhookLog), trimmed, swallowed, HeldSeqs(faults), Way, webhookSeq)
  BY <1>3, <1>4, <1>5 DEF Init, Parted
<1> QED BY <1>1, <1>3, <1>4, <1>6, SeqsOfFew, WebhooksAssumption DEF Account, Thread

\* A finite set in some order.
LEMMA SetToSeqIs ==
  ASSUME NEW S, IsFiniteSet(S)
  PROVE  /\ SetToSeq(S) \in Seq(S) /\ ToSet(SetToSeq(S)) = S
         /\ \A i, j \in DOMAIN SetToSeq(S) : SetToSeq(S)[i] = SetToSeq(S)[j] => i = j
<1> DEFINE n == Cardinality(S)
<1>1. n \in Nat /\ \E f \in [1 .. n -> S] : IsInjective(f)
  <2>1. n \in Nat /\ ExistsBijection(1 .. n, S)
    BY FS_CardinalityType
  <2> QED BY <2>1 DEF ExistsBijection, Bijection, Injection, IsInjective
<1> DEFINE s == SetToSeq(S)
<1>2. s \in [1 .. n -> S] /\ IsInjective(s)
  BY <1>1 DEF SetToSeq
<1>3. s \in Seq(S) /\ DOMAIN s = 1 .. n
  BY <1>1, <1>2
<1>4. ToSet(s) = S
  <2>1. IsFiniteSet(1 .. n) /\ Cardinality(1 .. n) = n
    BY <1>1, FS_Interval
  <2>2. s \in Injection(1 .. n, S)
    BY <1>2 DEF Injection
  <2>3. s \in Surjection(1 .. n, S)
    BY <2>1, <2>2, FS_Injection
  <2> QED BY <1>3, <2>3 DEF Surjection, ToSet
<1> QED BY <1>2, <1>3, <1>4 DEF IsInjective

\* Nothing is lost and nothing is logged twice between the numbers and the log:
\* whoever announces holds webhookMu, so its append stores the log as it is, and
\* every number is in one of the places the property names.
THEOREM DeliveriesAreAccounted == Spec => []EveryDeliveryAccounted
<1>1. IInv /\ StepOrder /\ AccountInv => EveryDeliveryAccounted
  <2> SUFFICES ASSUME IInv, StepOrder, Account, ~released PROVE EveryDeliveryAccounted
    BY DEF AccountInv, EveryDeliveryAccounted
  <2> DEFINE held == {f \in ToSet(faults) : f.held # None}
             heldSeqs == {f.held.seq : f \in held}
             S == {OnTheWay(t) : t \in Thread} \ {{}}
             places == <<Seqs(webhookLog), trimmed, swallowed, heldSeqs>>
             threads == SetToSeq(S)
             all == places \o threads
  <2>1. heldSeqs = HeldSeqs(faults)
    BY DEF HeldSeqs, HeldAt, ToSet
  <2>2. Parted(Seqs(webhookLog), trimmed, swallowed, heldSeqs, Way, webhookSeq)
    BY <2>1 DEF Account
  <2>3. IsFiniteSet(S)
    <3>1. \A t \in Thread : OnTheWay(t) # {} => webhookMu = t
      BY OnlyHolder DEF Account
    <3>2. S \in SUBSET {OnTheWay(webhookMu)}
      BY <3>1
    <3> HIDE DEF S
    <3> QED BY <3>2, FS_Singleton, FS_Subset
  <2>4. /\ threads \in Seq(S) /\ ToSet(threads) = S
        /\ \A i, j \in DOMAIN threads : threads[i] = threads[j] => i = j
    BY <2>3, SetToSeqIs
  <2>5. UNION S = Way
    BY DEF Way
  <2>6. \A A, B \in S : A # B => A \cap B = {}
    <3>1. \A t \in Thread : OnTheWay(t) # {} => webhookMu = t
      BY OnlyHolder DEF Account
    <3> QED BY <3>1
  <2>7. places \in Seq({Seqs(webhookLog), trimmed, swallowed, heldSeqs} \cup S)
        /\ Len(places) = 4
    OBVIOUS
  <2>8. threads \in Seq({Seqs(webhookLog), trimmed, swallowed, heldSeqs} \cup S)
    BY <2>4
  <2>9. /\ Len(threads) \in Nat /\ DOMAIN threads = 1 .. Len(threads)
        /\ DOMAIN all = 1 .. 4 + Len(threads)
        /\ \A i \in 1 .. 4 + Len(threads) : all[i] = IF i <= 4 THEN places[i] ELSE threads[i - 4]
    BY <2>7, <2>8, ConcatProperties, LenProperties
  <2>10. /\ places[1] = Seqs(webhookLog) /\ places[2] = trimmed
         /\ places[3] = swallowed /\ places[4] = heldSeqs
    OBVIOUS
  <2> HIDE DEF heldSeqs, S, places, threads, all
  <2>11. \A i \in DOMAIN threads : threads[i] \in S
    BY <2>4 DEF ToSet
  <2>12. UNION ToSet(all) = 1 .. webhookSeq
    <3>1. ToSet(all) = {Seqs(webhookLog), trimmed, swallowed, heldSeqs} \cup S
      <4>1. ASSUME NEW i \in DOMAIN all
            PROVE  all[i] \in {Seqs(webhookLog), trimmed, swallowed, heldSeqs} \cup S
        <5>1. CASE i <= 4
          <6>1. i \in {1, 2, 3, 4}
            BY <2>9, <5>1
          <6> QED BY <2>9, <2>10, <5>1, <6>1
        <5>2. CASE ~(i <= 4)
          <6>1. i - 4 \in DOMAIN threads
            BY <2>9, <5>2
          <6> QED BY <2>9, <2>11, <5>2, <6>1
        <5> QED BY <5>1, <5>2
      <4>2. ASSUME NEW A \in S PROVE A \in ToSet(all)
        <5>1. PICK i \in DOMAIN threads : threads[i] = A
          BY <2>4 DEF ToSet
        <5>2. i + 4 \in DOMAIN all /\ ~(i + 4 <= 4) /\ (i + 4) - 4 = i
          BY <2>9
        <5>3. all[i + 4] = threads[i]
          BY <2>9, <5>2
        <5> QED BY <5>1, <5>2, <5>3 DEF ToSet
      <4>3. /\ 1 \in DOMAIN all /\ 2 \in DOMAIN all /\ 3 \in DOMAIN all /\ 4 \in DOMAIN all
            /\ all[1] = places[1] /\ all[2] = places[2] /\ all[3] = places[3] /\ all[4] = places[4]
        BY <2>9
      <4> QED BY <2>10, <4>1, <4>2, <4>3 DEF ToSet
    <3>2. UNION ToSet(all) = Seqs(webhookLog) \cup trimmed \cup swallowed \cup heldSeqs \cup UNION S
      BY <3>1
    <3> QED BY <2>2, <2>5, <3>2 DEF Parted
  <2>13. ASSUME NEW i \in DOMAIN all, NEW j \in DOMAIN all, i < j
         PROVE  all[i] \cap all[j] = {}
    <3>0. \A A \in S : A \subseteq Way
      BY <2>5
    <3>1. CASE j <= 4
      <4>1. i \in {1, 2, 3, 4} /\ j \in {1, 2, 3, 4} /\ i < j
        BY <2>9, <2>13, <3>1
      <4>2. all[i] = places[i] /\ all[j] = places[j]
        BY <2>9, <4>1
      <4> QED BY <2>2, <2>10, <4>1, <4>2 DEF Parted
    <3>2. CASE i <= 4 /\ ~(j <= 4)
      <4>1. i \in {1, 2, 3, 4} /\ j - 4 \in DOMAIN threads
        BY <2>9, <2>13, <3>2
      <4>2. all[i] = places[i] /\ all[j] \in S
        BY <2>9, <2>11, <3>2, <4>1
      <4> QED BY <2>2, <2>10, <3>0, <4>1, <4>2 DEF Parted
    <3>3. CASE ~(i <= 4)
      <4>1. i - 4 \in DOMAIN threads /\ j - 4 \in DOMAIN threads /\ i - 4 # j - 4 /\ ~(j <= 4)
        BY <2>9, <2>13, <3>3
      <4>2. all[i] = threads[i - 4] /\ all[j] = threads[j - 4]
        BY <2>9, <3>3, <4>1
      <4> QED BY <2>4, <2>6, <2>11, <4>1, <4>2
    <3> QED BY <2>9, <3>1, <3>2, <3>3
  <2> QED BY <2>12, <2>13 DEF EveryDeliveryAccounted, all, places, threads, S, heldSeqs
<1>2. OrderInv => StepOrder
  BY DEF OrderInv
<1> QED BY <1>1, <1>2, InitAccount, StepAccount, Invariance, OrderInvariance, PTL DEF Spec

-----------------------------------------------------------------------------
(* The invariant of what each call has announced *)

\* The deliveries of a thread, built, on the way or in the log.
Of(t) == {d \in ToSet(webhookLog) : d.of = t} \cup ToSet(built[t]) \cup ToSet(Rest(t))

Owned(t) == \A d \in ToSet(built[t]) \cup ToSet(Rest(t)) : d.of = t

\* One delivery for each place where the call's events are declared.
Said(t) ==
  \E f \in Bijection(Announced(CallOf[t]), Of(t)) :
    \A i \in Announced(CallOf[t]) : f[i].event = Declared[i].event

Call(t) == IF step[t] \in Unsaid THEN Of(t) = {} ELSE Said(t)

Calls == faults = <<>> /\ (\A t \in Thread : Owned(t)) /\ (\A t \in Request : Call(t))

\* No fault has been armed, nothing released and nothing trimmed yet.
Untouched == ~released /\ armed = 0 /\ trimmed = {}

CallInv == armed \in Nat /\ (Untouched => Calls)

LEMMA CallsKept ==
  ASSUME Calls, faults' = faults,
         \A t \in Thread : /\ Of(t)' = Of(t) /\ Owned(t)'
                           /\ step'[t] \in Unsaid <=> step[t] \in Unsaid
  PROVE  Calls'
<1>1. ASSUME NEW t \in Request PROVE Call(t)'
  <2>1. t \in Thread
    BY DEF Thread
  <2>2. Of(t)' = Of(t) /\ (step'[t] \in Unsaid <=> step[t] \in Unsaid) /\ Call(t)
    BY <2>1 DEF Calls
  <2>3. CASE step[t] \in Unsaid
    BY <2>2, <2>3 DEF Call
  <2>4. CASE step[t] \notin Unsaid
    <3>1. Said(t)
      BY <2>2, <2>4 DEF Call
    <3>2. Said(t)'
      BY <2>2, <3>1 DEF Said
    <3> QED BY <2>2, <2>4, <3>2 DEF Call
  <2> QED BY <2>3, <2>4
<1> QED BY <1>1 DEF Calls

LEMMA SameHandsSameCalls ==
  ASSUME CallInv, UNCHANGED <<webhookLog, trimmed, faults, released, armed>>,
         \A u \in Thread : /\ built'[u] = built[u] /\ Rest(u)' = Rest(u)
                           /\ step'[u] \in Unsaid <=> step[u] \in Unsaid
  PROVE  CallInv'
<1>1. \A u \in Thread : Of(u)' = Of(u) /\ (Owned(u) => Owned(u)')
  BY DEF Of, Owned
<1>2. ASSUME Calls PROVE Calls'
  BY <1>1, <1>2, CallsKept DEF Calls
<1> QED BY <1>2 DEF CallInv, Untouched

LEMMA MoveKeepsCalls ==
  ASSUME IInv, IInv', StepOrder, AccountInv, CallInv, NEW t \in Thread,
         ChangeRow(t) \/ EndAnnounce(t) \/ LoadLog(t) \/ CheckSink(t) \/ DropClosed(t) \/ Send(t)
           \/ SendOnClosed(t)
  PROVE  CallInv'
<1>1. UNCHANGED <<released, armed, trimmed>>
  BY DEF ChangeRow, EndAnnounce, LoadLog, CheckSink, DropClosed, Send, SendOnClosed, Appended, modelVars
<1>2. CASE released
  BY <1>1, <1>2 DEF CallInv, Untouched
<1>3. CASE ~released
  <2>1. Account
    BY <1>3 DEF AccountInv
  <2> QED BY <2>1, MoveKeepsHands, SameHandsSameCalls
<1> QED BY <1>2, <1>3

LEMMA QuietKeepsCalls ==
  ASSUME CallInv, UNCHANGED <<webhookLog, trimmed, faults, released, armed, threadVars>>
  PROVE  CallInv'
<1>1. UNCHANGED <<built, emit, step>>
  BY DEF threadVars
<1>2. \A u \in Thread : /\ built'[u] = built[u] /\ Rest(u)' = Rest(u)
                        /\ step'[u] \in Unsaid <=> step[u] \in Unsaid
  BY <1>1 DEF Rest
<1> QED BY <1>2, SameHandsSameCalls

\* An enumeration of positions in their order hits each of them once.
LEMMA OrderHits ==
  ASSUME NEW n \in Nat, NEW S \in SUBSET (1 .. n), NEW order \in InOrder(S)
  PROVE  /\ \A k, l \in DOMAIN order : order[k] = order[l] => k = l
         /\ \A i \in S : \E k \in DOMAIN order : order[k] = i
         /\ \A k \in DOMAIN order : order[k] \in S
<1>1. IsFiniteSet(1 .. n)
  BY FS_Interval
<1>2. IsFiniteSet(S)
  BY <1>1, FS_Subset
<1>3. Cardinality(S) \in Nat
  BY <1>2, FS_CardinalityType
<1> DEFINE m == Cardinality(S)
<1>4. /\ order \in [1 .. m -> S]
      /\ \A i, j \in 1 .. m : i < j => order[i] < order[j]
  BY DEF InOrder
<1>5. m \in Nat
  BY <1>3
<1> HIDE DEF m
<1>6. ASSUME NEW k \in 1 .. m, NEW l \in 1 .. m, order[k] = order[l] PROVE k = l
  <2>1. order[k] \in Nat /\ order[l] \in Nat
    <3>1. order[k] \in S /\ order[l] \in S
      BY <1>4
    <3>2. \A x \in S : x \in Nat
      OBVIOUS
    <3> QED BY <3>1, <3>2
  <2>2. ~ (order[k] < order[l]) /\ ~ (order[l] < order[k])
    BY <1>6, <2>1
  <2>3. ~ (k < l) /\ ~ (l < k)
    BY <1>4, <2>2
  <2> QED BY <1>5, <2>3
<1>7. order \in Injection(1 .. m, S)
  BY <1>4, <1>6 DEF Injection, IsInjective
<1>8. Cardinality(1 .. m) = m
  BY <1>5, FS_Interval
<1>9. order \in Surjection(1 .. m, S)
  BY <1>2, <1>7, <1>8, FS_Injection DEF m
<1> QED BY <1>4, <1>6, <1>9 DEF Surjection

\* A request builds one delivery for each declaration it announces.
LEMMA BuildSaysAll ==
  ASSUME NEW t, NEW order \in InOrder(Announced(CallOf[t])), webhookSeq \in Nat,
         NEW b, b = Build(EventsAt(order), t)
  PROVE  \E f \in Bijection(Announced(CallOf[t]), ToSet(b)) :
           \A i \in Announced(CallOf[t]) : f[i].event = Declared[i].event
<1> DEFINE A == Announced(CallOf[t])
<1>1. A \in SUBSET (1 .. Len(Declared)) /\ Len(Declared) \in Nat
  BY WebhooksAssumption DEF Announced
<1> HIDE DEF A
<1>2. /\ \A k, l \in DOMAIN order : order[k] = order[l] => k = l
      /\ \A i \in A : \E k \in DOMAIN order : order[k] = i
      /\ \A k \in DOMAIN order : order[k] \in A
  BY <1>1, OrderHits DEF A
<1>3. DOMAIN order = 1 .. Len(order) /\ Len(order) \in Nat
  BY <1>1, InOrderIsSeq DEF A
<1>4. /\ DOMAIN b = DOMAIN order
      /\ \A k \in DOMAIN order : /\ b[k].seq = webhookSeq + k
                                 /\ b[k].event = Declared[order[k]].event
  BY DEF Build, EventsAt
<1> DEFINE pos == [i \in A |-> CHOOSE k \in DOMAIN order : order[k] = i]
           f == [i \in A |-> b[pos[i]]]
<1>5. \A i \in A : pos[i] \in DOMAIN order /\ order[pos[i]] = i
  BY <1>2
<1>6. \A k \in DOMAIN order : pos[order[k]] = k
  BY <1>2, <1>5
<1> HIDE DEF pos
<1>7. f \in [A -> ToSet(b)] /\ \A i \in A : f[i] = b[pos[i]]
  BY <1>4, <1>5 DEF ToSet
<1> HIDE DEF f
<1>8. ASSUME NEW i \in A, NEW j \in A, f[i] = f[j] PROVE i = j
  <2>1. webhookSeq + pos[i] = webhookSeq + pos[j]
    BY <1>4, <1>5, <1>7, <1>8
  <2>2. pos[i] \in Nat /\ pos[j] \in Nat
    BY <1>3, <1>5
  <2>3. pos[i] = pos[j]
    BY <2>1, <2>2
  <2> QED BY <1>5, <2>3
<1>9. ASSUME NEW d \in ToSet(b) PROVE \E i \in A : f[i] = d
  <2>1. PICK k \in DOMAIN order : b[k] = d
    BY <1>4 DEF ToSet
  <2>2. order[k] \in A /\ f[order[k]] = d
    BY <1>2, <1>6, <1>7, <2>1
  <2> QED BY <2>2
<1>10. f \in Bijection(A, ToSet(b))
  BY <1>7, <1>8, <1>9 DEF Bijection, Injection, IsInjective, Surjection
<1>11. \A i \in A : f[i].event = Declared[i].event
  BY <1>4, <1>5, <1>7
<1> QED BY <1>10, <1>11 DEF A

LEMMA HeadAndTail ==
  ASSUME NEW s \in Seq(Delivery), s # <<>>
  PROVE  ToSet(s) = {Head(s)} \cup ToSet(Tail(s))
<1>1. Len(s) \in Nat \ {0} /\ DOMAIN s = 1 .. Len(s)
  BY LenProperties, EmptySeq
<1> DEFINE r == Tail(s)
<1>2. /\ Head(s) = s[1] /\ DOMAIN r = 1 .. Len(s) - 1
      /\ \A i \in 1 .. Len(s) - 1 : r[i] = s[i + 1]
  BY <1>1, HeadTailProperties, LenProperties
<1> HIDE DEF r
<1>3. \A i \in 1 .. Len(s) - 1 : i + 1 \in 1 .. Len(s)
  BY <1>1
<1>4. \A i \in 1 .. Len(s) : i # 1 => i - 1 \in 1 .. Len(s) - 1 /\ (i - 1) + 1 = i
  BY <1>1
<1>5. 1 \in 1 .. Len(s)
  BY <1>1
<1>6. ToSet(s) \subseteq {s[1]} \cup ToSet(r)
  <2>1. ASSUME NEW i \in 1 .. Len(s), i # 1 PROVE s[i] \in ToSet(r)
    <3>1. i - 1 \in DOMAIN r /\ r[i - 1] = s[i]
      BY <1>2, <1>4, <2>1
    <3> QED BY <3>1 DEF ToSet
  <2> QED BY <1>1, <2>1 DEF ToSet
<1>7. {s[1]} \cup ToSet(r) \subseteq ToSet(s)
  BY <1>1, <1>2, <1>3, <1>5 DEF ToSet
<1> QED BY <1>2, <1>6, <1>7 DEF r

\* When no number leaves the log, no delivery does.
LEMMA LastNKeepsAll ==
  ASSUME NEW s \in Seq(Delivery), NEW n \in Nat, Distinct(s), Seqs(s) \subseteq Seqs(LastN(s, n))
  PROVE  ToSet(LastN(s, n)) = ToSet(s)
<1>1. Len(s) \in Nat /\ DOMAIN s = 1 .. Len(s)
  BY LenProperties
<1> DEFINE from == IF Len(s) > n THEN Len(s) - n + 1 ELSE 1
           r == LastN(s, n)
<1>2. from \in Nat \ {0} /\ r = SubSeq(s, from, Len(s))
  BY <1>1 DEF LastN
<1> HIDE DEF from, r
<1>3. /\ DOMAIN r = IF from <= Len(s) THEN 1 .. Len(s) - from + 1 ELSE {}
      /\ from <= Len(s) => \A k \in 1 .. Len(s) - from + 1 : r[k] = s[from + k - 1]
  BY <1>1, <1>2
<1>4. \A k \in DOMAIN r : from + k - 1 \in DOMAIN s /\ r[k] = s[from + k - 1]
  BY <1>1, <1>2, <1>3
<1>5. ToSet(r) \subseteq ToSet(s)
  BY <1>4 DEF ToSet
<1>6. ASSUME NEW i \in DOMAIN s PROVE s[i] \in ToSet(r)
  <2>1. s[i].seq \in Seqs(r)
    BY DEF Seqs, r
  <2>2. PICK k \in DOMAIN r : r[k].seq = s[i].seq
    BY <2>1 DEF Seqs
  <2>3. r[k] = s[i]
    BY <1>4, <2>2 DEF Distinct
  <2> QED BY <2>3 DEF ToSet
<1>7. ToSet(s) \subseteq ToSet(r)
  BY <1>6 DEF ToSet
<1> QED BY <1>5, <1>7 DEF r

LEMMA AnnounceKeepsCalls ==
  ASSUME IInv, StepOrder, AccountInv, CallInv, NEW t \in Thread, NEW events,
         t \notin Clearer, step[t] \in Unsaid, Announce(t, events, t), DOMAIN events = 1 .. Len(events),
         t \in Request => \E order \in InOrder(Announced(CallOf[t])) : events = EventsAt(order)
  PROVE  CallInv'
<1>1. /\ webhookMu = None /\ built' = [built EXCEPT ![t] = Build(events, t)] /\ Goto(t, "faults")
      /\ UNCHANGED <<webhookLog, faults, emit, trimmed, released, armed>>
  BY DEF Announce, modelVars
<1>2. ThreadInv /\ webhookSeq \in Nat
  BY DEF IInv, LogInv
<1> SUFFICES ASSUME Untouched, Calls PROVE Calls'
  BY <1>1 DEF CallInv, Untouched
<1>3. Account
  BY DEF AccountInv, Untouched
<1>4. \A u \in Thread : built[u] = <<>> /\ Rest(u) = <<>>
  <2>1. \A u \in Thread : webhookMu # u
    BY <1>1, WebhooksAssumption
  <2> QED BY <1>3, <2>1, OnlyHolder DEF Account
<1> DEFINE b == Build(events, t)
<1>5. /\ step'[t] = "faults" /\ built'[t] = b
      /\ \A u \in Thread : u # t => UNCHANGED <<built[u], emit[u], step[u]>>
  BY <1>1, <1>2 DEF Goto, ThreadInv
<1>6. \A d \in ToSet(b) : d.of = t
  BY DEF Build, ToSet
<1>7. b = Build(events, t)
  OBVIOUS
<1> HIDE DEF b
<1>8. \A u \in Thread : Rest(u)' = <<>>
  <2>1. Rest(t)' = Rest(t)
    BY <1>1, <1>5 DEF Rest, Unsaid
  <2>2. \A u \in Thread : u # t => Rest(u)' = Rest(u)
    BY <1>5 DEF Rest
  <2> QED BY <1>4, <2>1, <2>2
<1>9. ToSet(<<>>) = {}
  BY DEF ToSet
<1>10. \A u \in Thread : u # t => Of(u)' = Of(u) /\ Owned(u)'
  BY <1>1, <1>4, <1>5, <1>8, <1>9 DEF Of, Owned
<1>11. Owned(t)'
  BY <1>5, <1>6, <1>8, <1>9 DEF Owned
<1>12. ASSUME t \in Request PROVE Call(t)'
  <2>1. Of(t) = {}
    BY <1>12 DEF Calls, Call
  <2>2. Of(t)' = ToSet(b)
    BY <1>1, <1>5, <1>8, <1>9, <2>1 DEF Of
  <2>3. PICK order \in InOrder(Announced(CallOf[t])) : events = EventsAt(order)
    BY <1>12
  <2>4. \E f \in Bijection(Announced(CallOf[t]), ToSet(b)) :
          \A i \in Announced(CallOf[t]) : f[i].event = Declared[i].event
    BY <1>2, <1>7, <2>3, BuildSaysAll
  <2>5. Said(t)'
    BY <2>2, <2>4 DEF Said
  <2> QED BY <1>5, <2>5 DEF Call, Unsaid
<1>13. ASSUME NEW u \in Request, u # t PROVE Call(u)'
  <2>1. u \in Thread
    BY DEF Thread
  <2>2. Of(u)' = Of(u) /\ step'[u] = step[u] /\ Call(u)
    BY <1>5, <1>10, <1>13, <2>1 DEF Calls
  <2>3. Said(u) => Said(u)'
    BY <2>2 DEF Said
  <2> QED BY <2>2, <2>3 DEF Call
<1> QED BY <1>1, <1>10, <1>11, <1>12, <1>13 DEF Calls

\* Without a fault each delivery that is built goes on to be appended.
LEMMA EmitKeepsCalls ==
  ASSUME IInv, StepOrder, CallInv, NEW t \in Thread, EmitThroughFaults(t)
  PROVE  CallInv'
<1>1. UNCHANGED <<webhookLog, armed, trimmed, released>>
  BY DEF EmitThroughFaults
<1> SUFFICES ASSUME Calls PROVE Calls'
  BY <1>1 DEF CallInv, Untouched
<1> DEFINE d == Head(built[t])
<1>2. FaultOutcome(d) = Outcome("none", <<d>>, 0, faults)
  <2>1. Matching(d) = {}
    BY DEF Calls, Matching
  <2> QED BY <2>1 DEF FaultOutcome
<1>3. /\ faults' = faults /\ emit' = [emit EXCEPT ![t] = <<d>>]
      /\ built' = [built EXCEPT ![t] = Tail(built[t])]
      /\ step[t] = "faults" /\ built[t] # <<>> /\ Goto(t, "load")
  <2> DEFINE o == FaultOutcome(d)
  <2>1. /\ faults' = o.faults /\ emit' = [emit EXCEPT ![t] = o.emitted]
        /\ built' = [built EXCEPT ![t] = Tail(built[t])]
        /\ step[t] = "faults" /\ built[t] # <<>>
        /\ Goto(t, IF o.emitted = <<>> THEN "faults" ELSE "load")
    BY DEF EmitThroughFaults
  <2>2. o = Outcome("none", <<d>>, 0, faults)
    BY <1>2
  <2> HIDE DEF o, d
  <2>3. o.faults = faults /\ o.emitted = <<d>> /\ <<d>> # <<>>
    BY <2>2 DEF Outcome
  <2> QED BY <2>1, <2>3
<1>4. ThreadInv /\ built[t] \in Seq(Delivery) /\ t \notin Clearer /\ emit[t] = <<>>
  BY <1>3 DEF IInv, ThreadInv, StepOrder
<1>5. /\ step'[t] = "load" /\ built'[t] = Tail(built[t]) /\ emit'[t] = <<d>>
      /\ \A u \in Thread : u # t => UNCHANGED <<step[u], built[u], emit[u]>>
  BY <1>3, <1>4 DEF Goto, ThreadInv
<1>6. Rest(t) = <<>> /\ Rest(t)' = <<d>> /\ \A u \in Thread : u # t => Rest(u)' = Rest(u)
  BY <1>3, <1>4, <1>5 DEF Rest
<1>7. ToSet(built[t]) = {d} \cup ToSet(Tail(built[t]))
  BY <1>3, <1>4, HeadAndTail
<1>8. ToSet(<<d>>) = {d} /\ ToSet(<<>>) = {}
  BY DEF ToSet
<1> HIDE DEF d
<1>9. Of(t)' = Of(t) /\ Owned(t)'
  <2>1. Owned(t)
    BY DEF Calls
  <2> QED BY <1>1, <1>5, <1>6, <1>7, <1>8, <2>1 DEF Of, Owned
<1>10. \A u \in Thread : u # t => Of(u)' = Of(u) /\ Owned(u)'
  BY <1>1, <1>5, <1>6 DEF Of, Owned, Calls
<1>11. \A u \in Thread : step'[u] \in Unsaid <=> step[u] \in Unsaid
  BY <1>3, <1>5 DEF Unsaid
<1> QED BY <1>3, <1>9, <1>10, <1>11, CallsKept

\* An append without a trim adds its delivery to the log and takes none out.
LEMMA StoreKeepsCalls ==
  ASSUME IInv, StepOrder, AccountInv, CallInv, NEW t \in Thread, StoreLog(t)
  PROVE  CallInv'
<1>1. UNCHANGED <<released, armed>>
  BY DEF StoreLog
<1> SUFFICES ASSUME Untouched' PROVE Calls'
  BY <1>1 DEF CallInv
<1> DEFINE d == Head(emit[t])
           longer == Append(webhookLog, d)
<1>2. Account
  BY <1>1 DEF AccountInv, Untouched
<1>3. d = Head(emit[t]) /\ longer = Append(webhookLog, d)
  OBVIOUS
<1> HIDE DEF d, longer
<1>4. /\ webhookLog' = LastN(longer, MaxLog)
      /\ trimmed' = trimmed \cup (Seqs(longer) \ Seqs(webhookLog'))
      /\ longer \in Seq(Delivery) /\ Distinct(longer) /\ d \in Delivery
      /\ emit[t] \in Seq(Delivery) /\ emit[t] # <<>>
      /\ step[t] = "store" /\ step'[t] = "sink" /\ \A u \in Thread : u # t => step'[u] = step[u]
      /\ Rest(t) = emit[t] /\ Rest(t)' = Tail(emit[t])
      /\ \A u \in Thread : u # t => Rest(u)' = Rest(u)
      /\ UNCHANGED <<faults, built>>
  BY <1>2, <1>3, StoreFinds
<1>5. trimmed = {} /\ Seqs(longer) \subseteq Seqs(webhookLog')
  BY <1>4 DEF Untouched
<1>6. Calls
  BY <1>1, <1>5 DEF CallInv, Untouched
<1>7. ToSet(webhookLog') = ToSet(webhookLog) \cup {d}
  <2>1. ToSet(webhookLog') = ToSet(longer)
    BY <1>4, <1>5, LastNKeepsAll, WebhooksAssumption
  <2>2. webhookLog \in Seq(Delivery)
    BY DEF IInv, LogInv
  <2> QED BY <1>3, <1>4, <2>1, <2>2, Contents
<1>8. ToSet(emit[t]) = {d} \cup ToSet(Tail(emit[t]))
  BY <1>3, <1>4, HeadAndTail
<1>9. \A u \in Thread : Owned(u)
  BY <1>6 DEF Calls
<1>10. d.of = t
  BY <1>4, <1>8, <1>9 DEF Owned
<1>11. Of(t)' = Of(t) /\ Owned(t)'
  BY <1>4, <1>7, <1>8, <1>9, <1>10 DEF Of, Owned
<1>12. \A u \in Thread : u # t => Of(u)' = Of(u) /\ Owned(u)'
  BY <1>4, <1>7, <1>9, <1>10 DEF Of, Owned
<1>13. \A u \in Thread : step'[u] \in Unsaid <=> step[u] \in Unsaid
  BY <1>4 DEF Unsaid
<1> QED BY <1>4, <1>6, <1>11, <1>12, <1>13, CallsKept

LEMMA ArmKeepsCalls ==
  ASSUME CallInv, NEW kind, NEW event, Arm(kind, event)
  PROVE  CallInv'
<1>1. armed' = armed + 1 /\ armed \in Nat
  BY DEF Arm, CallInv
<1> QED BY <1>1 DEF CallInv, Untouched

LEMMA ClearKeepsCalls ==
  ASSUME CallInv, NEW t \in Thread, ClearFaults(t)
  PROVE  CallInv'
<1>1. UNCHANGED <<armed, trimmed>> /\ faults # <<>> /\ (released => released')
  BY DEF ClearFaults
<1> QED BY <1>1 DEF CallInv, Untouched, Calls

THEOREM StepCalls ==
  IInv /\ IInv' /\ StepOrder /\ AccountInv /\ CallInv /\ [Next]_vars => CallInv'
<1> SUFFICES ASSUME IInv, IInv', StepOrder, AccountInv, CallInv, [Next]_vars PROVE CallInv'
  OBVIOUS
<1>1. ASSUME NEW t \in Thread, Enqueue(t) PROVE CallInv'
  <2>1. PICK order \in InOrder(Announced(CallOf[t])) : Announce(t, EventsAt(order), t)
    BY <1>1 DEF Enqueue
  <2>2. EventsAt(order) \in Seq(Event)
    BY AnnouncedEvents
  <2>3. DOMAIN EventsAt(order) = 1 .. Len(EventsAt(order))
    BY <2>2, LenProperties
  <2>4. t \notin Clearer /\ step[t] \in Unsaid
    BY <1>1 DEF Enqueue, StepOrder, Unsaid
  <2> QED BY <2>1, <2>3, <2>4, AnnounceKeepsCalls
<1>2. ASSUME NEW t \in Thread, EmitWebhook(t) PROVE CallInv'
  <2>1. t \in Emission /\ step[t] = "start" /\ Announce(t, <<EmitOf[t]>>, t)
    BY <1>2 DEF EmitWebhook
  <2>2. t \notin Request /\ t \notin Clearer /\ step[t] \in Unsaid
    BY <2>1, WebhooksAssumption DEF Unsaid
  <2>3. DOMAIN <<EmitOf[t]>> = 1 .. Len(<<EmitOf[t]>>)
    OBVIOUS
  <2> QED BY <2>1, <2>2, <2>3, AnnounceKeepsCalls
<1>3. ASSUME NEW t \in Thread, ChangeRow(t) \/ EmitWebhook(t) \/ ClearFaults(t) \/ Progress(t)
      PROVE  CallInv'
  BY <1>1, <1>2, <1>3, MoveKeepsCalls, EmitKeepsCalls, StoreKeepsCalls, ClearKeepsCalls
     DEF Progress
<1>4. ASSUME NEW kind \in FaultKind, NEW event \in FaultEvent, Arm(kind, event) PROVE CallInv'
  BY <1>4, ArmKeepsCalls
<1>5. CASE Receive \/ EndLoop \/ Close \/ CloseReturns
  BY <1>5, QuietKeepsCalls DEF Receive, EndLoop, Close, CloseReturns, modelVars
<1>6. ASSUME NEW result \in {"delivered", "failed"}, Post(result) PROVE CallInv'
  BY <1>6, QuietKeepsCalls DEF Post, modelVars
<1>7. CASE UNCHANGED vars
  BY <1>7, QuietKeepsCalls DEF vars, modelVars
<1> QED BY <1>3, <1>4, <1>5, <1>6, <1>7 DEF Next

LEMMA InitCalls == Init => CallInv
<1> SUFFICES ASSUME Init PROVE CallInv
  OBVIOUS
<1>1. \A t \in Thread : built[t] = <<>> /\ Rest(t) = <<>> /\ step[t] = "start"
  BY DEF Init, Rest
<1>2. ToSet(<<>>) = {} /\ webhookLog = <<>>
  BY DEF ToSet, Init
<1>3. \A t \in Thread : Of(t) = {} /\ Owned(t)
  BY <1>1, <1>2 DEF Of, Owned
<1>4. \A t \in Request : Call(t)
  BY <1>1, <1>3 DEF Call, Unsaid, Thread
<1> QED BY <1>3, <1>4 DEF Init, CallInv, Calls

\* What a request has said is in the log when it is done: as many deliveries of
\* an event as declarations that were due.
LEMMA SaidIsLogged ==
  ASSUME NEW t \in Request, NEW e, Said(t), webhookLog \in Seq(Delivery), Distinct(webhookLog),
         Of(t) = {d \in ToSet(webhookLog) : d.of = t}
  PROVE  Cardinality({n \in DOMAIN webhookLog : webhookLog[n].of = t /\ webhookLog[n].event = e})
         = Cardinality({i \in Announced(CallOf[t]) : Declared[i].event = e})
<1> DEFINE A == Announced(CallOf[t])
           N == {n \in DOMAIN webhookLog : webhookLog[n].of = t /\ webhookLog[n].event = e}
           D == {i \in A : Declared[i].event = e}
<1>1. PICK f \in Bijection(A, Of(t)) : \A i \in A : f[i].event = Declared[i].event
  BY DEF Said
<1>2. /\ \A i \in A : f[i] \in Of(t)
      /\ \A i, j \in A : f[i] = f[j] => i = j
      /\ \A d \in Of(t) : \E i \in A : f[i] = d
  BY DEF Bijection, Injection, IsInjective, Surjection
<1>3. DOMAIN webhookLog = 1 .. Len(webhookLog) /\ Len(webhookLog) \in Nat
  BY LenProperties
<1> DEFINE g == [i \in D |-> CHOOSE n \in DOMAIN webhookLog : webhookLog[n] = f[i]]
<1> HIDE DEF A
<1>4. \A i \in D : g[i] \in DOMAIN webhookLog /\ webhookLog[g[i]] = f[i]
  <2>1. \A i \in D : \E n \in DOMAIN webhookLog : webhookLog[n] = f[i]
    BY <1>2 DEF ToSet
  <2> QED BY <2>1
<1>5. g \in [D -> N]
  <2>1. \A i \in D : g[i] \in N
    BY <1>1, <1>2, <1>4
  <2> QED BY <2>1
<1> HIDE DEF g
<1>6. \A i, j \in D : g[i] = g[j] => i = j
  BY <1>2, <1>4
<1>7. ASSUME NEW n \in N PROVE \E i \in D : g[i] = n
  <2>1. webhookLog[n] \in Of(t)
    BY DEF ToSet
  <2>2. PICK i \in A : f[i] = webhookLog[n]
    BY <1>2, <2>1
  <2>3. i \in D
    BY <1>1, <2>2
  <2>4. webhookLog[g[i]].seq = webhookLog[n].seq /\ g[i] \in DOMAIN webhookLog
    BY <1>4, <2>2, <2>3
  <2>5. g[i] = n
    BY <2>4 DEF Distinct
  <2> QED BY <2>3, <2>5
<1>8. g \in Bijection(D, N)
  BY <1>5, <1>6, <1>7 DEF Bijection, Injection, IsInjective, Surjection
<1>9. IsFiniteSet(D)
  <2>1. A \in SUBSET (1 .. Len(Declared)) /\ Len(Declared) \in Nat
    BY WebhooksAssumption DEF A, Announced
  <2>2. IsFiniteSet(1 .. Len(Declared))
    BY <2>1, FS_Interval
  <2>3. D \in SUBSET (1 .. Len(Declared))
    BY <2>1
  <2> QED BY <2>2, <2>3, FS_Subset
<1> HIDE DEF D, N
<1>10. Cardinality(N) = Cardinality(D)
  BY <1>8, <1>9, FS_Bijection DEF ExistsBijection
<1> QED BY <1>10 DEF A, N, D

\* From the row that changed to the log: every number is in one place, and who
\* has answered has announced each declaration that was due.
THEOREM NothingGetsLost == Spec => []NothingIsLost
<1>1. IInv /\ StepOrder /\ AccountInv /\ CallInv => EveryChangeAnnounced
  <2> SUFFICES ASSUME IInv, StepOrder, AccountInv, CallInv, NEW t \in Request,
                      step[t] = "done", ~released, armed = 0, trimmed = {}
               PROVE  LET c == CallOf[t]
                          named == {i \in DOMAIN Declared : ByName(Declared[i], c)}
                          triggered == {i \in DOMAIN Declared : ByTrigger(Declared[i], c)}
                          due == {i \in triggered : \A j \in named : i < j} \cup
                                 {i \in named : \A j \in named : i <= j}
                      IN \A e \in Event :
                           Cardinality({n \in DOMAIN webhookLog :
                                          webhookLog[n].of = t /\ webhookLog[n].event = e})
                           = Cardinality({i \in due : Declared[i].event = e})
    BY DEF EveryChangeAnnounced
  <2> DEFINE c == CallOf[t]
             named == {i \in DOMAIN Declared : ByName(Declared[i], c)}
             triggered == {i \in DOMAIN Declared : ByTrigger(Declared[i], c)}
             due == {i \in triggered : \A j \in named : i < j} \cup
                    {i \in named : \A j \in named : i <= j}
  <2>1. due = Announced(c)
    <3>1. DOMAIN Declared \subseteq Nat
      BY WebhooksAssumption
    <3>2. named \cap triggered = {}
      BY DEF ByName, ByTrigger
    <3>3. \A i \in triggered, j \in named : i < j <=> i <= j
      BY <3>1, <3>2
    <3>4. Announced(c) = {i \in triggered \cup named : \A j \in named : i <= j}
      BY DEF Announced, Matches
    <3> HIDE DEF named, triggered
    <3> QED BY <3>3, <3>4
  <2>2. t \in Thread /\ t \notin Clearer
    BY WebhooksAssumption DEF Thread
  <2>3. Calls /\ Account
    BY DEF CallInv, Untouched, AccountInv
  <2>4. Said(t) /\ Distinct(webhookLog)
    BY <2>3 DEF Calls, Call, Unsaid, Account
  <2>5. built[t] = <<>> /\ Rest(t) = <<>>
    BY <2>2 DEF StepOrder, Rest
  <2>6. Of(t) = {d \in ToSet(webhookLog) : d.of = t}
    BY <2>5 DEF Of, ToSet
  <2>7. webhookLog \in Seq(Delivery)
    BY DEF IInv, LogInv
  <2>8. \A e \in Event :
          Cardinality({n \in DOMAIN webhookLog : webhookLog[n].of = t /\ webhookLog[n].event = e})
          = Cardinality({i \in Announced(CallOf[t]) : Declared[i].event = e})
    BY <2>4, <2>6, <2>7, SaidIsLogged
  <2> QED BY <2>1, <2>8
<1>2. OrderInv => StepOrder
  BY DEF OrderInv
<1> QED BY <1>1, <1>2, InitAccount, StepAccount, InitCalls, StepCalls, Invariance, OrderInvariance,
           DeliveriesAreAccounted, PTL DEF Spec, NothingIsLost

=============================================================================
