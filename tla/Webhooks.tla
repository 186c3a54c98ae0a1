------------------------------ MODULE Webhooks ------------------------------
(***************************************************************************)
(* internal/sandbox/webhooks.go with the webhook faults of faults.go: the    *)
(* deliveries of one sandbox from the row that changed to the sink.          *)
(* Whoever announces holds webhookMu from building the deliveries to the     *)
(* last append; armed faults are looked at under faultMu, one step.  What    *)
(* ClearFaults releases it appends without webhookMu, so an append is a load *)
(* and a store here, and its look at sinkClosed a step before its send.      *)
(***************************************************************************)
EXTENDS Integers, FiniteSets, Sequences, SequencesExt

CONSTANTS
  Request,      \* requests that change a row and announce it
  Emission,     \* calls of EmitWebhook
  Clearer,      \* calls of ClearFaults
  CallOf,       \* each request's [endpoint, action, fallback]
  EmitOf,       \* the event each emission names
  Declared,     \* def.Webhooks: a sequence of [event, trigger, action]
  FaultKind,    \* the kinds that are armed
  FaultEvent,   \* the events they are armed for, None being any
  MaxLog,       \* maxWebhookLog
  QueueCap,     \* webhookSinkQueue
  MaxArmed,     \* model bound: how many faults are armed
  None

Thread == Request \cup Emission \cup Clearer

Event == {Declared[i].event : i \in DOMAIN Declared}
Delivery == [id : Nat, seq : Nat, event : Event, of : Thread, late : BOOLEAN]

ASSUME WebhooksAssumption ==
  /\ IsFiniteSet(Thread) /\ None \notin Thread \cup Delivery
  /\ Len(Declared) \in Nat /\ DOMAIN Declared = 1 .. Len(Declared)
  /\ Request \cap Emission = {} /\ (Request \cup Emission) \cap Clearer = {}
  /\ MaxLog \in Nat \ {0} /\ QueueCap \in Nat \ {0} /\ MaxArmed \in Nat
  /\ FaultKind \subseteq {"duplicate", "drop", "delay", "reorder"}

VARIABLES
  webhookMu,    \* who holds Engine.webhookMu
  webhookSeq,
  webhookLog,
  faults,       \* Engine.faults: a sequence of [kind, event, held]
  sinkCh,       \* the sink's channel
  sinkClosed,
  inHand,       \* the delivery sinkLoop is posting, or None
  sinkDone,
  counters,     \* sinkDelivered, sinkFailed and sinkDropped
  closer,       \* Close: "idle", "waiting", "returned"
  step,         \* what each thread does next
  built,        \* deliveries it has built and not yet put through the faults
  emit,         \* deliveries it has still to append
  loaded,       \* the log as an append has read it
  armed,        \* how many faults have been armed (model only)
  swallowed,    \* the numbers a drop fault has dropped (model only)
  trimmed,      \* the numbers that have left a full log (model only)
  appended,     \* how many appends have reached the sink's end (model only)
  heldBack,     \* the numbers a reorder fault has held (model only)
  released       \* ClearFaults has released a held delivery (model only)

sinkVars == <<sinkCh, sinkClosed, inHand, sinkDone, counters, closer>>
modelVars == <<armed, swallowed, trimmed, appended, heldBack, released>>
threadVars == <<step, built, emit, loaded>>
vars == <<webhookMu, webhookSeq, webhookLog, faults, sinkVars, threadVars, modelVars>>

Init ==
  /\ webhookMu = None /\ webhookSeq = 0 /\ webhookLog = <<>> /\ faults = <<>>
  /\ sinkCh = <<>> /\ sinkClosed = FALSE /\ inHand = None /\ sinkDone = FALSE
  /\ counters = [delivered |-> 0, failed |-> 0, dropped |-> 0] /\ closer = "idle"
  /\ step = [t \in Thread |-> "start"]
  /\ built = [t \in Thread |-> <<>>] /\ emit = [t \in Thread |-> <<>>]
  /\ loaded = [t \in Thread |-> <<>>]
  /\ armed = 0 /\ swallowed = {} /\ trimmed = {}
  /\ appended = 0 /\ heldBack = {} /\ released = FALSE

Goto(t, next) == step' = [step EXCEPT ![t] = next]

-----------------------------------------------------------------------------
(* Which declared events a call announces *)

\* A trigger matches on method and path; the suffix of the event's name, when
\* it is one of the three actions, must be the call's.
ByTrigger(w, c) ==
  w.trigger # None /\ w.trigger = c.endpoint /\ w.action \in {None, c.action}

ByName(w, c) == w.trigger = None /\ w.event = c.fallback

\* The positions in S, smallest first: there is one such sequence.
InOrder(S) ==
  {order \in [1 .. Cardinality(S) -> S] :
     \A i, j \in 1 .. Cardinality(S) : i < j => order[i] < order[j]}

Matches(w, c) == ByTrigger(w, c) \/ ByName(w, c)

\* Where the events to announce are declared; the scan of def.Webhooks stops
\* after the first that matches by name.
Announced(c) ==
  {i \in DOMAIN Declared :
     Matches(Declared[i], c) /\ \A j \in DOMAIN Declared : ByName(Declared[j], c) => i <= j}

EventsAt(order) == [i \in DOMAIN order |-> Declared[order[i]].event]

\* buildProviderDelivery or buildDelivery: the id is derived from the number.
Build(events, of) ==
  [i \in DOMAIN events |-> [id |-> webhookSeq + i, seq |-> webhookSeq + i,
                            event |-> events[i], of |-> of, late |-> FALSE]]

-----------------------------------------------------------------------------
(* Announcing: enqueueWebhookFor and EmitWebhook *)

\* The statement that changes the row; the announcement is a later step.
ChangeRow(t) ==
  /\ t \in Request /\ step[t] = "start"
  /\ Goto(t, "enqueue")
  /\ UNCHANGED <<webhookMu, webhookSeq, webhookLog, faults, sinkVars, built, emit, loaded,
                 modelVars>>

\* Takes webhookMu and builds a delivery for every matching event.
Announce(t, events, mu) ==
  /\ webhookMu = None
  /\ webhookMu' = mu
  /\ webhookSeq' = webhookSeq + Len(events)
  /\ built' = [built EXCEPT ![t] = Build(events, t)]
  /\ Goto(t, "faults")
  /\ UNCHANGED <<webhookLog, faults, sinkVars, emit, loaded, modelVars>>

\* Mutant of Enqueue: the deliveries are built under the lock, which is not
\* kept for the appends.
EnqueueUnlocks(t) ==
  /\ step[t] = "enqueue"
  /\ \E order \in InOrder(Announced(CallOf[t])) : Announce(t, EventsAt(order), None)

Enqueue(t) ==
  /\ step[t] = "enqueue"
  /\ \E order \in InOrder(Announced(CallOf[t])) : Announce(t, EventsAt(order), t)

\* An event that is not declared is refused.
EmitWebhook(t) ==
  /\ t \in Emission /\ step[t] = "start"
  /\ \E i \in DOMAIN Declared : Declared[i].event = EmitOf[t]
  /\ Announce(t, <<EmitOf[t]>>, t)

\* What the first fault that matches the delivery does to it: the deliveries to
\* append, the numbers given, and the armed faults afterwards.
Outcome(kind, emitted, given, rest) ==
  [kind |-> kind, emitted |-> emitted, given |-> given, faults |-> rest]

Without(i) == RemoveAt(faults, i)

Matching(d) ==
  {i \in DOMAIN faults : faults[i].event \in {None, d.event}}

Duplicated(d, i) ==
  Outcome("duplicate", <<d, [d EXCEPT !.seq = webhookSeq + 1]>>, 1, Without(i))
Dropped(d, i) == Outcome("drop", <<>>, 0, Without(i))
Delayed(d, i) == Outcome("delay", <<[d EXCEPT !.late = TRUE]>>, 0, Without(i))
\* Mutant of Reordered: the fault is used up by the delivery it holds.
ReorderedForgets(d, i) == Outcome("reorder", <<>>, 0, Without(i))

Reordered(d, i) ==
  IF faults[i].held = None
  THEN Outcome("reorder", <<>>, 0, [faults EXCEPT ![i].held = d])
  ELSE Outcome("reorder", <<d, faults[i].held>>, 0, Without(i))

FaultOutcome(d) ==
  IF Matching(d) = {} THEN Outcome("none", <<d>>, 0, faults)
  ELSE LET i == Min(Matching(d)) IN
       CASE faults[i].kind = "duplicate" -> Duplicated(d, i)
         [] faults[i].kind = "drop"      -> Dropped(d, i)
         [] faults[i].kind = "delay"     -> Delayed(d, i)
         [] faults[i].kind = "reorder"   -> Reordered(d, i)

\* emitThroughFaults up to the unlock of faultMu.
EmitThroughFaults(t) ==
  /\ step[t] = "faults" /\ built[t] # <<>>
  /\ LET d == Head(built[t])
         o == FaultOutcome(d)
     IN /\ faults' = o.faults
        /\ webhookSeq' = webhookSeq + o.given
        /\ emit' = [emit EXCEPT ![t] = o.emitted]
        /\ swallowed' = IF o.kind = "drop" THEN swallowed \cup {d.seq} ELSE swallowed
        /\ heldBack' = IF o.kind = "reorder" /\ o.emitted = <<>> THEN heldBack \cup {d.seq}
                       ELSE heldBack
        /\ Goto(t, IF o.emitted = <<>> THEN "faults" ELSE "load")
  /\ built' = [built EXCEPT ![t] = Tail(@)]
  /\ UNCHANGED <<webhookMu, webhookLog, sinkVars, loaded, armed, trimmed, appended,
                 released>>

\* Mutant of EndAnnounce: the lock is not given back when nothing was emitted.
EndAnnounceKeepsLock(t) ==
  /\ step[t] = "faults" /\ built[t] = <<>>
  /\ webhookMu' = IF webhookMu = t /\ webhookLog # <<>> THEN None ELSE webhookMu
  /\ Goto(t, "done")
  /\ UNCHANGED <<webhookSeq, webhookLog, faults, sinkVars, built, emit, loaded, modelVars>>

\* The deferred Unlock.
EndAnnounce(t) ==
  /\ step[t] = "faults" /\ built[t] = <<>>
  /\ webhookMu' = IF webhookMu = t THEN None ELSE webhookMu
  /\ Goto(t, "done")
  /\ UNCHANGED <<webhookSeq, webhookLog, faults, sinkVars, built, emit, loaded, modelVars>>

-----------------------------------------------------------------------------
(* appendDelivery *)

LastN(s, n) == SubSeq(s, IF Len(s) > n THEN Len(s) - n + 1 ELSE 1, Len(s))

Seqs(s) == {s[i].seq : i \in DOMAIN s}

LoadLog(t) ==
  /\ step[t] = "load"
  /\ loaded' = [loaded EXCEPT ![t] = webhookLog]
  /\ Goto(t, "store")
  /\ UNCHANGED <<webhookMu, webhookSeq, webhookLog, faults, sinkVars, built, emit, modelVars>>

StoreLog(t) ==
  /\ step[t] = "store"
  /\ LET longer == Append(loaded[t], Head(emit[t])) IN
     /\ webhookLog' = LastN(longer, MaxLog)
     /\ trimmed' = trimmed \cup (Seqs(longer) \ Seqs(LastN(longer, MaxLog)))
  /\ loaded' = [loaded EXCEPT ![t] = <<>>]
  /\ Goto(t, "sink")
  /\ UNCHANGED <<webhookMu, webhookSeq, faults, sinkVars, built, emit, armed, swallowed,
                 appended, heldBack, released>>

\* Whatever became of the delivery, the next one follows.
Appended(t) ==
  /\ emit' = [emit EXCEPT ![t] = Tail(@)]
  /\ appended' = appended + 1
  /\ Goto(t, IF Len(emit[t]) > 1 THEN "load" ELSE IF t \in Clearer THEN "done" ELSE "faults")
  /\ UNCHANGED <<webhookMu, webhookSeq, webhookLog, faults, inHand, sinkDone, closer, built,
                 loaded, armed, swallowed, trimmed, heldBack, released>>

\* Mutant of CountDropped: the delivery is dropped without a count.
CountDroppedForgets == counters' = counters

CountDropped == counters' = [counters EXCEPT !.dropped = @ + 1]

\* sinkClosed is read; an open sink is sent to in the next step.
CheckSink(t) ==
  /\ step[t] = "sink"
  /\ ~sinkClosed
  /\ Goto(t, "send")
  /\ UNCHANGED <<webhookMu, webhookSeq, webhookLog, faults, sinkVars, built, emit, loaded,
                 modelVars>>

DropClosed(t) ==
  /\ step[t] = "sink"
  /\ sinkClosed
  /\ CountDropped /\ Appended(t) /\ UNCHANGED <<sinkCh, sinkClosed>>

\* The send that does not wait.
Send(t) ==
  /\ step[t] = "send" /\ ~sinkClosed
  /\ IF Len(sinkCh) < QueueCap
     THEN sinkCh' = Append(sinkCh, Head(emit[t])) /\ UNCHANGED counters
     ELSE CountDropped /\ UNCHANGED sinkCh
  /\ Appended(t) /\ UNCHANGED sinkClosed

\* A send on the channel that Close has closed meanwhile: the goroutine panics,
\* its server recovers, deferred unlocks run.
SendOnClosed(t) ==
  /\ step[t] = "send" /\ sinkClosed
  /\ webhookMu' = IF webhookMu = t THEN None ELSE webhookMu
  /\ emit' = [emit EXCEPT ![t] = <<>>]
  /\ Goto(t, "panicked")
  /\ UNCHANGED <<webhookSeq, webhookLog, faults, sinkVars, built, loaded, modelVars>>

-----------------------------------------------------------------------------
(* ArmFault and ClearFaults *)

Arm(kind, event) ==
  /\ armed < MaxArmed
  /\ armed' = armed + 1
  /\ faults' = Append(faults, [kind |-> kind, event |-> event, held |-> None])
  /\ UNCHANGED <<webhookMu, webhookSeq, webhookLog, sinkVars, threadVars, swallowed,
                 trimmed, appended, heldBack, released>>

\* Removes every fault under faultMu and remembers what they held.
ClearFaults(t) ==
  /\ t \in Clearer /\ step[t] = "start" /\ faults # <<>>
  /\ \E order \in InOrder({i \in DOMAIN faults : faults[i].held # None}) :
       LET release == [i \in DOMAIN order |-> faults[order[i]].held]
       IN /\ emit' = [emit EXCEPT ![t] = release]
          /\ Goto(t, IF release = <<>> THEN "done" ELSE "load")
          /\ released' = (released \/ release # <<>>)
  /\ faults' = <<>>
  /\ UNCHANGED <<webhookMu, webhookSeq, webhookLog, sinkVars, built, loaded, armed,
                 swallowed, trimmed, appended, heldBack>>

-----------------------------------------------------------------------------
(* The sink *)

\* sinkLoop takes the next delivery, also from a closed channel.
Receive ==
  /\ inHand = None /\ sinkCh # <<>>
  /\ inHand' = Head(sinkCh) /\ sinkCh' = Tail(sinkCh)
  /\ UNCHANGED <<webhookMu, webhookSeq, webhookLog, faults, sinkClosed, sinkDone, counters,
                 closer, threadVars, modelVars>>

\* The sink answered 2xx; or it answered otherwise, could not be reached, the
\* envelope could not be rendered or deliverToSink panicked.
Post(result) ==
  /\ inHand # None
  /\ inHand' = None
  /\ counters' = [counters EXCEPT ![result] = @ + 1]
  /\ UNCHANGED <<webhookMu, webhookSeq, webhookLog, faults, sinkCh, sinkClosed, sinkDone, closer,
                 threadVars, modelVars>>

\* The loop ends on a channel that is closed and empty.
EndLoop ==
  /\ inHand = None /\ sinkCh = <<>> /\ sinkClosed /\ ~sinkDone
  /\ sinkDone' = TRUE
  /\ UNCHANGED <<webhookMu, webhookSeq, webhookLog, faults, sinkCh, sinkClosed, inHand, counters,
                 closer, threadVars, modelVars>>

\* Mutant of Close: it does not wait for webhookMu.
CloseUnlocked ==
  /\ closer = "idle"
  /\ sinkClosed' = TRUE
  /\ closer' = "waiting"
  /\ UNCHANGED <<webhookMu, webhookSeq, webhookLog, faults, sinkCh, inHand, sinkDone, counters,
                 threadVars, modelVars>>

\* Close, under webhookMu: a second Close finds the sink closed and returns.
Close ==
  /\ closer = "idle" /\ webhookMu = None
  /\ sinkClosed' = TRUE
  /\ closer' = "waiting"
  /\ UNCHANGED <<webhookMu, webhookSeq, webhookLog, faults, sinkCh, inHand, sinkDone, counters,
                 threadVars, modelVars>>

\* The loop is done, or ten seconds have passed.
CloseReturns ==
  /\ closer = "waiting"
  /\ closer' = IF sinkDone THEN "returned" ELSE "timed out"
  /\ UNCHANGED <<webhookMu, webhookSeq, webhookLog, faults, sinkCh, sinkClosed, inHand, sinkDone,
                 counters, threadVars, modelVars>>

Progress(t) ==
  \/ Enqueue(t) \/ EmitThroughFaults(t) \/ EndAnnounce(t)
  \/ LoadLog(t) \/ StoreLog(t) \/ CheckSink(t) \/ DropClosed(t) \/ Send(t) \/ SendOnClosed(t)

Next ==
  \/ \E t \in Thread : ChangeRow(t) \/ EmitWebhook(t) \/ ClearFaults(t) \/ Progress(t)
  \/ \E kind \in FaultKind, event \in FaultEvent : Arm(kind, event)
  \/ Receive \/ EndLoop \/ Close \/ CloseReturns
  \/ \E result \in {"delivered", "failed"} : Post(result)

Spec == Init /\ [][Next]_vars

\* A goroutine that can go on does, and one that waits for webhookMu gets it
\* when those before it are through; the sink's client times out after five
\* seconds, so every post ends.
Fairness ==
  /\ \A t \in Thread : WF_vars(Progress(t))
  /\ WF_vars(Receive) /\ WF_vars(\E r \in {"delivered", "failed"} : Post(r)) /\ WF_vars(EndLoop)

FairSpec == Spec /\ Fairness

-----------------------------------------------------------------------------
(* Properties *)

\* Type invariant: what Engine's webhook fields can hold, and their limits.
WebhooksTypeOK ==
  /\ webhookMu \in Thread \cup {None} /\ webhookSeq \in Nat
  /\ webhookLog \in Seq(Delivery) /\ Len(webhookLog) <= MaxLog
  /\ faults \in Seq([kind : FaultKind, event : FaultEvent, held : Delivery \cup {None}])
  /\ sinkCh \in Seq(Delivery) /\ Len(sinkCh) <= QueueCap
  /\ sinkClosed \in BOOLEAN /\ sinkDone \in BOOLEAN /\ inHand \in Delivery \cup {None}
  /\ counters \in [delivered : Nat, failed : Nat, dropped : Nat]
  /\ closer \in {"idle", "waiting", "returned", "timed out"}
  /\ step \in [Thread -> {"start", "enqueue", "faults", "load", "store", "sink", "send",
                          "done", "panicked"}]
  /\ built \in [Thread -> Seq(Delivery)] /\ emit \in [Thread -> Seq(Delivery)]
  /\ loaded \in [Thread -> Seq(Delivery)]

\* The numbers on their way to the log: not the one that is stored already.
OnTheWay(t) ==
  Seqs(built[t]) \cup
  Seqs(IF step[t] \in {"sink", "send"} THEN Tail(emit[t]) ELSE emit[t])

\* emitThroughFaults and appendDelivery lose no delivery and log none twice:
\* each number given is in the log, has left the full log, was dropped by a
\* drop fault, is held by an armed reorder fault or is on its way, and is in
\* one place only.  A release by ClearFaults, which appends without webhookMu,
\* is what can overwrite another append.
EveryDeliveryAccounted ==
  LET held == {f \in ToSet(faults) : f.held # None}
      places == <<Seqs(webhookLog), trimmed, swallowed, {f.held.seq : f \in held}>>
      threads == SetToSeq({OnTheWay(t) : t \in Thread} \ {{}})
      all == places \o threads
  IN ~released =>
       /\ UNION ToSet(all) = 1..webhookSeq
       /\ \A i, j \in DOMAIN all : i < j => all[i] \cap all[j] = {}

\* Requests that announce at the same time do not overtake each other: the log
\* is in the order the deliveries were built in, but for those a reorder fault
\* has held.  (A duplicate has the id of its original and a number of its own,
\* which can come before a smaller number of the same request.)
LogInOrder ==
  \A i, j \in DOMAIN webhookLog :
    i < j /\ webhookLog[i].id > webhookLog[j].id => webhookLog[j].id \in heldBack

\* Each request that has answered has announced its change: once for every
\* declaration with its trigger and once for the event found by name, behind
\* which no other is looked for.  (An event can be declared more than once: the
\* importer makes one declaration of each of its methods.)
EveryChangeAnnounced ==
  \A t \in Request :
    step[t] = "done" /\ ~released /\ armed = 0 /\ trimmed = {} =>
      LET c == CallOf[t]
          named == {i \in DOMAIN Declared : ByName(Declared[i], c)}
          triggered == {i \in DOMAIN Declared : ByTrigger(Declared[i], c)}
          due == {i \in triggered : \A j \in named : i < j} \cup
                 {i \in named : \A j \in named : i <= j}
      IN \A e \in Event :
           Cardinality({n \in DOMAIN webhookLog :
                          webhookLog[n].of = t /\ webhookLog[n].event = e})
           = Cardinality({i \in due : Declared[i].event = e})

\* From the row that changed to the log nothing is lost.
NothingIsLost == EveryDeliveryAccounted /\ EveryChangeAnnounced

\* The sink's books balance: what was appended was delivered, failed, was
\* dropped by a full or closed queue, or is in the queue or in sinkLoop's hand.
SinkAccounting ==
  appended = counters.delivered + counters.failed + counters.dropped + Len(sinkCh)
             + (IF inHand = None THEN 0 ELSE 1)

\* A request or an EmitWebhook never sends on the channel Close has closed;
\* what ClearFaults releases, without webhookMu, can.
OnlyReleasePanics == \A t \in Thread : step[t] = "panicked" => t \in Clearer

\* Once Close has returned without its timeout, everything the queue took has
\* been tried and nothing enters it any more.
ReturnedMeansTried ==
  closer = "returned" => sinkDone /\ sinkCh = <<>> /\ inHand = None

\* Close harms nobody who announces, and its return means what it says.
CloseIsSafe == OnlyReleasePanics /\ ReturnedMeansTried

\* A request that has changed its row finishes announcing, whatever the sink,
\* Close and the faults do.
AnnouncementsEnd ==
  \A t \in Request : step[t] = "enqueue" ~> step[t] \in {"done", "panicked"}

\* sinkLoop ends after Close, so the next Close of the process cannot hang.
LoopEnds == sinkClosed ~> sinkDone

\* Whoever holds webhookMu gives it back, and the loop comes to its end.
EverythingEnds == AnnouncementsEnd /\ LoopEnds

=============================================================================
