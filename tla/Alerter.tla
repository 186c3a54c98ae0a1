------------------------------ MODULE Alerter ------------------------------
(***************************************************************************)
(* internal/alert/alert.go: the life of a finding from Report to the sink.  *)
(* A fingerprint is latched under a.mu, and everything after that (event     *)
(* log, hourly ceiling, state snapshot, state.json, delivery queue) runs     *)
(* outside the lock on the goroutine that reported it: the recorder, the     *)
(* spec watcher and the HTTP handlers interleave at every step.              *)
(***************************************************************************)
EXTENDS Integers, Sequences, FiniteSets

CONSTANTS
  Fp,              \* fingerprints
  Windowed,        \* those that arrive through Report (N in a window);
                   \* the others arrive through reportFirst
  Muted,           \* those whose level is below slack.min_level
  Emitter,         \* goroutines that report findings
  Acker,           \* HTTP handlers of /ack and /accept
  Ticker,          \* goroutines that run persistAll, hence MaybeDigest
  MinOccurrences,  \* Options.MinOccurrences
  MaxTracked,      \* Options.MaxTracked
  MaxPerHour,      \* maxDeliveriesPerHour
  QueueCap,        \* capacity of Alerter.deliveries
  MaxStarts,       \* model bound: how often the process is started again
  DiskMayFail,     \* may an append or a write of state.json fail?
  NoFp             \* "no fingerprint", not in Fp

Thread == Emitter \cup Acker \cup Ticker
Notes  == {"ceiling", "saturated", "digest"}
Message == Fp \cup Notes

ASSUME AlerterAssumption ==
  /\ IsFiniteSet(Fp) /\ IsFiniteSet(Thread)
  /\ Windowed \subseteq Fp /\ Muted \subseteq Fp
  /\ MinOccurrences \in Nat \ {0} /\ MaxTracked \in Nat \ {0}
  /\ MaxPerHour \in Nat /\ QueueCap \in Nat \ {0} /\ MaxStarts \in Nat
  /\ DiskMayFail \in BOOLEAN
  /\ NoFp \notin Message

\* A notice has no fingerprint.
ASSUME NoticesAssumption == Fp \cap Notes = {}

VARIABLES
  states,        \* Alerter.states: tracked, alerted, acked, count (see Memory)
  disk,          \* state.json
  at,            \* what each goroutine does next
  fp,            \* the fingerprint it works for
  msg,           \* what it delivers once it has persisted (NoFp: nothing)
  snap,          \* persist's snapshot of states
  eventLog,      \* the fingerprints whose event is in events.ndjson
  logClosed,     \* the log's file is closed
  digest,        \* the events counted since the last digest (digestCounts)
  hour,          \* deliveryWindowCount, counted up to MaxPerHour + 2
  deliveries,    \* the delivery channel
  wg,            \* deliveryWG's counter
  sinking,       \* the message deliveryLoop is handing to the sinks
  closing,       \* Close: "open", "flushing" once closed is set, "chanClosed", "done"
  saturationNotified,
  notified,      \* how often the sinks got each fingerprint's alert (model only)
  forgotten,     \* latches that memory or state.json has lost (model only)
  unlogged,      \* events that did not get into events.ndjson (model only)
  starts         \* restarts so far (model only)

\* What the code does not know that it has lost.
lost == <<forgotten, unlogged>>

vars == <<states, disk, at, fp, msg, snap, eventLog, logClosed, digest, hour,
          deliveries, wg, sinking, closing, saturationNotified, notified,
          starts, lost>>

\* What persist writes: the map from fingerprint to fpState.  WindowCount only
\* matters up to MinOccurrences.
Memory == [tracked : SUBSET Fp, alerted : SUBSET Fp, acked : SUBSET Fp,
           count : [Fp -> 0..MinOccurrences]]
Empty == [tracked |-> {}, alerted |-> {}, acked |-> {},
          count |-> [f \in Fp |-> 0]]

closed == closing # "open"

Init ==
  /\ states = Empty /\ disk = Empty
  /\ at = [t \in Thread |-> "idle"]
  /\ fp = [t \in Thread |-> NoFp]
  /\ msg = [t \in Thread |-> NoFp]
  /\ snap = [t \in Thread |-> Empty]
  /\ eventLog = {} /\ logClosed = FALSE
  /\ digest = {} /\ hour = 0
  /\ deliveries = <<>> /\ wg = 0 /\ sinking = {}
  /\ closing = "open" /\ saturationNotified = FALSE
  /\ notified = [f \in Fp |-> 0] /\ starts = 0
  /\ forgotten = {} /\ unlogged = {}

Goto(t, step) == at' = [at EXCEPT ![t] = step]

-----------------------------------------------------------------------------
(* Report and reportFirst: one critical section of a.mu *)

\* Mutant of Victims: a window that is still counting is a victim too.
VictimsAny(s) == s.tracked

\* evictOneLocked: an acked victim if there is one, else an alerted one; which
\* of them is a matter of time stamps.  A window that is neither is never one.
Victims(s) == IF s.acked # {} THEN s.acked ELSE s.alerted

Forget(s, v) ==
  [tracked |-> s.tracked \ {v}, alerted |-> s.alerted \ {v},
   acked |-> s.acked \ {v}, count |-> [s.count EXCEPT ![v] = 0]]

\* The states in which f can be tracked: f is already there, there is room, or
\* somebody is evicted.  Empty when the map is saturated with live windows.
Admit(f) ==
  IF f \in states.tracked \/ Cardinality(states.tracked) < MaxTracked
  THEN {[states EXCEPT !.tracked = @ \cup {f}]}
  ELSE {[Forget(states, v) EXCEPT !.tracked = @ \cup {f}] : v \in Victims(states)}

\* WindowCount after this occurrence; expired when the window had run out.
Counted(s, f, expired) ==
  IF f \notin Windowed THEN s.count[f]
  ELSE IF expired THEN 1
  ELSE IF s.count[f] < MinOccurrences THEN s.count[f] + 1 ELSE MinOccurrences

ShouldAlert(s, f) ==
  /\ f \notin s.alerted
  /\ f \notin s.acked
  /\ f \in Windowed => s.count[f] >= MinOccurrences

Report(t, f) ==
  /\ at[t] = "idle"
  /\ \E s \in Admit(f), expired \in BOOLEAN :
       LET c == [s EXCEPT !.count[f] = Counted(s, f, expired)] IN
       IF ShouldAlert(c, f)
       THEN /\ states' = [c EXCEPT !.alerted = @ \cup {f}]
            /\ Goto(t, "log")
            /\ fp' = [fp EXCEPT ![t] = f]
       ELSE /\ states' = c
            /\ UNCHANGED <<at, fp>>
  /\ forgotten' = forgotten \cup (states.alerted \ states'.alerted)
  /\ UNCHANGED <<disk, msg, snap, eventLog, logClosed, digest, hour, deliveries,
                 wg, sinking, closing, saturationNotified, notified, starts, unlogged>>

\* Saturated with live windows: the finding is turned away.  Report says so,
\* once per process; reportFirst returns without a word.
TurnAway(t, f) ==
  /\ at[t] = "idle"
  /\ Admit(f) = {}
  /\ IF f \in Windowed /\ ~saturationNotified
     THEN /\ saturationNotified' = TRUE
          /\ msg' = [msg EXCEPT ![t] = "saturated"]
          /\ Goto(t, "deliver")
     ELSE UNCHANGED <<saturationNotified, msg, at>>
  /\ UNCHANGED <<states, disk, fp, snap, eventLog, logClosed, digest, hour,
                 deliveries, wg, sinking, closing, notified, starts, lost>>

-----------------------------------------------------------------------------
(* emit *)

\* Mutant of AppendLog: the floor mutes the record as well as the channel.
AppendLogAboveFloor(t) ==
  /\ at[t] = "log"
  /\ Goto(t, "count")
  /\ eventLog' = IF fp[t] \in Muted THEN eventLog ELSE eventLog \cup {fp[t]}
  /\ UNCHANGED <<states, disk, fp, msg, snap, logClosed, digest, hour, deliveries,
                 wg, sinking, closing, saturationNotified, notified, starts, lost>>

\* a.log.Append(ev): its error is not looked at.
AppendLog(t) ==
  /\ at[t] = "log"
  /\ Goto(t, "count")
  /\ \E ok \in {~logClosed, ~logClosed /\ ~DiskMayFail} :
       /\ eventLog' = IF ok THEN eventLog \cup {fp[t]} ELSE eventLog
       /\ unlogged' = IF ok THEN unlogged ELSE unlogged \cup {fp[t]}
  /\ UNCHANGED <<states, disk, fp, msg, snap, logClosed, digest, hour, deliveries,
                 wg, sinking, closing, saturationNotified, notified, starts,
                 forgotten>>

\* Mutant of CountDelivery: delivers before it has persisted.
CountThenDeliver(t) ==
  /\ at[t] = "count"
  /\ Goto(t, IF fp[t] \in Muted THEN "snap" ELSE "deliver")
  /\ digest' = digest \cup {fp[t]}
  /\ msg' = [msg EXCEPT ![t] = IF fp[t] \in Muted THEN NoFp ELSE fp[t]]
  /\ UNCHANGED <<states, disk, fp, snap, eventLog, logClosed, hour, deliveries, wg,
                 sinking, closing, saturationNotified, notified, starts, lost>>

\* The digest and the hourly ceiling, in emit's critical section.
CountDelivery(t) ==
  LET f == fp[t] IN
  /\ at[t] = "count"
  /\ Goto(t, "snap")
  /\ digest' = digest \cup {f}
  /\ IF f \in Muted
     THEN msg' = [msg EXCEPT ![t] = NoFp] /\ UNCHANGED hour
     ELSE \E rolled \in BOOLEAN :
            LET n == IF rolled THEN 1 ELSE IF hour > MaxPerHour THEN MaxPerHour + 2 ELSE hour + 1
            IN  /\ hour' = n
                /\ msg' = [msg EXCEPT ![t] =
                             IF n <= MaxPerHour THEN f
                             ELSE IF n = MaxPerHour + 1 THEN "ceiling" ELSE NoFp]
  /\ UNCHANGED <<states, disk, fp, snap, eventLog, logClosed, deliveries, wg,
                 sinking, closing, saturationNotified, notified, starts, lost>>

-----------------------------------------------------------------------------
(* persist: the snapshot under a.mu, the file outside it *)

Snapshot(t) ==
  /\ at[t] = "snap"
  /\ Goto(t, "write")
  /\ snap' = [snap EXCEPT ![t] = states]
  /\ UNCHANGED <<states, disk, fp, msg, eventLog, logClosed, digest, hour,
                 deliveries, wg, sinking, closing, saturationNotified, notified,
                 starts, lost>>

\* WriteFileAtomic, whose error is ignored too.  What it loses: the latch it was
\* to write before an alert, when it fails; and, when the snapshot is older than
\* the one another goroutine has written since, the latches taken in between.
WriteState(t) ==
  /\ at[t] = "write"
  /\ Goto(t, IF msg[t] = NoFp THEN "idle" ELSE "deliver")
  /\ \E ok \in {TRUE, ~DiskMayFail} :
       /\ disk' = IF ok THEN snap[t] ELSE disk
       /\ forgotten' = forgotten \cup
            IF ok THEN disk.alerted \ snap[t].alerted ELSE {msg[t]} \cap Fp
  /\ snap' = [snap EXCEPT ![t] = Empty]
  /\ fp' = [fp EXCEPT ![t] = NoFp]
  /\ UNCHANGED <<states, msg, eventLog, logClosed, digest, hour, deliveries, wg,
                 sinking, closing, saturationNotified, notified, starts, unlogged>>

\* Ack of a fingerprint that is tracked; of another one it is a 404.
Ack(t, f) ==
  /\ at[t] = "idle"
  /\ f \in states.tracked
  /\ states' = [states EXCEPT !.acked = @ \cup {f}]
  /\ fp' = [fp EXCEPT ![t] = f]
  /\ Goto(t, "snap")
  /\ UNCHANGED <<disk, msg, snap, eventLog, logClosed, digest, hour, deliveries,
                 wg, sinking, closing, saturationNotified, notified, starts, lost>>

-----------------------------------------------------------------------------
(* deliver, deliveryLoop, MaybeDigest *)

\* MaybeDigest takes the counts under a.mu when the interval is over.
MaybeDigest(t) ==
  /\ at[t] = "idle"
  /\ digest # {}
  /\ digest' = {}
  /\ msg' = [msg EXCEPT ![t] = "digest"]
  /\ Goto(t, "deliver")
  /\ UNCHANGED <<states, disk, fp, snap, eventLog, logClosed, hour, deliveries, wg,
                 sinking, closing, saturationNotified, notified, starts, lost>>

\* Mutant of EnterDeliver: closed is not looked at.
EnterDeliverAfterClose(t) ==
  /\ at[t] = "deliver"
  /\ Goto(t, "send")
  /\ wg' = wg + 1
  /\ UNCHANGED <<states, disk, fp, msg, snap, eventLog, logClosed, digest, hour,
                 deliveries, sinking, closing, saturationNotified, notified,
                 starts, lost>>

\* deliver's critical section: nothing after Close, else deliveryWG.Add(1).
EnterDeliver(t) ==
  /\ at[t] = "deliver"
  /\ IF closed
     THEN /\ Goto(t, "idle")
          /\ msg' = [msg EXCEPT ![t] = NoFp]
          /\ UNCHANGED wg
     ELSE /\ Goto(t, "send")
          /\ wg' = wg + 1
          /\ UNCHANGED msg
  /\ UNCHANGED <<states, disk, fp, snap, eventLog, logClosed, digest, hour,
                 deliveries, sinking, closing, saturationNotified, notified,
                 starts, lost>>

Send(t) ==
  /\ at[t] = "send"
  /\ Len(deliveries) < QueueCap
  /\ deliveries' = Append(deliveries, msg[t])
  /\ Goto(t, "idle")
  /\ msg' = [msg EXCEPT ![t] = NoFp]
  /\ UNCHANGED <<states, disk, fp, snap, eventLog, logClosed, digest, hour, wg,
                 sinking, closing, saturationNotified, notified, starts, lost>>

\* The queue is full: the message is dropped (and counted under a.mu).
Overflow(t) ==
  /\ at[t] = "send"
  /\ Len(deliveries) >= QueueCap
  /\ wg' = wg - 1
  /\ Goto(t, "idle")
  /\ msg' = [msg EXCEPT ![t] = NoFp]
  /\ UNCHANGED <<states, disk, fp, snap, eventLog, logClosed, digest, hour,
                 deliveries, sinking, closing, saturationNotified, notified,
                 starts, lost>>

\* deliveryLoop receives a message and calls the sinks ...
StartSink ==
  /\ sinking = {}
  /\ deliveries # <<>>
  /\ sinking' = {Head(deliveries)}
  /\ deliveries' = Tail(deliveries)
  /\ notified' = [f \in Fp |-> IF f = Head(deliveries) /\ notified[f] < 2
                               THEN notified[f] + 1 ELSE notified[f]]
  /\ UNCHANGED <<states, disk, at, fp, msg, snap, eventLog, logClosed, digest,
                 hour, wg, closing, saturationNotified, starts, lost>>

\* Mutant of FinishSink: no deliveryWG.Done() after a delivery.
FinishSinkWithoutDone ==
  /\ sinking # {}
  /\ sinking' = {}
  /\ UNCHANGED <<states, disk, at, fp, msg, snap, eventLog, logClosed, digest,
                 hour, deliveries, wg, closing, saturationNotified, notified,
                 starts, lost>>

\* ... and when they have well or not, deliveryWG.Done().
FinishSink ==
  /\ sinking # {}
  /\ sinking' = {}
  /\ wg' = wg - 1
  /\ UNCHANGED <<states, disk, at, fp, msg, snap, eventLog, logClosed, digest,
                 hour, deliveries, closing, saturationNotified, notified,
                 starts, lost>>

-----------------------------------------------------------------------------
(* Close, and the process that ends and starts again *)

CloseFlag ==
  /\ closing = "open"
  /\ closing' = "flushing"
  /\ UNCHANGED <<states, disk, at, fp, msg, snap, eventLog, logClosed, digest,
                 hour, deliveries, wg, sinking, saturationNotified, notified,
                 starts, lost>>

\* Flush waits for the WaitGroup, then close(a.deliveries).
CloseDeliveries ==
  /\ closing = "flushing"
  /\ wg = 0
  /\ closing' = "chanClosed"
  /\ UNCHANGED <<states, disk, at, fp, msg, snap, eventLog, logClosed, digest,
                 hour, deliveries, wg, sinking, saturationNotified, notified,
                 starts, lost>>

CloseLog ==
  /\ closing = "chanClosed"
  /\ closing' = "done"
  /\ logClosed' = TRUE
  /\ UNCHANGED <<states, disk, at, fp, msg, snap, eventLog, digest, hour,
                 deliveries, wg, sinking, saturationNotified, notified, starts, lost>>

\* The process ends at any point, by crash or after Close, and New loads
\* state.json.  Everything in memory is gone, the events not appended included.
Restart ==
  /\ starts < MaxStarts
  /\ starts' = starts + 1
  /\ states' = disk
  /\ at' = [t \in Thread |-> "idle"]
  /\ fp' = [t \in Thread |-> NoFp]
  /\ msg' = [t \in Thread |-> NoFp]
  /\ snap' = [t \in Thread |-> Empty]
  /\ logClosed' = FALSE
  /\ digest' = {} /\ hour' = 0
  /\ deliveries' = <<>> /\ wg' = 0 /\ sinking' = {}
  /\ closing' = "open" /\ saturationNotified' = FALSE
  /\ unlogged' = unlogged \cup {fp[t] : t \in {u \in Thread : at[u] = "log"}}
  /\ UNCHANGED <<disk, eventLog, notified, forgotten>>

-----------------------------------------------------------------------------
Emit(t) ==
  \/ AppendLog(t) \/ CountDelivery(t) \/ Snapshot(t) \/ WriteState(t)
  \/ EnterDeliver(t) \/ Send(t) \/ Overflow(t)

DeliveryLoop == StartSink \/ FinishSink

Close == CloseFlag \/ CloseDeliveries \/ CloseLog

Next ==
  \/ \E t \in Emitter, f \in Fp : Report(t, f) \/ TurnAway(t, f)
  \/ \E t \in Acker, f \in Fp : Ack(t, f)
  \/ \E t \in Ticker : MaybeDigest(t)
  \/ \E t \in Thread : Emit(t)
  \/ DeliveryLoop
  \/ Close
  \/ Restart

Spec == Init /\ [][Next]_vars

\* A sink answers (the webhook sink has a client timeout) and Close goes on
\* once called.
SinksFair == WF_vars(DeliveryLoop) /\ WF_vars(CloseDeliveries) /\ WF_vars(CloseLog)

\* Reporting goroutines that can step do.  Nobody has to report or to close, and
\* nothing is assumed of the sinks.
ReporterSpec == Spec /\ \A t \in Thread : WF_vars(Emit(t))

-----------------------------------------------------------------------------
(* Properties *)

LostOK == forgotten \subseteq Fp /\ unlogged \subseteq Fp

TypeOK ==
  /\ states \in Memory /\ disk \in Memory
  /\ Cardinality(states.tracked) <= MaxTracked
  /\ states.alerted \cup states.acked \subseteq states.tracked
  /\ at \in [Thread -> {"idle", "log", "count", "snap", "write", "deliver", "send"}]
  /\ fp \in [Thread -> Fp \cup {NoFp}]
  /\ msg \in [Thread -> Message \cup {NoFp}]
  /\ snap \in [Thread -> Memory]
  /\ eventLog \subseteq Fp /\ logClosed \in BOOLEAN
  /\ digest \subseteq Fp /\ hour \in 0..(MaxPerHour + 2)
  /\ deliveries \in Seq(Message) /\ Len(deliveries) <= QueueCap
  /\ wg \in Nat
  /\ sinking = {} \/ \E m \in Message : sinking = {m}
  /\ closing \in {"open", "flushing", "chanClosed", "done"}
  /\ saturationNotified \in BOOLEAN
  /\ notified \in [Fp -> 0..2]
  /\ LostOK
  /\ starts \in 0..MaxStarts

Senders == {t \in Thread : at[t] = "send"}

\* deliveryWG counts exactly the messages that are between Add and Done: about
\* to be sent, queued, or with the sinks.  Flush waits for nothing else.
WaitGroupExact == wg = Len(deliveries) + Cardinality(Senders) + Cardinality(sinking)

\* When Close closes the delivery channel nobody is about to send on it, and
\* everything that was queued has been handed to the sinks.
CloseDeliversAll ==
  closing \in {"chanClosed", "done"} => Senders = {} /\ deliveries = <<>> /\ sinking = {}

\* A latched fingerprint has its event in the log or its emitter is about to
\* append it: the muted ones, those above the hourly ceiling and those the full
\* queue drops included.  What is missing is what an append failed for (Close
\* had closed the log, or the disk) or a crash forestalled, and nothing else.
LatchedIsLogged ==
  \A f \in states.alerted \ unlogged :
    f \in eventLog \/ \E t \in Thread : at[t] = "log" /\ fp[t] = f

\* A burst of new fingerprints never evicts a window that is still counting
\* towards its first alert (evictOneLocked).
LiveWindowKept ==
  [][\A f \in states.tracked \ (states.alerted \cup states.acked) :
       f \in states'.tracked \/ starts' # starts]_vars

\* The alert a sink gets is latched in state.json before it gets it, and stays
\* there, unless its latch is among the forgotten ones.
LatchedBeforeDelivery ==
  \A f \in Fp \ forgotten :
    (f \in sinking \/ \E i \in 1..Len(deliveries) : deliveries[i] = f) => f \in disk.alerted

\* A fingerprint whose latch was not forgotten is delivered once, however often
\* the process restarts.
NotifiesAtMostOnce == \A f \in Fp \ forgotten : notified[f] <= 1

\* One alert for each finding, over crashes at any point and snapshots written
\* in any order.
OneAlertEach == LatchedBeforeDelivery /\ NotifiesAtMostOnce

\* A goroutine that reports a finding never waits for a sink.
ReportNeverBlocks == \A t \in Thread : (at[t] # "idle") ~> (at[t] = "idle")

\* Close ends as long as the sinks answer: everything the WaitGroup counts is
\* eventually done.
CloseTerminates == SinksFair => ((closing = "flushing") ~> (closing # "flushing"))

\* Neither a reporter nor Close is held up for good.
AlerterGoesOn == ReportNeverBlocks /\ CloseTerminates
=============================================================================
