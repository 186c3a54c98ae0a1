---------------------------- MODULE CaptureQueue ----------------------------
(***************************************************************************)
(* The hand-over from the proxy's request handlers to the recorder          *)
(* (internal/proxy/proxy.go).  Every HTTP handler serves its exchange first *)
(* and then captures it: budget check, reservation, closeMu.RLock, a send    *)
(* that never blocks, the eviction of the oldest capture when the channel is *)
(* full, one retry.  Server.Close closes the channel under closeMu.Lock.     *)
(* Each atomic load, atomic add, lock operation and channel operation is a   *)
(* step of its own.                                                          *)
(***************************************************************************)
EXTENDS Integers, Sequences, FiniteSets, Functions

CONSTANTS
  Exchange,      \* the exchanges; each is served by a handler of its own
  Inbound,       \* those that come in on a webhook tap
  Size,          \* captured body bytes of each exchange
  Depth,         \* capacity of the captures channel
  MaxBytes,      \* maxCaptureBytes
  MaxInFlight    \* model bound: exchanges inside forward at one moment

ASSUME CaptureAssumption ==
  /\ IsFiniteSet(Exchange) /\ Exchange # {}
  /\ Inbound \subseteq Exchange
  /\ Size \in [Exchange -> Nat]
  /\ Depth \in Nat \ {0}
  /\ MaxBytes \in Nat
  /\ MaxInFlight \in Nat \ {0}

VARIABLES
  pc,            \* where forward is for each exchange
  fate,          \* what became of the capture (model only, no code variable)
  captures,      \* Server.captures
  queuedBytes,   \* Server.queuedBytes
  readers,       \* the handlers that hold closeMu.RLock
  closing,       \* Server.Close: "open", "waiting" in Lock, "closed"
  current,       \* the captures Recorder.Run has received and not released
  queuedCount,   \* Metrics.CapturesQueued
  drops          \* Metrics.CapturesDropped and Metrics.WebhooksDropped

vars == <<pc, fate, captures, queuedBytes, readers, closing, current,
          queuedCount, drops>>

NotStarted == "idle"
InForward  == {"serving", "check", "reserve", "lock", "locked", "open",
               "full", "evicted", "retry", "sent", "drop"}
Finished   == {"done", "aborted"}
Steps      == {NotStarted} \cup InForward \cup Finished

closed == closing = "closed"

Kinds == {"captures", "webhooks"}
Kind(e) == IF e \in Inbound THEN "webhooks" ELSE "captures"

Init ==
  /\ pc = [e \in Exchange |-> NotStarted]
  /\ fate = [e \in Exchange |-> "none"]
  /\ captures = <<>>
  /\ queuedBytes = 0
  /\ readers = {}
  /\ closing = "open"
  /\ current = {}
  /\ queuedCount = 0
  /\ drops = [k \in Kinds |-> 0]

Goto(e, step) == pc' = [pc EXCEPT ![e] = step]
Drop(e) == drops' = [drops EXCEPT ![Kind(e)] = @ + 1]
Release(e) == queuedBytes' = queuedBytes - Size[e]

-----------------------------------------------------------------------------
(* Server.forward *)

Arrive(e) ==
  /\ pc[e] = NotStarted
  /\ Cardinality({x \in Exchange : pc[x] \in InForward}) < MaxInFlight
  /\ Goto(e, "serving")
  /\ UNCHANGED <<fate, captures, queuedBytes, readers, closing, current,
                 queuedCount, drops>>

\* ReverseProxy.ServeHTTP returns: the client has its answer.
Served(e) ==
  /\ pc[e] = "serving"
  /\ Goto(e, "check")
  /\ UNCHANGED <<fate, captures, queuedBytes, readers, closing, current,
                 queuedCount, drops>>

\* It panics with http.ErrAbortHandler when the upstream breaks off its body:
\* the handler unwinds and forward never reaches the capture.
Aborted(e) ==
  /\ pc[e] = "serving"
  /\ Goto(e, "aborted")
  /\ fate' = [fate EXCEPT ![e] = "refused"]
  /\ UNCHANGED <<captures, queuedBytes, readers, closing, current,
                 queuedCount, drops>>

\* queuedBytes.Load()+size > maxCaptureBytes
CheckBudget(e) ==
  /\ pc[e] = "check"
  /\ IF queuedBytes + Size[e] > MaxBytes
     THEN /\ Goto(e, "drop")
          /\ fate' = [fate EXCEPT ![e] = "refused"]
     ELSE /\ Goto(e, "reserve")
          /\ UNCHANGED fate
  /\ UNCHANGED <<captures, queuedBytes, readers, closing, current,
                 queuedCount, drops>>

Reserve(e) ==
  /\ pc[e] = "reserve"
  /\ Goto(e, "lock")
  /\ queuedBytes' = queuedBytes + Size[e]
  /\ UNCHANGED <<fate, captures, readers, closing, current, queuedCount, drops>>

\* closeMu.RLock: a writer that waits holds new readers back.
RLock(e) ==
  /\ pc[e] = "lock"
  /\ closing # "waiting"
  /\ Goto(e, "locked")
  /\ readers' = readers \cup {e}
  /\ UNCHANGED <<fate, captures, queuedBytes, closing, current, queuedCount,
                 drops>>

CheckClosed(e) ==
  /\ pc[e] = "locked"
  /\ IF closed
     THEN /\ Goto(e, "drop")
          /\ fate' = [fate EXCEPT ![e] = "refused"]
          /\ Release(e)
     ELSE /\ Goto(e, "open")
          /\ UNCHANGED <<fate, queuedBytes>>
  /\ UNCHANGED <<captures, readers, closing, current, queuedCount, drops>>

\* case s.captures <- ex
Enqueue(e) ==
  /\ pc[e] \in {"open", "retry"}
  /\ Len(captures) < Depth
  /\ Goto(e, "sent")
  /\ captures' = Append(captures, e)
  /\ fate' = [fate EXCEPT ![e] = "waiting"]
  /\ UNCHANGED <<queuedBytes, readers, closing, current, queuedCount, drops>>

\* Mutant of FindsFull: the send has no default branch and waits for room.
FindsFullWaits(e) ==
  /\ pc[e] = "open"
  /\ Len(captures) > Depth
  /\ Goto(e, "full")
  /\ UNCHANGED <<fate, captures, queuedBytes, readers, closing, current,
                 queuedCount, drops>>

FindsFull(e) ==
  /\ pc[e] = "open"
  /\ Len(captures) >= Depth
  /\ Goto(e, "full")
  /\ UNCHANGED <<fate, captures, queuedBytes, readers, closing, current,
                 queuedCount, drops>>

\* Mutant of Evict: the evicted capture keeps its reservation.
EvictWithoutRelease(e) ==
  /\ pc[e] = "full"
  /\ captures # <<>>
  /\ Goto(e, "evicted")
  /\ captures' = Tail(captures)
  /\ fate' = [fate EXCEPT ![Head(captures)] = "evicted"]
  /\ UNCHANGED <<queuedBytes, readers, closing, current, queuedCount, drops>>

\* case evicted := <-s.captures
Evict(e) ==
  /\ pc[e] = "full"
  /\ captures # <<>>
  /\ Goto(e, "evicted")
  /\ captures' = Tail(captures)
  /\ fate' = [fate EXCEPT ![Head(captures)] = "evicted"]
  /\ Release(Head(captures))
  /\ UNCHANGED <<readers, closing, current, queuedCount, drops>>

\* Mutant of CountEvicted: the eviction is not counted.
CountEvictedForgets(e) ==
  /\ pc[e] = "evicted"
  /\ Goto(e, "retry")
  /\ UNCHANGED <<fate, captures, queuedBytes, readers, closing, current,
                 queuedCount, drops>>

\* dropped() closes over the kind of the exchange that evicts.
CountEvicted(e) ==
  /\ pc[e] = "evicted"
  /\ Goto(e, "retry")
  /\ Drop(e)
  /\ UNCHANGED <<fate, captures, queuedBytes, readers, closing, current,
                 queuedCount>>

\* The recorder drained the channel in the meantime.
NothingToEvict(e) ==
  /\ pc[e] = "full"
  /\ captures = <<>>
  /\ Goto(e, "retry")
  /\ UNCHANGED <<fate, captures, queuedBytes, readers, closing, current,
                 queuedCount, drops>>

\* Another handler took the room: the exchange itself is dropped.
RetryFails(e) ==
  /\ pc[e] = "retry"
  /\ Len(captures) >= Depth
  /\ Goto(e, "drop")
  /\ fate' = [fate EXCEPT ![e] = "refused"]
  /\ Release(e)
  /\ UNCHANGED <<captures, readers, closing, current, queuedCount, drops>>

\* dropped(), and the deferred RUnlock for a handler that holds the lock.
FinishDropped(e) ==
  /\ pc[e] = "drop"
  /\ Goto(e, "done")
  /\ readers' = readers \ {e}
  /\ Drop(e)
  /\ UNCHANGED <<fate, captures, queuedBytes, closing, current, queuedCount>>

\* CapturesQueued.Add(1), then the deferred RUnlock.
FinishSent(e) ==
  /\ pc[e] = "sent"
  /\ Goto(e, "done")
  /\ readers' = readers \ {e}
  /\ queuedCount' = queuedCount + 1
  /\ UNCHANGED <<fate, captures, queuedBytes, closing, current, drops>>

-----------------------------------------------------------------------------
(* Server.Close: closeMu.Lock waits for the readers; closed is set and the   *)
(* channel closed before Unlock.  closeOnce lets one caller in.               *)

CloseStart ==
  /\ closing = "open"
  /\ closing' = "waiting"
  /\ UNCHANGED <<pc, fate, captures, queuedBytes, readers, current,
                 queuedCount, drops>>

\* Mutant of CloseChannel: closed without closeMu, under the handlers' feet.
CloseChannelUnlocked ==
  /\ closing = "waiting"
  /\ closing' = "closed"
  /\ UNCHANGED <<pc, fate, captures, queuedBytes, readers, current,
                 queuedCount, drops>>

CloseChannel ==
  /\ closing = "waiting"
  /\ readers = {}
  /\ closing' = "closed"
  /\ UNCHANGED <<pc, fate, captures, queuedBytes, readers, current,
                 queuedCount, drops>>

-----------------------------------------------------------------------------
(* Recorder.Run, as the channel sees it: receive, handle, deferred Release.   *)

\* Mutant of Take: the newest capture first.
TakeNewest ==
  LET newest == captures[Len(captures)] IN
  /\ current = {}
  /\ captures # <<>>
  /\ captures' = SubSeq(captures, 1, Len(captures) - 1)
  /\ current' = {newest}
  /\ fate' = [fate EXCEPT ![newest] = "taken"]
  /\ UNCHANGED <<pc, queuedBytes, readers, closing, queuedCount, drops>>

Take ==
  /\ current = {}
  /\ captures # <<>>
  /\ captures' = Tail(captures)
  /\ current' = {Head(captures)}
  /\ fate' = [fate EXCEPT ![Head(captures)] = "taken"]
  /\ UNCHANGED <<pc, queuedBytes, readers, closing, queuedCount, drops>>

Handled(e) ==
  /\ e \in current
  /\ current' = {}
  /\ Release(e)
  /\ UNCHANGED <<pc, fate, captures, readers, closing, queuedCount, drops>>

-----------------------------------------------------------------------------
Capture(e) ==
  \/ CheckBudget(e) \/ Reserve(e) \/ RLock(e) \/ CheckClosed(e)
  \/ Enqueue(e) \/ FindsFull(e) \/ Evict(e) \/ CountEvicted(e)
  \/ NothingToEvict(e) \/ RetryFails(e) \/ FinishDropped(e) \/ FinishSent(e)

Forward(e) == Arrive(e) \/ Served(e) \/ Aborted(e) \/ Capture(e)

Record == Take \/ \E e \in Exchange : Handled(e)

Next ==
  \/ \E e \in Exchange : Forward(e)
  \/ CloseStart \/ CloseChannel
  \/ Record

Spec == Init /\ [][Next]_vars

\* The Go scheduler runs every goroutine that can step: the handlers that
\* have been served, and Close once the lock is free.  Nothing is assumed of
\* the client, of the upstream, of the recorder, or of anybody calling Close.
HandlersFair == (\A e \in Exchange : WF_vars(Capture(e))) /\ WF_vars(CloseChannel)

HandlerSpec == Spec /\ HandlersFair

\* The recorder goroutine runs too, and no observer call lasts forever.
RecorderFair == WF_vars(Record)

-----------------------------------------------------------------------------
(* Properties *)

TypeOK ==
  /\ pc \in [Exchange -> Steps]
  /\ fate \in [Exchange -> {"none", "waiting", "evicted", "refused", "taken"}]
  /\ captures \in Seq(Exchange)
  /\ Len(captures) <= Depth
  /\ queuedBytes \in Int
  /\ readers \subseteq Exchange
  /\ closing \in {"open", "waiting", "closed"}
  /\ current \subseteq Exchange
  /\ queuedCount \in Nat
  /\ drops \in [Kinds -> Nat]

\* The exchanges whose bytes are reserved: on their way into the channel, in
\* it, or in the recorder's hands.
Holders ==
  {e \in Exchange : \/ pc[e] \in {"lock", "locked", "open", "full", "evicted", "retry"}
                    \/ fate[e] = "waiting"
                    \/ e \in current}

\* The byte budget never leaks and is never given back twice: queuedBytes is
\* what the holders weigh, through every drop, eviction, race and close.
ByteAccounting == queuedBytes = SumFunctionOnSet(Size, Holders)

\* Nobody sends on, or evicts from, a channel that Close has closed.
NoSendAfterClose ==
  \A e \in Exchange : pc[e] \in {"open", "full", "evicted", "retry"} => ~closed

Count(f) == Cardinality({e \in Exchange : fate[e] = f})
At(step) == Cardinality({e \in Exchange : pc[e] = step})

\* The counters agent status prints account for every exchange that reached
\* the capture stage: what was sent is counted queued, and what was lost is
\* counted dropped, once the handler that lost it has finished.  An aborted
\* upstream body is the only loss that no counter of the queue sees.
EveryCaptureCounted ==
  /\ queuedCount + At("sent") = Count("waiting") + Count("taken") + Count("evicted")
  /\ drops["captures"] + drops["webhooks"] + At("drop") + At("evicted") + At("aborted")
       = Count("refused") + Count("evicted")

MaxSize == CHOOSE n \in {Size[e] : e \in Exchange} : \A e \in Exchange : Size[e] <= n

\* The check and the add are two steps, so handlers that race can all pass:
\* the pool exceeds its budget by at most one body per racing handler.
BudgetOvershoot == queuedBytes <= MaxBytes + (MaxInFlight - 1) * MaxSize

\* maxCaptureBytes means what it says, but for the racing handlers.
BudgetKept == ByteAccounting /\ BudgetOvershoot

\* A served request never waits for the recorder or for Close: its handler
\* finishes although nothing is assumed of the recorder (fail-open).
CaptureNeverBlocks ==
  \A e \in Exchange : (pc[e] = "check") ~> (pc[e] = "done")

\* Close gets the lock, and as long as the recorder runs what waited when it
\* did is still recorded.
CloseDrains ==
  RecorderFair => ((closing = "waiting") ~> (closed /\ captures = <<>> /\ current = {}))

\* Neither a served request nor Close is held up for good.
HandOverGoesOn == CaptureNeverBlocks /\ CloseDrains

Lossy == INSTANCE LossyQueue WITH Item <- Exchange, queue <- captures, open <- ~closed

\* The whole hand-over is a bounded FIFO that loses but never reorders,
\* duplicates, or accepts after Close.
ImplementsLossyQueue == Lossy!Spec
=============================================================================
