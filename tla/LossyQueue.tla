----------------------------- MODULE LossyQueue -----------------------------
(***************************************************************************)
(* What the capture side of the proxy promises, without its goroutines,    *)
(* locks, counters or byte budget: a bounded FIFO that items may enter at   *)
(* most once, that may lose an item but never reorders, duplicates or       *)
(* invents one, and that accepts nothing once it has been closed.           *)
(***************************************************************************)
EXTENDS Naturals, Sequences

CONSTANTS
  Item,      \* the exchanges that may be offered
  Depth      \* the capacity of the channel (proxy.New's captureDepth)

VARIABLES
  queue,     \* the items waiting, oldest first
  fate,      \* where each item is: "none" before it is offered
  open       \* FALSE once the channel is closed

vars == <<queue, fate, open>>

Init ==
  /\ queue = <<>>
  /\ fate = [i \in Item |-> "none"]
  /\ open = TRUE

\* The item enters the queue, behind every item that is already there.
Enqueue(i) ==
  /\ open
  /\ fate[i] = "none"
  /\ Len(queue) < Depth
  /\ queue' = Append(queue, i)
  /\ fate' = [fate EXCEPT ![i] = "waiting"]
  /\ UNCHANGED open

\* The item is lost before it enters the queue.
Refuse(i) ==
  /\ fate[i] = "none"
  /\ fate' = [fate EXCEPT ![i] = "refused"]
  /\ UNCHANGED <<queue, open>>

\* The oldest waiting item leaves: lost to make room, or to the consumer.
Leave(to) ==
  /\ queue # <<>>
  /\ queue' = Tail(queue)
  /\ fate' = [fate EXCEPT ![Head(queue)] = to]
  /\ UNCHANGED open

EvictOldest == open /\ Leave("evicted")

Take == Leave("taken")

CloseQueue ==
  /\ open
  /\ open' = FALSE
  /\ UNCHANGED <<queue, fate>>

Next ==
  \/ \E i \in Item : Enqueue(i) \/ Refuse(i)
  \/ EvictOldest
  \/ Take
  \/ CloseQueue

Spec == Init /\ [][Next]_vars
=============================================================================
