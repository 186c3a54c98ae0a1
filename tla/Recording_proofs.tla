--------------------------- MODULE Recording_proofs ---------------------------
(***************************************************************************)
(* Proofs about the way of an exchange to the disk.  First CaptureQueue, the *)
(* hand-over to the recorder: for any set of exchanges, any sizes, any       *)
(* channel depth and any byte budget.  Then Ndjson, the log that the         *)
(* recorder writes: for any retention age, size cap, record lengths, lag of  *)
(* the time stamps and number of records, restarts and disk failures.        *)
(***************************************************************************)
EXTENDS CaptureQueue, Ndjson, FiniteSetTheorems, TLAPS

-----------------------------------------------------------------------------
(* Sums of sizes.                                                            *)

Plus(a, b) == a + b
Some(s) == CHOOSE x \in s : TRUE
Sums == INSTANCE FoldLemmas WITH Op <- Plus, Base <- 0, Pick <- Some

LEMMA Finite == \A S : IsFiniteSet(S) => Sums!IsFiniteSet(S)
BY DEF IsFiniteSet, Sums!IsFiniteSet

\* A sum over a finite set of integers is an integer, and may be taken by
\* setting any member apart.
LEMMA SumFacts ==
  ASSUME NEW S, IsFiniteSet(S), NEW f \in [S -> Int]
  PROVE  /\ SumFunctionOnSet(f, {}) = 0
         /\ \A T \in SUBSET S :
              /\ SumFunctionOnSet(f, T) \in Int
              /\ \A x \in T :
                   SumFunctionOnSet(f, T) = f[x] + SumFunctionOnSet(f, T \ {x})
<1>1. \A T : SumFunctionOnSet(f, T) = Sums!Fold(f, T)
  BY DEF SumFunctionOnSet, FoldFunctionOnSet, MapThenFoldSet, Sums!Fold, Sums!MapThenFoldSet,
         Plus, Some
<1>2. Sums!Picks(S)
  BY DEF Sums!Picks, Some
<1>3. Sums!Commutes(Int, Int)
  BY DEF Sums!Commutes, Plus
<1>4. /\ Sums!Fold(f, {}) = 0
      /\ \A T \in SUBSET S : /\ Sums!Fold(f, T) \in Int
                             /\ \A x \in T : Sums!Fold(f, T) = Plus(f[x], Sums!Fold(f, T \ {x}))
  BY <1>2, <1>3, Finite, Sums!FoldFacts
<1>. QED  BY <1>1, <1>4 DEF Plus

-----------------------------------------------------------------------------
(* The hand-over's invariant.                                                *)

\* The handler holds closeMu.RLock while it looks at `closed` and sends.
UnderLock == {"locked", "open", "full", "evicted", "retry", "sent"}

LockInv == \A e \in Exchange : pc[e] \in UnderLock => e \in readers

\* Before its send or its drop, nothing has become of the capture.
BeforeFate == {"idle", "serving", "check", "reserve", "lock", "locked", "open",
               "full", "evicted", "retry"}

FateInv == \A e \in Exchange : pc[e] \in BeforeFate => fate[e] = "none"

\* The channel holds the waiting captures, none of them twice.
QueueInv ==
  /\ \A i \in 1..Len(captures) : fate[captures[i]] = "waiting"
  /\ \A i, j \in 1..Len(captures) : captures[i] = captures[j] => i = j

IInv == TypeOK /\ LockInv /\ NoSendAfterClose /\ FateInv /\ QueueInv

-----------------------------------------------------------------------------
(* Sequences: what Tail and Append do to the entries of a channel.           *)

LEMMA TailFacts ==
  ASSUME NEW S, NEW s \in Seq(S), s # <<>>
  PROVE  /\ Head(s) \in S
         /\ Head(s) = s[1]
         /\ Tail(s) \in Seq(S)
         /\ Len(Tail(s)) = Len(s) - 1
         /\ 1 \in 1..Len(s)
         /\ \A i \in 1..Len(Tail(s)) : Tail(s)[i] = s[i + 1] /\ i + 1 \in 1..Len(s)
  OBVIOUS

LEMMA AppendFacts ==
  ASSUME NEW S, NEW s \in Seq(S), NEW x \in S
  PROVE  /\ Append(s, x) \in Seq(S)
         /\ Len(Append(s, x)) = Len(s) + 1
         /\ Append(s, x)[Len(s) + 1] = x
         /\ \A i \in 1..Len(s) : Append(s, x)[i] = s[i]
  OBVIOUS

-----------------------------------------------------------------------------

LEMMA InitIInv == Init => IInv
  BY CaptureAssumption DEF Init, IInv, TypeOK, LockInv, NoSendAfterClose,
     FateInv, QueueInv, Steps, NotStarted, InForward, Finished, UnderLock,
     BeforeFate, closed, Kinds

\* Arrive, Served, Reserve, FindsFull, ... only move their own pc, and the
\* counters: each conjunct follows from its own definition.
LEMMA StepIInv == IInv /\ [Next]_vars => IInv'
<1> USE CaptureAssumption DEF IInv, TypeOK, LockInv, NoSendAfterClose, FateInv,
        QueueInv, Steps, NotStarted, InForward, Finished, UnderLock,
        BeforeFate, closed, Kinds, Kind, Goto, Drop, Release
<1> SUFFICES ASSUME IInv, [Next]_vars PROVE IInv'
  OBVIOUS
<1>1. ASSUME NEW e \in Exchange, Arrive(e) PROVE IInv'
  BY <1>1 DEF Arrive
<1>2. ASSUME NEW e \in Exchange, Served(e) PROVE IInv'
  BY <1>2 DEF Served
<1>3. ASSUME NEW e \in Exchange, Aborted(e) PROVE IInv'
  BY <1>3 DEF Aborted
<1>4. ASSUME NEW e \in Exchange, CheckBudget(e) PROVE IInv'
  <2>1. CASE queuedBytes + Size[e] > MaxBytes
    <3>1. pc' = [pc EXCEPT ![e] = "drop"] /\ fate' = [fate EXCEPT ![e] = "refused"]
      BY <1>4, <2>1 DEF CheckBudget
    <3>2. UNCHANGED <<captures, queuedBytes, readers, closing, current,
                      queuedCount, drops>> /\ pc[e] = "check"
      BY <1>4 DEF CheckBudget
    <3>. QED  BY <3>1, <3>2
  <2>2. CASE ~(queuedBytes + Size[e] > MaxBytes)
    <3>1. pc' = [pc EXCEPT ![e] = "reserve"] /\ UNCHANGED fate
      BY <1>4, <2>2 DEF CheckBudget
    <3>2. UNCHANGED <<captures, queuedBytes, readers, closing, current,
                      queuedCount, drops>> /\ pc[e] = "check"
      BY <1>4 DEF CheckBudget
    <3>. QED  BY <3>1, <3>2
  <2>. QED  BY <2>1, <2>2
<1>5. ASSUME NEW e \in Exchange, Reserve(e) PROVE IInv'
  BY <1>5 DEF Reserve
<1>6. ASSUME NEW e \in Exchange, RLock(e) PROVE IInv'
  BY <1>6 DEF RLock
<1>7. ASSUME NEW e \in Exchange, CheckClosed(e) PROVE IInv'
  <2>0. UNCHANGED <<captures, readers, closing, current, queuedCount, drops>>
        /\ pc[e] = "locked"
    BY <1>7 DEF CheckClosed
  <2>1. CASE closing = "closed"
    <3>1. /\ pc' = [pc EXCEPT ![e] = "drop"]
          /\ fate' = [fate EXCEPT ![e] = "refused"]
          /\ queuedBytes' = queuedBytes - Size[e]
      BY <1>7, <2>1 DEF CheckClosed
    <3>. QED  BY <2>0, <3>1
  <2>2. CASE closing # "closed"
    <3>1. pc' = [pc EXCEPT ![e] = "open"] /\ UNCHANGED <<fate, queuedBytes>>
      BY <1>7, <2>2 DEF CheckClosed
    <3>. QED  BY <2>0, <2>2, <3>1
  <2>. QED  BY <2>1, <2>2
<1>8. ASSUME NEW e \in Exchange, Enqueue(e) PROVE IInv'
  <2> USE <1>8 DEF Enqueue
  <2>1. TypeOK'
    BY AppendFacts
  <2>2. LockInv' /\ NoSendAfterClose' /\ FateInv'
    OBVIOUS
  <2>3. QueueInv'
    <3>1. \A i \in 1..Len(captures) : captures[i] \in Exchange /\ captures[i] # e
      OBVIOUS
    <3>2. Len(captures') = Len(captures) + 1
      BY AppendFacts
    <3>3. \A i \in 1..Len(captures) : captures'[i] = captures[i]
      BY AppendFacts
    <3>4. captures'[Len(captures) + 1] = e
      BY AppendFacts
    <3>5. \A i \in 1..Len(captures') : i = Len(captures) + 1 \/ i \in 1..Len(captures)
      BY <3>2
    <3>. QED  BY <3>1, <3>2, <3>3, <3>4, <3>5
  <2>. QED  BY <2>1, <2>2, <2>3
<1>9. ASSUME NEW e \in Exchange, FindsFull(e) PROVE IInv'
  BY <1>9 DEF FindsFull
<1>10. ASSUME NEW to \in {"evicted", "taken"}, captures # <<>>,
              captures' = Tail(captures),
              fate' = [fate EXCEPT ![Head(captures)] = to]
       PROVE  /\ captures' \in Seq(Exchange)
              /\ Len(captures') <= Depth
              /\ fate' \in [Exchange -> {"none", "waiting", "evicted", "refused", "taken"}]
              /\ \A e \in Exchange : pc[e] \in BeforeFate => fate'[e] = "none"
              /\ QueueInv'
  <2> USE <1>10
  <2>1. /\ Head(captures) \in Exchange
        /\ Head(captures) = captures[1]
        /\ Len(Tail(captures)) = Len(captures) - 1
        /\ Tail(captures) \in Seq(Exchange)
        /\ 1 \in 1..Len(captures)
        /\ \A i \in 1..Len(Tail(captures)) :
             /\ Tail(captures)[i] = captures[i + 1]
             /\ i + 1 \in 1..Len(captures)
    BY TailFacts
  <2>2. \A i \in 1..Len(Tail(captures)) :
          Tail(captures)[i] \in Exchange /\ Tail(captures)[i] # Head(captures)
    BY <2>1
  <2>3. QueueInv'
    BY <2>1, <2>2
  <2>. QED  BY <2>1, <2>3
<1>11. ASSUME NEW e \in Exchange, Evict(e) PROVE IInv'
  <2>1. Head(captures) \in Exchange /\ Size[Head(captures)] \in Int
    BY <1>11, TailFacts DEF Evict
  <2>2. /\ captures # <<>> /\ captures' = Tail(captures)
        /\ fate' = [fate EXCEPT ![Head(captures)] = "evicted"]
        /\ pc[e] = "full" /\ pc' = [pc EXCEPT ![e] = "evicted"]
        /\ queuedBytes' = queuedBytes - Size[Head(captures)]
        /\ UNCHANGED <<readers, closing, current, queuedCount, drops>>
    BY <1>11 DEF Evict
  <2>3. /\ captures' \in Seq(Exchange)
        /\ Len(captures') <= Depth
        /\ fate' \in [Exchange -> {"none", "waiting", "evicted", "refused", "taken"}]
        /\ \A x \in Exchange : pc[x] \in BeforeFate => fate'[x] = "none"
        /\ QueueInv'
    BY <1>10, <2>2
  <2>4. TypeOK'
    BY <2>1, <2>2, <2>3
  <2>5. LockInv' /\ NoSendAfterClose'
    BY <2>2
  <2>6. FateInv'
    BY <2>2, <2>3
  <2>. QED  BY <2>3, <2>4, <2>5, <2>6
<1>12. ASSUME NEW e \in Exchange, CountEvicted(e) PROVE IInv'
  BY <1>12 DEF CountEvicted
<1>13. ASSUME NEW e \in Exchange, NothingToEvict(e) PROVE IInv'
  BY <1>13 DEF NothingToEvict
<1>14. ASSUME NEW e \in Exchange, RetryFails(e) PROVE IInv'
  BY <1>14 DEF RetryFails
<1>15. ASSUME NEW e \in Exchange, FinishDropped(e) PROVE IInv'
  BY <1>15 DEF FinishDropped
<1>16. ASSUME NEW e \in Exchange, FinishSent(e) PROVE IInv'
  BY <1>16 DEF FinishSent
<1>17. CASE CloseStart
  BY <1>17 DEF CloseStart
<1>18. CASE CloseChannel
  BY <1>18 DEF CloseChannel
<1>19. CASE Take
  <2>1. Head(captures) \in Exchange
    BY <1>19, TailFacts DEF Take
  <2>2. /\ captures # <<>> /\ captures' = Tail(captures)
        /\ fate' = [fate EXCEPT ![Head(captures)] = "taken"]
        /\ current' = {Head(captures)}
        /\ UNCHANGED <<pc, queuedBytes, readers, closing, queuedCount, drops>>
    BY <1>19 DEF Take
  <2>3. /\ captures' \in Seq(Exchange)
        /\ Len(captures') <= Depth
        /\ fate' \in [Exchange -> {"none", "waiting", "evicted", "refused", "taken"}]
        /\ \A x \in Exchange : pc[x] \in BeforeFate => fate'[x] = "none"
        /\ QueueInv'
    BY <1>10, <2>2
  <2>4. TypeOK'
    BY <2>1, <2>2, <2>3
  <2>5. LockInv' /\ NoSendAfterClose' /\ FateInv'
    BY <2>2, <2>3
  <2>. QED  BY <2>3, <2>4, <2>5
<1>20. ASSUME NEW e \in Exchange, Handled(e) PROVE IInv'
  BY <1>20 DEF Handled
<1>21. CASE UNCHANGED vars
  BY <1>21 DEF vars
<1>. QED
  BY <1>1, <1>2, <1>3, <1>4, <1>5, <1>6, <1>7, <1>8, <1>9, <1>11, <1>12, <1>13,
     <1>14, <1>15, <1>16, <1>17, <1>18, <1>19, <1>20, <1>21
     DEF Next, Forward, Capture, Record

-----------------------------------------------------------------------------
(* The byte budget.                                                          *)

\* The recorder holds one capture at most, one that it took from the channel.
CurrentInv ==
  /\ \A e \in current : fate[e] = "taken"
  /\ \A e, g \in current : e = g

\* What the recorder takes and a handler evicts is a waiting capture.
LEMMA HeadWaits ==
  ASSUME IInv, captures # <<>>
  PROVE  Head(captures) \in Exchange /\ fate[Head(captures)] = "waiting"
<1>1. Head(captures) \in Exchange /\ Head(captures) = captures[1] /\ 1 \in 1..Len(captures)
  BY TailFacts DEF IInv, TypeOK
<1>. QED  BY <1>1 DEF IInv, QueueInv

LEMMA StepCurrentInv == IInv /\ CurrentInv /\ [Next]_vars => CurrentInv'
<1> SUFFICES ASSUME IInv, CurrentInv, [Next]_vars PROVE CurrentInv'
  OBVIOUS
<1> USE DEF IInv, TypeOK, CurrentInv
<1>1. ASSUME NEW e \in Exchange,
             Aborted(e) \/ CheckBudget(e) \/ CheckClosed(e) \/ Enqueue(e) \/ RetryFails(e)
      PROVE  CurrentInv'
  <2>1. fate[e] = "none" /\ current' = current
    BY <1>1 DEF Aborted, CheckBudget, CheckClosed, Enqueue, RetryFails, FateInv, BeforeFate
  <2>2. \A x \in Exchange \ {e} : fate'[x] = fate[x]
    BY <1>1 DEF Aborted, CheckBudget, CheckClosed, Enqueue, RetryFails
  <2>3. \A x \in current : x \in Exchange \ {e}
    BY <2>1
  <2>. QED  BY <2>1, <2>2, <2>3
<1>2. ASSUME NEW e \in Exchange, Evict(e) PROVE CurrentInv'
  BY <1>2, HeadWaits DEF Evict
<1>3. CASE Take
  BY <1>3, HeadWaits DEF Take
<1>4. CASE \E e \in Exchange : Handled(e)
  BY <1>4 DEF Handled
<1>5. CASE \/ \E e \in Exchange : \/ Arrive(e) \/ Served(e) \/ Reserve(e) \/ RLock(e)
                                  \/ FindsFull(e) \/ CountEvicted(e)
                                  \/ NothingToEvict(e) \/ FinishDropped(e) \/ FinishSent(e)
           \/ CloseStart \/ CloseChannel \/ UNCHANGED vars
  <2>1. UNCHANGED <<fate, current>>
    BY <1>5 DEF Arrive, Served, Reserve, RLock, FindsFull, CountEvicted,
       NothingToEvict, FinishDropped, FinishSent, CloseStart, CloseChannel, vars
  <2>. QED  BY <2>1
<1>. QED
  BY <1>1, <1>2, <1>3, <1>4, <1>5 DEF Next, Forward, Capture, Record

\* One holder more or one holder less changes the weight of the holders by
\* its own.
LEMMA OneHolder ==
  ASSUME NEW H \in SUBSET Exchange, NEW e \in Exchange
  PROVE  /\ SumFunctionOnSet(Size, H) \in Int
         /\ e \in H => SumFunctionOnSet(Size, H \ {e}) = SumFunctionOnSet(Size, H) - Size[e]
         /\ e \notin H => SumFunctionOnSet(Size, H \cup {e}) = SumFunctionOnSet(Size, H) + Size[e]
<1> DEFINE Sum(T) == SumFunctionOnSet(Size, T)
<1>1. \A T \in SUBSET Exchange :
         Sum(T) \in Int /\ \A x \in T : Sum(T) = Size[x] + Sum(T \ {x})
  <2>1. Size \in [Exchange -> Int]
    BY CaptureAssumption
  <2>. QED  BY <2>1, CaptureAssumption, SumFacts
<1>2. Size[e] \in Int
  BY CaptureAssumption
<1> HIDE DEF Sum
<1>3. e \in H => Sum(H \ {e}) = Sum(H) - Size[e]
  BY <1>1, <1>2
<1>4. ASSUME e \notin H PROVE Sum(H \cup {e}) = Sum(H) + Size[e]
  <2>1. (H \cup {e}) \ {e} = H
    BY <1>4
  <2>2. Sum(H \cup {e}) = Size[e] + Sum((H \cup {e}) \ {e})
    BY <1>1
  <2>. QED  BY <1>1, <1>2, <2>1, <2>2
<1>. QED  BY <1>1, <1>3, <1>4 DEF Sum

\* Every step that makes a holder reserves its bytes, and every step that
\* ends one gives them back, once.
LEMMA StepByteAccounting ==
  IInv /\ CurrentInv /\ ByteAccounting /\ [Next]_vars => ByteAccounting'
<1> SUFFICES ASSUME IInv, CurrentInv, ByteAccounting, [Next]_vars PROVE ByteAccounting'
  OBVIOUS
<1> USE DEF IInv, TypeOK
<1>0. Holders \in SUBSET Exchange
  BY DEF Holders
<1>1. ASSUME NEW e \in Holders, Holders' = Holders \ {e}, queuedBytes' = queuedBytes - Size[e]
      PROVE  ByteAccounting'
  BY <1>0, <1>1, OneHolder DEF ByteAccounting
<1>2. ASSUME NEW e \in Exchange \ Holders, Holders' = Holders \cup {e},
             queuedBytes' = queuedBytes + Size[e]
      PROVE  ByteAccounting'
  BY <1>0, <1>2, OneHolder DEF ByteAccounting
<1>3. ASSUME Holders' = Holders, queuedBytes' = queuedBytes
      PROVE  ByteAccounting'
  BY <1>3 DEF ByteAccounting
<1> USE DEF Holders, CurrentInv, FateInv, BeforeFate
<1>4. ASSUME NEW e \in Exchange, Reserve(e) PROVE ByteAccounting'
  <2>1. e \notin Holders
    BY <1>4 DEF Reserve
  <2>2. Holders' = Holders \cup {e}
    BY <1>4 DEF Reserve, Goto
  <2>. QED  BY <1>2, <1>4, <2>1, <2>2 DEF Reserve
<1>5. ASSUME NEW e \in Exchange, RetryFails(e) \/ (CheckClosed(e) /\ closed) PROVE ByteAccounting'
  <2>1. e \in Holders /\ fate[e] = "none" /\ e \notin current
    BY <1>5 DEF RetryFails, CheckClosed
  <2>2. /\ pc' = [pc EXCEPT ![e] = "drop"]
        /\ fate' = [fate EXCEPT ![e] = "refused"]
        /\ queuedBytes' = queuedBytes - Size[e]
        /\ current' = current
    BY <1>5 DEF RetryFails, CheckClosed, Goto, Release
  <2>3. Holders' = Holders \ {e}
    BY <2>1, <2>2
  <2>. QED  BY <1>1, <2>1, <2>2, <2>3
<1>6. ASSUME NEW e \in Exchange, Evict(e) PROVE ByteAccounting'
  <2> DEFINE h == Head(captures)
  <2>1. h \in Exchange /\ fate[h] = "waiting"
    BY <1>6, HeadWaits DEF Evict
  <2>2. /\ pc[e] = "full"
        /\ pc' = [pc EXCEPT ![e] = "evicted"]
        /\ fate' = [fate EXCEPT ![h] = "evicted"]
        /\ queuedBytes' = queuedBytes - Size[h]
        /\ current' = current
    BY <1>6 DEF Evict, Goto, Release
  <2> HIDE DEF h
  <2>3. h \in Holders /\ h # e /\ h \notin current /\ pc[h] \notin BeforeFate
    BY <2>1, <2>2
  <2>4. Holders' = Holders \ {h}
    BY <2>1, <2>2, <2>3
  <2>. QED  BY <1>1, <2>2, <2>3, <2>4
<1>7. ASSUME NEW e \in Exchange, Handled(e) PROVE ByteAccounting'
  <2>1. e \in Holders /\ current = {e} /\ fate[e] = "taken" /\ pc[e] \notin BeforeFate
    BY <1>7 DEF Handled
  <2>2. Holders' = Holders \ {e}
    BY <1>7, <2>1 DEF Handled
  <2>. QED  BY <1>1, <1>7, <2>1, <2>2 DEF Handled, Release
<1>8. CASE Take
  <2> DEFINE h == Head(captures)
  <2>1. h \in Exchange /\ fate[h] = "waiting"
    BY <1>8, HeadWaits DEF Take
  <2>2. /\ current = {} /\ current' = {h}
        /\ fate' = [fate EXCEPT ![h] = "taken"]
        /\ UNCHANGED <<pc, queuedBytes>>
    BY <1>8 DEF Take
  <2> HIDE DEF h
  <2>3. Holders' = Holders
    BY <2>1, <2>2
  <2>. QED  BY <1>3, <2>2, <2>3
<1>9. ASSUME NEW e \in Exchange, Enqueue(e) PROVE ByteAccounting'
  <2>1. Holders' = Holders
    BY <1>9 DEF Enqueue, Goto
  <2>. QED  BY <1>3, <1>9, <2>1 DEF Enqueue
<1>10. ASSUME NEW e \in Exchange,
              \/ Arrive(e) \/ Served(e) \/ Aborted(e) \/ CheckBudget(e) \/ RLock(e)
              \/ (CheckClosed(e) /\ ~closed) \/ FindsFull(e) \/ CountEvicted(e)
              \/ NothingToEvict(e) \/ FinishDropped(e) \/ FinishSent(e)
       PROVE  ByteAccounting'
  <2>1. UNCHANGED <<queuedBytes, current>>
    BY <1>10 DEF Arrive, Served, Aborted, CheckBudget, RLock, CheckClosed, FindsFull,
       CountEvicted, NothingToEvict, FinishDropped, FinishSent
  <2>2. \A x \in Exchange : x # e => pc'[x] = pc[x] /\ fate'[x] = fate[x]
    BY <1>10 DEF Arrive, Served, Aborted, CheckBudget, RLock, CheckClosed, FindsFull,
       CountEvicted, NothingToEvict, FinishDropped, FinishSent, Goto
  <2>3. e \in Holders' <=> e \in Holders
    BY <1>10 DEF Arrive, Served, Aborted, CheckBudget, RLock, CheckClosed, FindsFull,
       CountEvicted, NothingToEvict, FinishDropped, FinishSent, Goto, NotStarted
  <2>4. Holders' = Holders
    BY <2>1, <2>2, <2>3
  <2>. QED  BY <1>3, <2>1, <2>4
<1>11. CASE CloseStart \/ CloseChannel \/ UNCHANGED vars
  <2>1. Holders' = Holders /\ queuedBytes' = queuedBytes
    BY <1>11 DEF CloseStart, CloseChannel, vars
  <2>. QED  BY <1>3, <2>1
<1>. QED
  BY <1>4, <1>5, <1>6, <1>7, <1>8, <1>9, <1>10, <1>11 DEF Next, Forward, Capture, Record

\* An exchange that passed the check and has not reserved yet.
Reserving == {e \in Exchange : pc[e] = "reserve"}
InFlight  == {e \in Exchange : pc[e] \in InForward}
Ceiling   == MaxBytes + (MaxInFlight - 1) * MaxSize

\* However the handlers that passed the check race, one of them checked last:
\* its check counted every byte reserved before, and the others that have not
\* reserved yet can add a body each.
BudgetInv ==
  /\ Cardinality(InFlight) <= MaxInFlight
  /\ queuedBytes <= Ceiling
  /\ Reserving # {} =>
       \E e \in Reserving :
         queuedBytes + Size[e] + (Cardinality(Reserving) - 1) * MaxSize <= Ceiling

\* The largest size exists, since there are finitely many.
LEMMA MaxSizeIsMax == MaxSize \in Nat /\ \A e \in Exchange : Size[e] <= MaxSize
<1> DEFINE Bounded(T, n) == n \in {Size[e] : e \in T} /\ \A e \in T : Size[e] <= n
           G == {T \in SUBSET Exchange : T # {} => \E n \in Nat : Bounded(T, n)}
<1>1. ASSUME NEW T \in SUBSET Exchange, \A U \in SUBSET T : U # T => U \in G
      PROVE  T \in G
  <2>1. SUFFICES ASSUME T # {} PROVE \E n \in Nat : Bounded(T, n)
    OBVIOUS
  <2>2. PICK x \in T : TRUE
    BY <2>1
  <2> DEFINE U == T \ {x}
  <2>3. Size[x] \in Nat
    BY CaptureAssumption
  <2>4. CASE U = {}
    <3>1. T = {x}
      BY <2>4
    <3>2. Bounded(T, Size[x])
      BY <2>3, <3>1
    <3>. QED  BY <2>3, <3>2
  <2>5. CASE U # {}
    <3>0. U \in SUBSET T /\ U # T
      BY <2>2
    <3>1. PICK m \in Nat : Bounded(U, m)
      <4>1. U \in G
        BY <1>1, <3>0
      <4>. QED  BY <2>5, <4>1
    <3>2. CASE Size[x] <= m
      <4>1. Bounded(T, m)
        BY <3>1, <3>2
      <4>. QED  BY <4>1
    <3>3. CASE ~(Size[x] <= m)
      <4>1. \A e \in U : Size[e] <= Size[x]
        BY <2>3, <3>1, <3>3, CaptureAssumption
      <4>2. Bounded(T, Size[x])
        BY <2>2, <2>3, <4>1
      <4>. QED  BY <2>3, <4>2
    <3>. QED  BY <3>2, <3>3
  <2>. QED  BY <2>4, <2>5
<1> HIDE DEF G
<1>2. Exchange \in G
  BY <1>1, Finite, Sums!SubsetInduction, CaptureAssumption
<1>3. \E n \in {Size[e] : e \in Exchange} : \A e \in Exchange : Size[e] <= n
  BY <1>2, CaptureAssumption DEF G
<1>4. MaxSize \in {Size[e] : e \in Exchange} /\ \A e \in Exchange : Size[e] <= MaxSize
  BY <1>3 DEF MaxSize
<1>. QED  BY <1>4, CaptureAssumption

LEMMA Multiples ==
  ASSUME NEW a \in Nat, NEW b \in Nat, NEW c \in Nat
  PROVE  /\ a * c \in Nat
         /\ a <= b => a * c <= b * c
         /\ (a + 1) * c = a * c + c
<1>1. a * c \in Nat /\ (a + 1) * c = a * c + c
  OBVIOUS
<1>2. ASSUME a <= b PROVE a * c <= b * c
  <2>1. PICK d \in Nat : b = a + d
    BY <1>2
  <2>2. b * c = a * c + d * c
    BY <2>1
  <2>3. d * c \in Nat
    OBVIOUS
  <2>. QED  BY <1>1, <2>2, <2>3
<1>. QED  BY <1>1, <1>2

LEMMA CeilingFacts ==
  /\ MaxSize \in Nat /\ Ceiling \in Int /\ MaxBytes <= Ceiling
  /\ \A k \in Nat : k <= MaxInFlight - 1 => MaxBytes + k * MaxSize <= Ceiling
<1>1. MaxSize \in Nat /\ MaxInFlight - 1 \in Nat /\ MaxBytes \in Nat
  BY MaxSizeIsMax, CaptureAssumption
<1>2. (MaxInFlight - 1) * MaxSize \in Nat
  BY <1>1, Multiples
<1>3. \A k \in Nat : k * MaxSize \in Nat /\ (k <= MaxInFlight - 1 => k * MaxSize <= (MaxInFlight - 1) * MaxSize)
  BY <1>1, Multiples
<1>. QED  BY <1>1, <1>2, <1>3 DEF Ceiling

\* Only Arrive brings an exchange in, and it counts first.
LEMMA StepInFlight ==
  IInv /\ Cardinality(InFlight) <= MaxInFlight /\ [Next]_vars
    => Cardinality(InFlight') <= MaxInFlight
<1> SUFFICES ASSUME IInv, Cardinality(InFlight) <= MaxInFlight, [Next]_vars
             PROVE  Cardinality(InFlight') <= MaxInFlight
  OBVIOUS
<1> USE DEF IInv, TypeOK
<1>1. InFlight \subseteq Exchange /\ IsFiniteSet(InFlight) /\ Cardinality(InFlight) \in Nat
  BY CaptureAssumption, FS_Subset, FS_CardinalityType DEF InFlight
<1>2. ASSUME InFlight' \subseteq InFlight PROVE Cardinality(InFlight') <= MaxInFlight
  <2>1. Cardinality(InFlight') <= Cardinality(InFlight) /\ Cardinality(InFlight') \in Nat
    BY <1>1, <1>2, FS_Subset, FS_CardinalityType
  <2>. QED  BY <1>1, <2>1, CaptureAssumption
<1>3. ASSUME NEW e \in Exchange, Arrive(e) PROVE Cardinality(InFlight') <= MaxInFlight
  <2>1. InFlight' = InFlight \cup {e} /\ e \notin InFlight
    BY <1>3 DEF Arrive, Goto, InFlight, InForward, NotStarted
  <2>2. Cardinality(InFlight') = Cardinality(InFlight) + 1
    BY <1>1, <2>1, FS_AddElement
  <2>3. Cardinality(InFlight) < MaxInFlight
    BY <1>3 DEF Arrive, InFlight
  <2>. QED  BY <1>1, <2>2, <2>3, CaptureAssumption
<1>4. ASSUME NEW e \in Exchange, Served(e) \/ Aborted(e) \/ Capture(e)
      PROVE  InFlight' \subseteq InFlight
  <2>1. pc[e] \in InForward /\ \A x \in Exchange : x # e => pc'[x] = pc[x]
    BY <1>4 DEF Served, Aborted, Capture, CheckBudget, Reserve, RLock, CheckClosed,
       Enqueue, FindsFull, Evict, CountEvicted, NothingToEvict, RetryFails,
       FinishDropped, FinishSent, Goto, InForward
  <2>. QED  BY <2>1 DEF InFlight
<1>5. CASE Record \/ CloseStart \/ CloseChannel \/ UNCHANGED vars
  <2>1. pc' = pc
    BY <1>5 DEF Record, Take, Handled, CloseStart, CloseChannel, vars
  <2>. QED  BY <1>2, <2>1 DEF InFlight
<1>. QED
  BY <1>2, <1>3, <1>4, <1>5 DEF Next, Forward

\* A check puts its own exchange last; a reservation uses up its share.
LEMMA StepBudgetInv == IInv /\ BudgetInv /\ [Next]_vars => BudgetInv'
<1> SUFFICES ASSUME IInv, BudgetInv, [Next]_vars PROVE BudgetInv'
  OBVIOUS
<1> USE DEF IInv, TypeOK
<1>0. /\ Reserving \subseteq Exchange /\ IsFiniteSet(Reserving)
      /\ Cardinality(Reserving) \in Nat /\ queuedBytes \in Int
  BY CaptureAssumption, FS_Subset, FS_CardinalityType DEF Reserving
<1>1. Cardinality(InFlight') <= MaxInFlight
  BY StepInFlight DEF BudgetInv
<1>2. \A e \in Exchange : Size[e] \in Nat /\ Size[e] <= MaxSize
  BY CaptureAssumption, MaxSizeIsMax
<1>3. ASSUME Reserving' = Reserving, queuedBytes' \in Int, queuedBytes' <= queuedBytes
      PROVE  BudgetInv'
  <2>1. queuedBytes' <= Ceiling
    BY <1>0, <1>3, CeilingFacts DEF BudgetInv
  <2>2. ASSUME Reserving # {}
        PROVE  \E e \in Reserving : queuedBytes' + Size[e] + (Cardinality(Reserving) - 1) * MaxSize <= Ceiling
    <3>1. PICK e \in Reserving : queuedBytes + Size[e] + (Cardinality(Reserving) - 1) * MaxSize <= Ceiling
      BY <2>2 DEF BudgetInv
    <3> DEFINE m == (Cardinality(Reserving) - 1) * MaxSize
    <3>2. m \in Int
      BY <1>0, CeilingFacts
    <3>3. Size[e] \in Nat
      BY <1>0, <1>2
    <3> HIDE DEF m
    <3>4. \A q, p, a, b, C \in Int : p <= q /\ q + a + b <= C => p + a + b <= C
      OBVIOUS
    <3>5. queuedBytes + Size[e] + m <= Ceiling
      BY <3>1 DEF m
    <3>6. queuedBytes \in Int /\ queuedBytes' \in Int /\ Size[e] \in Int /\ Ceiling \in Int
      BY <1>0, <1>3, <3>3, CeilingFacts
    <3>7. queuedBytes' + Size[e] + m <= Ceiling
      BY ONLY <1>3, <3>2, <3>4, <3>5, <3>6
    <3>. QED  BY <3>7 DEF m
  <2>. QED  BY <1>1, <1>3, <2>1, <2>2 DEF BudgetInv
<1>4. ASSUME NEW e \in Exchange, CheckBudget(e), queuedBytes + Size[e] <= MaxBytes
      PROVE  BudgetInv'
  <2>1. Reserving' = Reserving \cup {e} /\ e \notin Reserving /\ queuedBytes' = queuedBytes
    BY <1>2, <1>4, CaptureAssumption DEF CheckBudget, Goto, Reserving
  <2> DEFINE n == Cardinality(Reserving)
             m == n * MaxSize
  <2>2. Cardinality(Reserving') = n + 1
    BY <1>0, <2>1, FS_AddElement
  <2>3. n + 1 <= MaxInFlight
    <3>1. Reserving' \subseteq InFlight'
      BY DEF Reserving, InFlight, InForward
    <3>2. IsFiniteSet(InFlight')
      <4>1. InFlight' \subseteq Exchange
        BY DEF InFlight
      <4>. QED  BY <4>1, FS_Subset, CaptureAssumption
    <3>3. Cardinality(Reserving') <= Cardinality(InFlight') /\ Cardinality(InFlight') \in Nat
      BY <3>1, <3>2, FS_Subset, FS_CardinalityType
    <3>. QED  BY <1>0, <1>1, <2>2, <3>3, CaptureAssumption
  <2>4. n \in Nat /\ n <= MaxInFlight - 1
    BY <1>0, <2>3, CaptureAssumption
  <2>5. MaxBytes + m <= Ceiling /\ m \in Nat
    BY <2>4, CeilingFacts, Multiples
  <2>6. (Cardinality(Reserving') - 1) * MaxSize = m
    BY <1>0, <2>2
  <2> HIDE DEF m
  <2>7. queuedBytes' + Size[e] + m <= Ceiling
    <3>1. \A q, a, b, c, C \in Int : q + a <= b /\ b + c <= C => q + a + c <= C
      OBVIOUS
    <3>2. queuedBytes \in Int /\ Size[e] \in Int /\ MaxBytes \in Int /\ m \in Int /\ Ceiling \in Int
      BY <1>0, <1>2, <2>5, CeilingFacts, CaptureAssumption
    <3>3. queuedBytes + Size[e] + m <= Ceiling
      BY ONLY <1>4, <2>5, <3>1, <3>2
    <3>. QED  BY <2>1, <3>3
  <2>8. queuedBytes' <= Ceiling
    BY <2>1 DEF BudgetInv
  <2>. QED  BY <1>1, <2>1, <2>6, <2>7, <2>8 DEF BudgetInv
<1>5. ASSUME NEW x \in Exchange, Reserve(x) PROVE BudgetInv'
  <2>1. /\ x \in Reserving /\ Reserving' = Reserving \ {x}
        /\ queuedBytes' = queuedBytes + Size[x]
    BY <1>5 DEF Reserve, Goto, Reserving
  <2> DEFINE n == Cardinality(Reserving')
             m == n * MaxSize
  <2>2. Cardinality(Reserving) = n + 1 /\ n \in Nat
    <3>1. Cardinality(Reserving \ {x}) = Cardinality(Reserving) - 1
      BY <1>0, <2>1, FS_RemoveElement
    <3>2. Cardinality(Reserving \ {x}) \in Nat
      BY <1>0, FS_Subset, FS_CardinalityType
    <3>. QED  BY <1>0, <2>1, <3>1, <3>2
  <2>3. PICK e \in Reserving : queuedBytes + Size[e] + (Cardinality(Reserving) - 1) * MaxSize <= Ceiling
    BY <2>1 DEF BudgetInv
  <2>4. /\ (Cardinality(Reserving) - 1) * MaxSize = m
        /\ m \in Nat
        /\ n # 0 => m = (n - 1) * MaxSize + MaxSize
    <3>1. m \in Nat
      BY <2>2, CeilingFacts, Multiples
    <3>2. ASSUME n # 0 PROVE m = (n - 1) * MaxSize + MaxSize
      <4>1. n - 1 \in Nat /\ (n - 1) + 1 = n
        BY <2>2, <3>2
      <4>. QED  BY <4>1, CeilingFacts, Multiples
    <3>. QED  BY <2>2, <3>1, <3>2
  <2>5. Size[e] \in Nat /\ Size[e] <= MaxSize /\ Size[x] \in Nat /\ Size[x] <= MaxSize
    BY <1>0, <1>2
  <2>6. n # 0 => m >= MaxSize /\ (n - 1) * MaxSize \in Nat
    <3>1. n # 0 => (n - 1) * MaxSize \in Nat
      <4>1. n # 0 => n - 1 \in Nat
        BY <2>2
      <4>. QED  BY <4>1, CeilingFacts, Multiples
    <3>. QED  BY <3>1, <2>4, CeilingFacts
  <2> HIDE DEF m
  <2>7. x = e \/ n # 0
    <3>1. ASSUME x # e PROVE e \in Reserving' /\ n # 0
      <4>1. e \in Reserving' /\ IsFiniteSet(Reserving')
        BY <1>0, <2>1, <3>1, FS_Subset
      <4>. QED  BY <4>1, FS_EmptySet
    <3>. QED  BY <3>1
  <2>8. queuedBytes' <= Ceiling
    <3>1. Size[x] <= Size[e] + m
      <4>1. CASE x = e
        BY <2>4, <2>5, <4>1
      <4>2. CASE n # 0
        BY <2>4, <2>5, <2>6, <4>2, CeilingFacts
      <4>. QED  BY <2>7, <4>1, <4>2
    <3>2. queuedBytes + Size[e] + m <= Ceiling
      BY <2>3, <2>4
    <3>3. queuedBytes \in Int /\ Size[e] \in Int /\ Size[x] \in Int /\ m \in Int /\ Ceiling \in Int
      BY <1>0, <2>4, <2>5, CeilingFacts
    <3>4. \A q, a, b, c, C \in Int : a <= b + c /\ q + b + c <= C => q + a <= C
      OBVIOUS
    <3>5. queuedBytes + Size[x] <= Ceiling
      BY ONLY <3>1, <3>2, <3>3, <3>4
    <3>. QED  BY <2>1, <3>5
  <2>9. ASSUME NEW y \in Reserving', x = e \/ y = e
        PROVE  queuedBytes' + Size[y] + (n - 1) * MaxSize <= Ceiling
    <3>1. Size[y] \in Nat /\ Size[y] <= MaxSize
      BY <1>0, <1>2, <2>1
    <3>2. n # 0
      <4>1. IsFiniteSet(Reserving')
        BY <1>0, <2>1, FS_Subset
      <4>. QED  BY <4>1, <2>9, FS_EmptySet
    <3> DEFINE k == (n - 1) * MaxSize
    <3>3. k \in Nat /\ m = k + MaxSize
      BY <2>4, <2>6, <3>2
    <3> HIDE DEF k, n
    <3>4. queuedBytes + Size[e] + m <= Ceiling
      BY <2>3, <2>4
    <3>5. queuedBytes' + Size[y] <= queuedBytes + Size[e] + MaxSize
      BY <1>0, <2>1, <2>5, <2>9, <3>1, CeilingFacts
    <3>6. queuedBytes' + Size[y] + k <= Ceiling
      <4>1. \A q, p, a, b, c, M, C \in Int :
              q + a <= p + b + M /\ p + b + (c + M) <= C => q + a + c <= C
        OBVIOUS
      <4>2. queuedBytes \in Int /\ queuedBytes' \in Int /\ Size[y] \in Int /\ Size[e] \in Int
            /\ k \in Int /\ MaxSize \in Int /\ Ceiling \in Int
        BY <1>0, <2>1, <2>5, <3>1, <3>3, CeilingFacts
      <4>3. queuedBytes + Size[e] + (k + MaxSize) <= Ceiling
        BY <3>3, <3>4
      <4>. QED  BY ONLY <3>5, <4>1, <4>2, <4>3
    <3>. QED  BY <3>6 DEF k
  <2>10. ASSUME Reserving' # {}
         PROVE  \E y \in Reserving' : queuedBytes' + Size[y] + (n - 1) * MaxSize <= Ceiling
    <3>1. CASE x = e
      BY <2>9, <2>10, <3>1
    <3>2. CASE x # e
      <4>1. e \in Reserving'
        BY <2>1, <3>2
      <4>. QED  BY <2>9, <4>1
    <3>. QED  BY <3>1, <3>2
  <2>. QED  BY <1>1, <2>8, <2>10 DEF BudgetInv
<1>6. ASSUME NEW e \in Exchange,
             \/ Arrive(e) \/ Served(e) \/ Aborted(e) \/ RLock(e) \/ CheckClosed(e)
             \/ (CheckBudget(e) /\ queuedBytes + Size[e] > MaxBytes)
             \/ Enqueue(e) \/ FindsFull(e) \/ Evict(e) \/ CountEvicted(e)
             \/ NothingToEvict(e) \/ RetryFails(e) \/ FinishDropped(e) \/ FinishSent(e)
             \/ Handled(e)
      PROVE  BudgetInv'
  <2>1. captures # <<>> => Size[Head(captures)] \in Nat
    BY HeadWaits, <1>2
  <2>2. queuedBytes' \in Int /\ queuedBytes' <= queuedBytes
    <3>1. CASE Evict(e)
      BY <1>0, <2>1, <3>1 DEF Evict, Release
    <3>2. CASE CheckClosed(e) \/ RetryFails(e) \/ Handled(e)
      BY <1>0, <1>2, <3>2 DEF CheckClosed, RetryFails, Handled, Release
    <3>3. CASE ~(Evict(e) \/ CheckClosed(e) \/ RetryFails(e) \/ Handled(e))
      BY <1>0, <1>6, <3>3 DEF Arrive, Served, Aborted, RLock, CheckBudget, Enqueue,
         FindsFull, CountEvicted, NothingToEvict, FinishDropped, FinishSent
    <3>. QED  BY <3>1, <3>2, <3>3
  <2>3. /\ pc' = pc \/ (pc[e] # "reserve" /\ pc'[e] # "reserve")
        /\ \A x \in Exchange : x # e => pc'[x] = pc[x]
    BY <1>6, <1>2 DEF Arrive, Served, Aborted, RLock, CheckBudget, CheckClosed, Enqueue,
       FindsFull, Evict, CountEvicted, NothingToEvict, RetryFails, FinishDropped,
       FinishSent, Handled, Goto, NotStarted
  <2>4. Reserving' = Reserving
    BY <2>3 DEF Reserving
  <2>. QED  BY <1>3, <2>2, <2>4
<1>7. CASE Take \/ CloseStart \/ CloseChannel \/ UNCHANGED vars
  <2>1. UNCHANGED <<pc, queuedBytes>>
    BY <1>7 DEF Take, CloseStart, CloseChannel, vars
  <2>. QED  BY <1>0, <1>3, <2>1 DEF Reserving
<1>8. \A e \in Exchange : queuedBytes + Size[e] <= MaxBytes \/ queuedBytes + Size[e] > MaxBytes
  BY <1>0, <1>2, CaptureAssumption
<1>. QED
  BY <1>4, <1>5, <1>6, <1>7, <1>8 DEF Next, Forward, Capture, Record

-----------------------------------------------------------------------------
(* The counters.                                                             *)

\* How many exchanges f has at w.
Tally(f, w) == Cardinality({x \in Exchange : f[x] = w})

LEMMA TallyIsNat == \A f, w : Tally(f, w) \in Nat
<1> SUFFICES ASSUME NEW f, NEW w PROVE Tally(f, w) \in Nat
  OBVIOUS
<1>1. {x \in Exchange : f[x] = w} \subseteq Exchange
  OBVIOUS
<1>. QED  BY <1>1, FS_Subset, FS_CardinalityType, CaptureAssumption DEF Tally

\* When one exchange changes its place, its old place counts one less, its
\* new one counts one more, and no other place changes.
\* g is f but for e.
SameBut(f, g, e) == \A x \in Exchange : x # e => g[x] = f[x]

LEMMA Moves ==
  ASSUME NEW f, NEW g, NEW e \in Exchange, f[e] # g[e], SameBut(f, g, e)
  PROVE  /\ Tally(g, g[e]) = Tally(f, g[e]) + 1
         /\ Tally(g, f[e]) = Tally(f, f[e]) - 1
         /\ \A w : w # g[e] /\ w # f[e] => Tally(g, w) = Tally(f, w)
<1> USE DEF SameBut
<1> DEFINE A(h, w) == {x \in Exchange : h[x] = w}
<1>1. \A w : IsFiniteSet(A(f, w))
  <2>1. \A w : A(f, w) \subseteq Exchange
    OBVIOUS
  <2>. QED  BY <2>1, FS_Subset, CaptureAssumption
<1>2. A(g, g[e]) = A(f, g[e]) \cup {e} /\ e \notin A(f, g[e])
  OBVIOUS
<1>3. A(g, f[e]) = A(f, f[e]) \ {e} /\ e \in A(f, f[e])
  OBVIOUS
<1>4. ASSUME NEW w, w # g[e], w # f[e] PROVE A(g, w) = A(f, w)
  BY <1>4
<1>5. \A h, w : Tally(h, w) = Cardinality(A(h, w))
  BY DEF Tally
<1> HIDE DEF A
<1>6. Tally(g, g[e]) = Tally(f, g[e]) + 1
  BY <1>1, <1>2, <1>5, FS_AddElement
<1>7. Tally(g, f[e]) = Tally(f, f[e]) - 1
  BY <1>1, <1>3, <1>5, FS_RemoveElement
<1>8. \A w : w # g[e] /\ w # f[e] => Tally(g, w) = Tally(f, w)
  BY <1>4, <1>5
<1>. QED  BY <1>6, <1>7, <1>8

\* EveryCaptureCounted, in this state and in the next.
LEMMA Balance ==
  /\ EveryCaptureCounted <=>
       /\ queuedCount + Tally(pc, "sent")
            = Tally(fate, "waiting") + Tally(fate, "taken") + Tally(fate, "evicted")
       /\ drops["captures"] + drops["webhooks"]
              + Tally(pc, "drop") + Tally(pc, "evicted") + Tally(pc, "aborted")
            = Tally(fate, "refused") + Tally(fate, "evicted")
  /\ EveryCaptureCounted' <=>
       /\ queuedCount' + Tally(pc', "sent")
            = Tally(fate', "waiting") + Tally(fate', "taken") + Tally(fate', "evicted")
       /\ drops'["captures"] + drops'["webhooks"]
              + Tally(pc', "drop") + Tally(pc', "evicted") + Tally(pc', "aborted")
            = Tally(fate', "refused") + Tally(fate', "evicted")
  BY DEF EveryCaptureCounted, At, Count, Tally

\* Each step moves both sides of the two balances by the same amount.
LEMMA StepEveryCaptureCounted ==
  IInv /\ EveryCaptureCounted /\ [Next]_vars => EveryCaptureCounted'
<1> SUFFICES ASSUME IInv, EveryCaptureCounted, [Next]_vars PROVE EveryCaptureCounted'
  OBVIOUS
<1>0. /\ pc \in [Exchange -> Steps]
      /\ fate \in [Exchange -> {"none", "waiting", "evicted", "refused", "taken"}]
      /\ drops \in [Kinds -> Nat]
      /\ \A e \in Exchange : pc[e] \in BeforeFate => fate[e] = "none"
  BY DEF IInv, TypeOK, FateInv
<1>5. /\ queuedCount \in Nat /\ drops["captures"] \in Nat /\ drops["webhooks"] \in Nat
      /\ \A w : Tally(fate, w) \in Nat /\ Tally(pc, w) \in Nat
  BY TallyIsNat DEF Kinds, IInv, TypeOK
<1>6. ASSUME NEW e \in Exchange, Drop(e)
      PROVE  drops'["captures"] + drops'["webhooks"] = drops["captures"] + drops["webhooks"] + 1
  BY <1>0, <1>5, <1>6 DEF Drop, Kind, Kinds
<1>7. ASSUME NEW e \in Exchange,
             Arrive(e) \/ Served(e) \/ Reserve(e) \/ RLock(e) \/ FindsFull(e) \/ NothingToEvict(e)
             \/ (CheckBudget(e) /\ pc'[e] = "reserve") \/ (CheckClosed(e) /\ ~closed)
      PROVE  EveryCaptureCounted'
  <2>1. PICK to \in {"serving", "check", "reserve", "lock", "locked", "open", "full", "retry"} :
          pc'[e] = to /\ SameBut(pc, pc', e) /\ pc[e] # to
    BY <1>0, <1>7 DEF Arrive, Served, Reserve, RLock, FindsFull, NothingToEvict, CheckBudget,
       CheckClosed, Goto, SameBut, NotStarted
  <2>2. pc[e] \notin {"sent", "drop", "evicted", "aborted"}
    BY <1>0, <1>7 DEF Arrive, Served, Reserve, RLock, FindsFull, NothingToEvict, CheckBudget,
       CheckClosed, Goto, SameBut, NotStarted
  <2>3. UNCHANGED <<fate, queuedCount, drops>>
    BY <1>0, <1>7 DEF Arrive, Served, Reserve, RLock, FindsFull, NothingToEvict, CheckBudget,
       CheckClosed, Goto, SameBut, NotStarted
  <2>4. \A w \in {"sent", "drop", "evicted", "aborted"} : Tally(pc', w) = Tally(pc, w)
    BY <1>0, <2>1, <2>2, Moves
  <2>. QED  BY Balance, <2>3, <2>4
\* An exchange is lost: its handler will count it, or the upstream broke off.
<1>8. ASSUME NEW e \in Exchange, NEW to \in {"drop", "aborted"},
             pc[e] \notin {"sent", "drop", "evicted", "aborted"}, fate[e] = "none",
             pc'[e] = to /\ SameBut(pc, pc', e), fate'[e] = "refused" /\ SameBut(fate, fate', e),
             UNCHANGED <<queuedCount, drops>>
      PROVE  EveryCaptureCounted'
  <2>1. /\ Tally(pc', "drop") + Tally(pc', "aborted") = Tally(pc, "drop") + Tally(pc, "aborted") + 1
        /\ Tally(pc', "sent") = Tally(pc, "sent") /\ Tally(pc', "evicted") = Tally(pc, "evicted")
    BY <1>0, <1>5, <1>8, Moves
  <2>2. /\ Tally(fate', "refused") = Tally(fate, "refused") + 1 /\ Tally(fate', "evicted") = Tally(fate, "evicted")
        /\ Tally(fate', "waiting") = Tally(fate, "waiting") /\ Tally(fate', "taken") = Tally(fate, "taken")
    BY <1>0, <1>8, Moves
  <2>. QED  BY Balance, <1>5, <1>8, <2>1, <2>2, TallyIsNat
<1>9. ASSUME NEW e \in Exchange,
             Aborted(e) \/ RetryFails(e) \/ (CheckBudget(e) /\ pc'[e] # "reserve")
             \/ (CheckClosed(e) /\ closed)
      PROVE  EveryCaptureCounted'
  <2>1. fate[e] = "none" /\ pc[e] \notin {"sent", "drop", "evicted", "aborted"}
    BY <1>0, <1>9 DEF Aborted, RetryFails, CheckBudget, CheckClosed, BeforeFate
  <2>2. \E to \in {"drop", "aborted"} : pc'[e] = to /\ SameBut(pc, pc', e)
    BY <1>0, <1>9 DEF Aborted, RetryFails, CheckBudget, CheckClosed, Goto, SameBut
  <2>3. fate'[e] = "refused" /\ SameBut(fate, fate', e) /\ UNCHANGED <<queuedCount, drops>>
    BY <1>0, <1>9 DEF Aborted, RetryFails, CheckBudget, CheckClosed, Goto, SameBut
  <2>. QED  BY <1>8, <2>1, <2>2, <2>3
<1>10. ASSUME NEW e \in Exchange, Enqueue(e) PROVE EveryCaptureCounted'
  <2>1. /\ fate[e] = "none" /\ pc[e] \in {"open", "retry"}
        /\ pc'[e] = "sent" /\ SameBut(pc, pc', e) /\ fate'[e] = "waiting" /\ SameBut(fate, fate', e)
        /\ UNCHANGED <<queuedCount, drops>>
    BY <1>0, <1>10 DEF Enqueue, Goto, SameBut, BeforeFate
  <2>2. /\ Tally(pc', "sent") = Tally(pc, "sent") + 1 /\ Tally(pc', "drop") = Tally(pc, "drop")
        /\ Tally(pc', "evicted") = Tally(pc, "evicted") /\ Tally(pc', "aborted") = Tally(pc, "aborted")
    BY <1>0, <2>1, Moves
  <2>3. /\ Tally(fate', "waiting") = Tally(fate, "waiting") + 1 /\ Tally(fate', "taken") = Tally(fate, "taken")
        /\ Tally(fate', "evicted") = Tally(fate, "evicted") /\ Tally(fate', "refused") = Tally(fate, "refused")
    BY <1>0, <2>1, Moves
  <2>. QED  BY Balance, <1>5, <2>1, <2>2, <2>3
<1>11. ASSUME NEW e \in Exchange, Evict(e) PROVE EveryCaptureCounted'
  <2> DEFINE h == Head(captures)
  <2>1. /\ h \in Exchange /\ fate[h] = "waiting" /\ pc[e] = "full"
        /\ pc'[e] = "evicted" /\ SameBut(pc, pc', e) /\ fate'[h] = "evicted" /\ SameBut(fate, fate', h)
        /\ UNCHANGED <<queuedCount, drops>>
    BY <1>0, <1>11, HeadWaits DEF Evict, Goto, SameBut
  <2> HIDE DEF h
  <2>2. /\ Tally(pc', "evicted") = Tally(pc, "evicted") + 1 /\ Tally(pc', "drop") = Tally(pc, "drop")
        /\ Tally(pc', "sent") = Tally(pc, "sent") /\ Tally(pc', "aborted") = Tally(pc, "aborted")
    BY <1>0, <2>1, Moves
  <2>3. /\ Tally(fate', "waiting") = Tally(fate, "waiting") - 1 /\ Tally(fate', "taken") = Tally(fate, "taken")
        /\ Tally(fate', "evicted") = Tally(fate, "evicted") + 1 /\ Tally(fate', "refused") = Tally(fate, "refused")
    BY <1>0, <2>1, Moves
  <2>. QED  BY Balance, <1>5, <2>1, <2>2, <2>3
<1>12. CASE Take
  <2> DEFINE h == Head(captures)
  <2>1. /\ h \in Exchange /\ fate[h] = "waiting" /\ fate'[h] = "taken" /\ SameBut(fate, fate', h)
        /\ UNCHANGED <<pc, queuedCount, drops>>
    BY <1>0, <1>12, HeadWaits DEF Take, SameBut
  <2> HIDE DEF h
  <2>2. /\ Tally(fate', "waiting") = Tally(fate, "waiting") - 1 /\ Tally(fate', "taken") = Tally(fate, "taken") + 1
        /\ Tally(fate', "evicted") = Tally(fate, "evicted") /\ Tally(fate', "refused") = Tally(fate, "refused")
    BY <1>0, <2>1, Moves
  <2>. QED  BY Balance, <1>5, <2>1, <2>2
<1>13. ASSUME NEW e \in Exchange, CountEvicted(e) \/ FinishDropped(e) PROVE EveryCaptureCounted'
  <2>1. /\ pc[e] \in {"evicted", "drop"} /\ Drop(e) /\ UNCHANGED <<fate, queuedCount>>
        /\ \E to \in {"retry", "done"} : pc'[e] = to /\ SameBut(pc, pc', e)
    BY <1>0, <1>13 DEF CountEvicted, FinishDropped, Goto, SameBut
  <2>2. /\ Tally(pc', "evicted") + Tally(pc', "drop") = Tally(pc, "evicted") + Tally(pc, "drop") - 1
        /\ Tally(pc', "sent") = Tally(pc, "sent") /\ Tally(pc', "aborted") = Tally(pc, "aborted")
    BY <1>0, <1>5, <2>1, Moves
  <2>3. drops'["captures"] + drops'["webhooks"] = drops["captures"] + drops["webhooks"] + 1
    BY <1>6, <2>1
  <2>. QED  BY Balance, <1>5, <2>1, <2>2, <2>3, TallyIsNat
<1>14. ASSUME NEW e \in Exchange, FinishSent(e) PROVE EveryCaptureCounted'
  <2>1. /\ pc[e] = "sent" /\ pc'[e] = "done" /\ SameBut(pc, pc', e)
        /\ queuedCount' = queuedCount + 1 /\ UNCHANGED <<fate, drops>>
    BY <1>0, <1>14 DEF FinishSent, Goto, SameBut
  <2>2. /\ Tally(pc', "sent") = Tally(pc, "sent") - 1 /\ Tally(pc', "drop") = Tally(pc, "drop")
        /\ Tally(pc', "evicted") = Tally(pc, "evicted") /\ Tally(pc', "aborted") = Tally(pc, "aborted")
    BY <1>0, <2>1, Moves
  <2>. QED  BY Balance, <1>5, <2>1, <2>2
<1>15. CASE (\E e \in Exchange : Handled(e)) \/ CloseStart \/ CloseChannel \/ UNCHANGED vars
  <2>1. UNCHANGED <<pc, fate, queuedCount, drops>>
    BY <1>15 DEF Handled, CloseStart, CloseChannel, vars
  <2>. QED  BY Balance, <2>1
<1>. QED
  BY <1>7, <1>9, <1>10, <1>11, <1>12, <1>13, <1>14, <1>15
     DEF Next, Forward, Capture, Record

-----------------------------------------------------------------------------
\* Nothing is reserved, queued or counted at first.
LEMMA InitBooks == Init => CurrentInv /\ ByteAccounting /\ BudgetInv /\ EveryCaptureCounted
<1> SUFFICES ASSUME Init PROVE CurrentInv /\ ByteAccounting /\ BudgetInv /\ EveryCaptureCounted
  OBVIOUS
<1> USE DEF Init, NotStarted
<1>1. CurrentInv
  BY DEF CurrentInv
<1>2. ByteAccounting
  <2>1. Holders = {}
    BY DEF Holders
  <2>2. SumFunctionOnSet(Size, {}) = 0
    BY SumFacts, CaptureAssumption
  <2>. QED  BY <2>1, <2>2 DEF ByteAccounting
<1>3. BudgetInv
  <2>1. InFlight = {} /\ Reserving = {}
    BY DEF InFlight, InForward, Reserving
  <2>2. Cardinality({}) = 0
    BY FS_EmptySet
  <2>. QED  BY <2>1, <2>2, CeilingFacts, CaptureAssumption DEF BudgetInv
<1>4. EveryCaptureCounted
  <2>1. \A w \in {"sent", "drop", "evicted", "aborted"} : {x \in Exchange : pc[x] = w} = {}
    OBVIOUS
  <2>2. \A w \in {"waiting", "taken", "evicted", "refused"} : {x \in Exchange : fate[x] = w} = {}
    OBVIOUS
  <2>3. Cardinality({}) = 0
    BY FS_EmptySet
  <2>4. /\ At("sent") = 0 /\ At("drop") = 0 /\ At("evicted") = 0 /\ At("aborted") = 0
        /\ Count("waiting") = 0 /\ Count("taken") = 0 /\ Count("evicted") = 0 /\ Count("refused") = 0
    BY <2>1, <2>2, <2>3 DEF At, Count
  <2>. QED  BY <2>4 DEF EveryCaptureCounted, Kinds
<1>. QED  BY <1>1, <1>2, <1>3, <1>4

-----------------------------------------------------------------------------
\* Every variable keeps its type and the channel never exceeds its capacity,
\* whatever the number of handlers (proxy.New's captures channel).
THEOREM TypeCorrect == Spec => []TypeOK
<1>1. IInv => TypeOK
  BY DEF IInv
<1>. QED  BY InitIInv, StepIInv, <1>1, PTL DEF Spec

\* No handler ever sends on, or receives an eviction from, a channel that
\* Server.Close has closed: closeMu and the closed flag are enough.
THEOREM SendsOnlyWhileOpen == Spec => []NoSendAfterClose
<1>1. IInv => NoSendAfterClose
  BY DEF IInv
<1>. QED  BY InitIInv, StepIInv, <1>1, PTL DEF Spec

\* maxCaptureBytes (proxy.go) bounds the bytes that wait, whatever the sizes
\* and however the handlers race: queuedBytes is always exactly what the
\* reserved captures weigh, and it exceeds the budget by at most one body for
\* every other handler that runs.
THEOREM BudgetIsKept == Spec => []BudgetKept
<1>1. BudgetInv => BudgetOvershoot
  BY DEF BudgetInv, BudgetOvershoot, Ceiling
<1>. QED
  BY InitIInv, InitBooks, StepIInv, StepCurrentInv, StepByteAccounting, StepBudgetInv,
     <1>1, PTL DEF Spec, BudgetKept

\* No capture leaves the books: CapturesQueued counts what was sent, and
\* CapturesDropped and WebhooksDropped what was lost, evicted captures
\* included, up to the handlers that are about to count.
THEOREM CountersAreComplete == Spec => []EveryCaptureCounted
  BY InitIInv, InitBooks, StepIInv, StepEveryCaptureCounted, PTL DEF Spec

\* A step of the hand-over is a step of the lossy queue, or changes nothing
\* the lossy queue sees.
LEMMA StepRefines == IInv /\ [Next]_vars => [Lossy!Next]_(Lossy!vars)
<1> USE DEF Lossy!Next, Lossy!vars, Lossy!Enqueue, Lossy!Refuse, Lossy!Leave,
        Lossy!EvictOldest, Lossy!Take, Lossy!CloseQueue
<1> SUFFICES ASSUME IInv, [Next]_vars PROVE [Lossy!Next]_(Lossy!vars)
  OBVIOUS
<1> USE DEF IInv, FateInv, BeforeFate, NoSendAfterClose, TypeOK
<1>1. ASSUME NEW e \in Exchange, Aborted(e) \/ CheckBudget(e) \/ CheckClosed(e) \/ RetryFails(e)
      PROVE  [Lossy!Next]_(Lossy!vars)
  <2>1. fate[e] = "none"
    BY <1>1 DEF Aborted, CheckBudget, CheckClosed, RetryFails
  <2>. QED  BY <1>1, <2>1 DEF Aborted, CheckBudget, CheckClosed, RetryFails, closed
<1>2. ASSUME NEW e \in Exchange, Enqueue(e) PROVE [Lossy!Next]_(Lossy!vars)
  BY <1>2 DEF Enqueue, closed
<1>3. ASSUME NEW e \in Exchange, Evict(e) PROVE [Lossy!Next]_(Lossy!vars)
  BY <1>3 DEF Evict, closed
<1>4. CASE Take
  BY <1>4 DEF Take, closed
<1>5. CASE CloseChannel
  BY <1>5 DEF CloseChannel, closed
<1>6. CASE \/ \E e \in Exchange : \/ Arrive(e) \/ Served(e) \/ Reserve(e) \/ RLock(e)
                                  \/ FindsFull(e) \/ CountEvicted(e)
                                  \/ NothingToEvict(e) \/ FinishDropped(e)
                                  \/ FinishSent(e) \/ Handled(e)
           \/ CloseStart \/ UNCHANGED vars
  BY <1>6 DEF Arrive, Served, Reserve, RLock, FindsFull, CountEvicted,
     NothingToEvict, FinishDropped, FinishSent, Handled, CloseStart, vars, closed
<1>. QED
  BY <1>1, <1>2, <1>3, <1>4, <1>5, <1>6 DEF Next, Forward, Capture, Record

\* The handlers, locks, retries and counters together behave like one bounded
\* FIFO that loses items but never reorders or duplicates them and accepts
\* nothing after Close.
THEOREM RefinesLossyQueue == Spec => ImplementsLossyQueue
<1>1. Init => Lossy!Init
  BY DEF Init, Lossy!Init, closed
<1>. QED  BY <1>1, InitIInv, StepIInv, StepRefines, PTL DEF Spec, Lossy!Spec, ImplementsLossyQueue

-----------------------------------------------------------------------------
(* The log.                                                                  *)

\* A log as a value: what the methods take and return.
LogType ==
  [main : Seq(LogRecord), prev : Seq(LogRecord), handle : {"closed", "open", "dead", "nil"},
   size : Nat, genStart : Int \cup {NoTime}, err : BOOLEAN]

\* A log without a file is empty and young.
NilEmpty(l) == l.handle = "nil" => l.main = <<>> /\ l.size = 0 /\ l.genStart = NoTime

\* The records are numbered without a gap up to n.
UpTo(s, n) == \A i \in 1..Len(s) : s[i].id = n - Len(s) + i

\* The n-th record appended is the last one of main, and so on backwards.
Numbered(l, n) == UpTo(l.main, n) /\ UpTo(l.prev, n - Len(l.main))

Rising(s) == \A i, j \in 1..Len(s) : i <= j => s[i].born <= s[j].born
Past(s, t) == \A i \in 1..Len(s) : s[i].ts <= s[i].born /\ s[i].born <= t
Before(p, m) == \A i \in 1..Len(p), j \in 1..Len(m) : p[i].born <= m[j].born

\* Records lie in the order of their birth, and a generation that is open
\* started no later than its first record was born.
Ordered(l, t) ==
  /\ Rising(l.main) /\ Rising(l.prev) /\ Past(l.main, t) /\ Past(l.prev, t)
  /\ Before(l.prev, l.main)
  /\ l.genStart # NoTime => l.genStart <= t
  /\ l.handle # "closed" /\ l.main # <<>> =>
       l.genStart # NoTime /\ l.genStart <= l.main[1].born

\* Neither generation exceeds the cap; size is never less than what is there.
Sized(l) ==
  /\ Weight(l.main) <= MaxLogBytes /\ Weight(l.prev) <= MaxLogBytes
  /\ l.handle # "closed" => Weight(l.main) <= l.size

LogInv(l, t, n) ==
  l \in LogType /\ NilEmpty(l) /\ Numbered(l, n) /\ Ordered(l, t) /\ Sized(l)

-----------------------------------------------------------------------------
(* The length of a file.                                                     *)

\* Weight is a fold: a record's length is added to that of the others.
Longer(r, sum) == r.weight + sum
SomeLength(s) == CHOOSE x \in s : TRUE
Lengths == INSTANCE FoldLemmas WITH Op <- Longer, Base <- 0, Pick <- SomeLength

LEMMA LogFinite == \A S : IsFiniteSet(S) => Lengths!IsFiniteSet(S)
BY DEF IsFiniteSet, Lengths!IsFiniteSet

LEMMA WeightIsFold ==
  ASSUME NEW s \in Seq(LogRecord)
  PROVE  /\ Weight(s) = Lengths!Fold(s, 1..Len(s)) /\ s \in [1..Len(s) -> LogRecord]
         /\ Lengths!IsFiniteSet(1..Len(s)) /\ Lengths!Picks(1..Len(s))
<1>1. DOMAIN s = 1..Len(s) /\ s \in [1..Len(s) -> LogRecord] /\ IsFiniteSet(1..Len(s))
  BY FS_Interval
<1>2. Weight(s) = Lengths!Fold(s, DOMAIN s)
  BY DEF Weight, FoldFunction, FoldFunctionOnSet, MapThenFoldSet, Lengths!Fold,
         Lengths!MapThenFoldSet, Longer, SomeLength
<1>3. Lengths!Picks(1..Len(s))
  BY DEF Lengths!Picks, SomeLength
<1>. QED  BY <1>1, <1>2, <1>3, LogFinite

LEMMA LogRecordFacts ==
  \A r \in LogRecord : /\ r.weight \in Nat /\ r.weight > 0 /\ r.weight <= MaxLogBytes
                   /\ r.id \in Nat /\ r.ts \in Int /\ r.born \in Nat
<1>1. \A w \in Weights : w \in Nat /\ w > 0 /\ w <= MaxLogBytes
  BY NdjsonAssumption
<1>2. \A r \in LogRecord : r.weight \in Weights /\ r.id \in Nat /\ r.ts \in Int /\ r.born \in Nat
  BY DEF LogRecord
<1>. QED  BY <1>1, <1>2

LEMMA WeightFacts ==
  /\ Weight(<<>>) = 0
  /\ \A s \in Seq(LogRecord) :
       /\ Weight(s) \in Nat
       /\ s # <<>> => Weight(s) > 0
       /\ \A r \in LogRecord : Weight(Append(s, r)) = Weight(s) + r.weight
<1>0. ASSUME NEW s \in Seq(LogRecord)
      PROVE  /\ Lengths!Fold(s, {}) = 0
             /\ \A T \in SUBSET (1..Len(s)) :
                  /\ Lengths!Fold(s, T) \in Nat
                  /\ \A i \in T : Lengths!Fold(s, T) = s[i].weight + Lengths!Fold(s, T \ {i})
  <2> DEFINE D == 1..Len(s)
  <2>1. s \in [D -> LogRecord] /\ Lengths!IsFiniteSet(D) /\ Lengths!Picks(D)
    BY WeightIsFold
  <2>2. Lengths!Commutes(LogRecord, Nat)
    BY LogRecordFacts DEF Lengths!Commutes, Longer
  <2> HIDE DEF D
  <2>3. /\ Lengths!Fold(s, {}) = 0
        /\ \A T \in SUBSET D :
             /\ Lengths!Fold(s, T) \in Nat
             /\ \A i \in T : Lengths!Fold(s, T) = Longer(s[i], Lengths!Fold(s, T \ {i}))
    BY <2>1, <2>2, Lengths!FoldFacts
  <2>. QED  BY <2>3 DEF D, Longer
<1>1. Weight(<<>>) = 0
  <2>1. <<>> \in Seq(LogRecord) /\ 1..Len(<<>>) = {}
    OBVIOUS
  <2>. QED  BY <1>0, <2>1, WeightIsFold
<1>2. ASSUME NEW s \in Seq(LogRecord)
      PROVE  Weight(s) \in Nat /\ (s # <<>> => Weight(s) > 0)
  <2> DEFINE D == 1..Len(s)
  <2>1. Weight(s) = Lengths!Fold(s, D)
    BY WeightIsFold
  <2>2. s # <<>> => 1 \in D /\ s[1] \in LogRecord
    OBVIOUS
  <2> HIDE DEF D
  <2>3. \A T \in SUBSET D : /\ Lengths!Fold(s, T) \in Nat
                            /\ \A i \in T : Lengths!Fold(s, T) = s[i].weight + Lengths!Fold(s, T \ {i})
    BY <1>0 DEF D
  <2>4. D \in SUBSET D /\ D \ {1} \in SUBSET D
    OBVIOUS
  <2>5. s # <<>> => Weight(s) = s[1].weight + Lengths!Fold(s, D \ {1})
    BY <2>1, <2>2, <2>3, <2>4
  <2>6. Weight(s) \in Nat /\ Lengths!Fold(s, D \ {1}) \in Nat
    BY <2>1, <2>3, <2>4
  <2>7. s # <<>> => s[1].weight \in Nat /\ s[1].weight > 0
    BY <2>2, LogRecordFacts
  <2>. QED  BY <2>5, <2>6, <2>7
<1>3. ASSUME NEW s \in Seq(LogRecord), NEW r \in LogRecord
      PROVE  Weight(Append(s, r)) = Weight(s) + r.weight
  <2> DEFINE q == Append(s, r)
             n == Len(s)
             D == 1..n
             E == 1..(n + 1)
  <2>1. q \in Seq(LogRecord) /\ Len(q) = n + 1 /\ n \in Nat /\ q[n + 1] = r
        /\ \A i \in D : s[i] = q[i]
    OBVIOUS
  <2>2. /\ Weight(s) = Lengths!Fold(s, D) /\ Weight(q) = Lengths!Fold(q, E)
        /\ Lengths!IsFiniteSet(D) /\ Lengths!Picks(D)
    BY <2>1, WeightIsFold
  <2>3. \A T \in SUBSET E : \A i \in T : Lengths!Fold(q, T) = q[i].weight + Lengths!Fold(q, T \ {i})
    BY <1>0, <2>1
  <2>4. E \ {n + 1} = D /\ n + 1 \in E /\ E \in SUBSET E
    BY <2>1
  <2> HIDE DEF q, D, E, n
  <2>5. Lengths!Fold(s, D) = Lengths!Fold(q, D)
    BY <2>1, <2>2, Lengths!FoldCongruence
  <2>6. Weight(q) = r.weight + Weight(s)
    BY <2>1, <2>2, <2>3, <2>4, <2>5
  <2>7. Weight(s) \in Nat /\ r.weight \in Nat
    BY <1>2, LogRecordFacts
  <2>. QED  BY <2>6, <2>7 DEF q
<1>. QED  BY <1>1, <1>2, <1>3

LEMMA ElementFacts ==
  ASSUME NEW s \in Seq(LogRecord), NEW i \in 1..Len(s)
  PROVE  s[i] \in LogRecord /\ s[i].id \in Nat /\ s[i].born \in Nat /\ s[i].ts \in Int
<1>1. s[i] \in LogRecord
  OBVIOUS
<1>. QED  BY <1>1, LogRecordFacts

LEMMA LogAppendFacts ==
  ASSUME NEW s \in Seq(LogRecord), NEW r \in LogRecord, NEW m, m = Append(s, r)
  PROVE  /\ m \in Seq(LogRecord) /\ Len(s) \in Nat /\ Len(m) = Len(s) + 1
         /\ \A i \in 1..Len(s) : m[i] = s[i]
         /\ \A i \in 1..Len(m) : i \in 1..Len(s) \/ (i = Len(s) + 1 /\ m[i] = r)
OBVIOUS

\* A record that is born now, with the next number, goes on with the log.
LEMMA AppendKeeps ==
  ASSUME NEW t \in Nat, NEW n \in Nat, NEW s \in Seq(LogRecord), NEW p \in Seq(LogRecord),
         NEW r \in LogRecord, r.id = n + 1, r.born = t, r.ts <= t, NEW m, m = Append(s, r),
         Rising(s), Past(s, t), Past(p, t), Before(p, s),
         UpTo(s, n), UpTo(p, n - Len(s))
  PROVE  /\ Rising(m) /\ Past(m, t) /\ Before(p, m)
         /\ UpTo(m, n + 1) /\ UpTo(p, (n + 1) - Len(m))
<1> DEFINE k == Len(s)
           c == Len(m)
<1>1. k \in Nat /\ c = k + 1 /\ \A i \in 1..k : m[i] = s[i]
  BY LogAppendFacts
<1>2. \A i \in 1..c : i \in 1..k \/ (i = k + 1 /\ m[i] = r)
  BY LogAppendFacts
<1>3. \A i \in 1..k : s[i].born \in Nat /\ s[i].born <= t /\ s[i].ts <= s[i].born
  BY ElementFacts DEF Past
<1>4. \A i \in 1..Len(p) : p[i].born <= t
  BY DEF Past
<1>5. \A i, j \in 1..k : i <= j => s[i].born <= s[j].born
  BY DEF Rising
<1>6. \A i \in 1..Len(p), j \in 1..k : p[i].born <= s[j].born
  BY DEF Before
<1>7. (\A i \in 1..k : s[i].id = n - k + i) /\ (\A i \in 1..Len(p) : p[i].id = n - k - Len(p) + i)
  BY DEF UpTo
<1>8. Len(p) \in Nat
  OBVIOUS
<1> HIDE DEF k, c
<1>9. t <= t
  OBVIOUS
<1>10. \A i \in 1..c : m[i].ts <= m[i].born /\ m[i].born <= t
  BY <1>1, <1>2, <1>3, <1>9
<1>11. \A i, j \in 1..c : i <= j => m[i].born <= m[j].born
  <2> SUFFICES ASSUME NEW i \in 1..c, NEW j \in 1..c, i <= j  PROVE  m[i].born <= m[j].born
    OBVIOUS
  <2>1. CASE j \in 1..k
    <3>1. i \in 1..k
      BY <1>1, <2>1
    <3>. QED  BY <1>1, <1>5, <2>1, <3>1
  <2>2. CASE m[j] = r
    BY <1>10, <2>2
  <2>. QED  BY <1>2, <2>1, <2>2
<1>12. \A i \in 1..Len(p), j \in 1..c : p[i].born <= m[j].born
  BY <1>1, <1>2, <1>4, <1>6
<1>13. \A i \in 1..c : m[i].id = (n + 1) - c + i
  <2>1. \A i \in 1..k : m[i].id = (n + 1) - c + i
    <3>1. \A i \in 1..k : n - k + i = (n + 1) - c + i
      BY <1>1
    <3>. QED  BY <1>1, <1>7, <3>1
  <2>2. n + 1 = (n + 1) - c + (k + 1)
    BY <1>1
  <2>. QED  BY <1>2, <2>1, <2>2
<1>14. \A i \in 1..Len(p) : p[i].id = (n + 1) - c - Len(p) + i
  <2>1. \A i \in 1..Len(p) : n - k - Len(p) + i = (n + 1) - c - Len(p) + i
    BY <1>1, <1>8
  <2>. QED  BY <1>7, <2>1
<1>. QED  BY <1>10, <1>11, <1>12, <1>13, <1>14 DEF Past, Rising, Before, UpTo, c

-----------------------------------------------------------------------------
(* The methods, on a log as a value.                                         *)

\* What rotateLocked leaves: path moved to path.1 and a new path, opened or
\* not, or path.1 gone and path as it was.
LEMMA RotateCases ==
  ASSUME NEW l \in LogType, NEW k \in RotateLocked(l)
  PROVE  /\ k \in LogType
         /\ \/ /\ k.main = <<>> /\ k.prev = l.main /\ k.size = 0 /\ k.genStart = NoTime
               /\ \/ k.handle = "open" /\ k.err = l.err
                  \/ k.handle = "nil" /\ k.err
            \/ /\ k.main = l.main /\ k.prev = <<>> /\ k.size = l.size /\ k.genStart = l.genStart
               /\ k.handle \in {"open", "dead"} /\ k.err
<1> USE DEF LogType, Rotated, NotRenamed, NotReopened
<1>0. <<>> \in Seq(LogRecord) /\ 0 \in Nat
  OBVIOUS
<1>1. CASE k = [Rotated(l) EXCEPT !.handle = "open"]
  BY <1>0, <1>1
<1>2. CASE k = NotRenamed(l, "open") \/ k = NotRenamed(l, "dead")
  BY <1>0, <1>2
<1>3. CASE k = NotReopened(l)
  BY <1>0, <1>3
<1>. QED  BY <1>1, <1>2, <1>3 DEF RotateLocked

\* A rotation keeps the invariant, whatever fails.
LEMMA RotateKeeps ==
  ASSUME NEW t \in Nat, NEW n \in Nat, NEW l, LogInv(l, t, n), l.handle # "closed",
         NEW k \in RotateLocked(l)
  PROVE  LogInv(k, t, n) /\ k.handle # "closed"
<1>1. l \in LogType /\ k \in LogType
  BY RotateCases DEF LogInv
<1>2. CASE k.main = <<>> /\ k.prev = l.main /\ k.size = 0 /\ k.genStart = NoTime
           /\ k.handle \in {"open", "nil"}
  <2>1. NilEmpty(k)
    BY <1>2 DEF NilEmpty
  <2>2. Numbered(k, n)
    BY <1>1, <1>2 DEF LogInv, Numbered, UpTo, LogType
  <2>3. Ordered(k, t)
    BY <1>1, <1>2 DEF LogInv, Ordered, Rising, Past, Before
  <2>4. Sized(k)
    BY <1>1, <1>2, WeightFacts, NdjsonAssumption DEF LogInv, Sized
  <2>. QED  BY <1>1, <1>2, <2>1, <2>2, <2>3, <2>4 DEF LogInv
<1>3. CASE k.main = l.main /\ k.prev = <<>> /\ k.size = l.size /\ k.genStart = l.genStart
           /\ k.handle \in {"open", "dead"}
  <2>1. NilEmpty(k)
    BY <1>3 DEF NilEmpty
  <2>2. Numbered(k, n)
    BY <1>1, <1>3 DEF LogInv, Numbered, UpTo, LogType
  <2>3. Ordered(k, t)
    BY <1>1, <1>3 DEF LogInv, Ordered, Rising, Past, Before
  <2>4. Sized(k)
    BY <1>1, <1>3, WeightFacts, NdjsonAssumption DEF LogInv, Sized
  <2>. QED  BY <1>1, <1>3, <2>1, <2>2, <2>3, <2>4 DEF LogInv
<1>. QED  BY <1>1, <1>2, <1>3, RotateCases

\* A record is added at the end, or only counted, or not even that.
LEMMA WriteKeeps ==
  ASSUME now \in Nat, NEW n \in Nat, NEW q, LogInv(q, now, n), q.handle \in {"open", "dead"},
         NEW r \in LogRecord, r.id = n + 1, r.born = now, r.ts <= now,
         q.size + r.weight <= MaxLogBytes, q.err = FALSE,
         NEW l \in Write(Started(q), r)
  PROVE  /\ LogInv(l, now, IF l.err THEN n ELSE n + 1)
         /\ l.handle # "closed" /\ l.prev = q.prev
         /\ l.genStart = IF q.genStart = NoTime THEN now ELSE q.genStart
         /\ l.main = IF l.err THEN q.main ELSE Append(q.main, r)
<1> DEFINE g == IF q.genStart = NoTime THEN now ELSE q.genStart
           m == Append(q.main, r)
<1>1. q \in LogType /\ q.main \in Seq(LogRecord) /\ q.prev \in Seq(LogRecord) /\ q.size \in Nat
  BY DEF LogInv, LogType
<1>2. r.weight \in Nat /\ r.ts \in Int /\ r.id \in Nat
  BY LogRecordFacts
<1>3. /\ l \in LogType
      /\ l.prev = q.prev /\ l.genStart = g
      /\ \/ l.err = FALSE /\ l.main = m /\ l.handle \in {"open", "dead"} /\ l.size = q.size + r.weight
         \/ l.err /\ l.main = q.main /\ l.handle = "dead" /\ l.size \in {q.size, q.size + r.weight}
  <2> DEFINE z == Started(q)
  <2>1. z \in LogType /\ z.main = q.main /\ z.prev = q.prev /\ z.handle = q.handle
        /\ z.size = q.size /\ z.genStart = g /\ z.err = FALSE
    BY <1>1 DEF Started, LogType
  <2> HIDE DEF z
  <2>2. l \in NotWritten(z, r) \/ l = Written(z, r)
    BY DEF Write, z
  <2>3. CASE l \in NotWritten(z, r)
    <3>1. PICK c \in {0, r.weight} : l = [z EXCEPT !.handle = "dead", !.size = @ + c, !.err = TRUE]
      BY <2>3 DEF NotWritten
    <3>2. z.size + c \in Nat /\ z.size + c \in {q.size, q.size + r.weight}
      BY <1>1, <1>2, <2>1
    <3>. QED  BY <2>1, <3>1, <3>2 DEF LogType
  <2>4. CASE l = Written(z, r)
    <3>1. m \in Seq(LogRecord) /\ q.size + r.weight \in Nat
      BY <1>1, <1>2
    <3>. QED  BY <2>1, <2>4, <3>1 DEF Written, LogType
  <2>. QED  BY <2>2, <2>3, <2>4
<1>4. /\ m \in Seq(LogRecord) /\ Len(m) = Len(q.main) + 1 /\ Len(q.main) \in Nat
      /\ m[Len(q.main) + 1] = r /\ \A i \in 1..Len(q.main) : m[i] = q.main[i]
  BY <1>1
<1>5. Numbered(q, n) /\ Ordered(q, now) /\ Sized(q)
  BY DEF LogInv
<1> HIDE DEF m
<1>6. CASE l.err
  <2>1. NilEmpty(l)
    BY <1>3, <1>6 DEF NilEmpty
  <2>2. Numbered(l, n)
    BY <1>3, <1>5, <1>6 DEF Numbered
  <2>3. Ordered(l, now)
    BY <1>3, <1>5, <1>6 DEF Ordered
  <2>4. Sized(l)
    <3>1. Weight(q.main) \in Nat
      BY <1>1, WeightFacts
    <3>. QED  BY <1>1, <1>2, <1>3, <1>5, <1>6, <3>1 DEF Sized
  <2>. QED  BY <1>3, <1>6, <2>1, <2>2, <2>3, <2>4 DEF LogInv
<1>7. CASE l.err = FALSE
  <2>0. l.main = m /\ l.handle \in {"open", "dead"} /\ l.size = q.size + r.weight
    BY <1>3, <1>7
  <2>1. NilEmpty(l)
    BY <2>0 DEF NilEmpty
  <2>5. /\ Rising(m) /\ Past(m, now) /\ Before(q.prev, m)
        /\ UpTo(m, n + 1) /\ UpTo(q.prev, (n + 1) - Len(m))
    <3> DEFINE s == q.main
               p == q.prev
    <3>1. Rising(s) /\ Past(s, now) /\ Past(p, now) /\ Before(p, s)
      BY <1>5 DEF Ordered
    <3>2. UpTo(s, n) /\ UpTo(p, n - Len(s))
      BY <1>5 DEF Numbered
    <3>3. s \in Seq(LogRecord) /\ p \in Seq(LogRecord) /\ m = Append(s, r)
      BY <1>1 DEF m
    <3> HIDE DEF s, p
    <3>4. /\ Rising(m) /\ Past(m, now) /\ Before(p, m)
          /\ UpTo(m, n + 1) /\ UpTo(p, (n + 1) - Len(m))
      BY <3>1, <3>2, <3>3, AppendKeeps
    <3>. QED  BY <3>4 DEF p
  <2>2. Numbered(l, n + 1)
    BY <1>3, <2>0, <2>5 DEF Numbered
  <2>3. Ordered(l, now)
    <3>4. g # NoTime /\ g <= now /\ g <= m[1].born
      <4>1. g # NoTime /\ g <= now
        BY <1>5, NdjsonAssumption DEF Ordered
      <4>2. CASE q.main = <<>>
        BY <1>4, <4>1, <4>2
      <4>3. CASE q.main # <<>>
        <5>1. 1 \in 1..Len(q.main)
          BY <1>1, <4>3
        <5>. QED  BY <1>4, <1>5, <4>3, <5>1 DEF Ordered
      <4>. QED  BY <4>2, <4>3, <4>1
    <3>. QED  BY <1>3, <1>5, <2>0, <2>5, <3>4 DEF Ordered
  <2>4. Sized(l)
    <3>1. Weight(m) = Weight(q.main) + r.weight /\ Weight(q.main) \in Nat
      BY <1>1, WeightFacts DEF m
    <3>. QED  BY <1>1, <1>2, <1>3, <1>5, <2>0, <3>1, NdjsonAssumption DEF Sized
  <2>. QED  BY <1>3, <1>7, <2>0, <2>1, <2>2, <2>3, <2>4 DEF LogInv, m
<1>. QED  BY <1>3, <1>6, <1>7 DEF LogType

\* Opening a log of records in order keeps the invariant.
LEMMA OpenKeeps ==
  ASSUME now \in Nat, NEW n \in Nat, LogInv(Current, now, n)
  PROVE  /\ LogInv(Opened, now, n) /\ Opened.handle = "open" /\ Opened.err = FALSE
         /\ Opened.main = main /\ Opened.prev = prev /\ Opened.size = Weight(main)
         /\ Opened.genStart = FirstRecordTime
<1>1. main \in Seq(LogRecord) /\ prev \in Seq(LogRecord)
  BY DEF LogInv, LogType, Current
<1>2. main # <<>> => 1 \in 1..Len(main) /\ main[1].ts \in Int /\ main[1].born \in Nat
                     /\ main[1].ts <= main[1].born /\ main[1].born <= now
  <2>1. main # <<>> => 1 \in 1..Len(main)
    BY <1>1
  <2>2. Past(main, now)
    BY DEF LogInv, Ordered, Current
  <2>. QED  BY <1>1, <2>1, <2>2, ElementFacts DEF Past
<1>3. FirstRecordTime \in Int \cup {NoTime}
  BY <1>2 DEF FirstRecordTime
<1>4. Weight(main) \in Nat
  BY <1>1, WeightFacts
<1>5. Opened \in LogType
  BY <1>1, <1>3, <1>4 DEF Opened, LogType
<1>6. NilEmpty(Opened)
  BY DEF NilEmpty, Opened
<1>7. Numbered(Opened, n)
  BY DEF Numbered, Opened, LogInv, Current
<1>8. Ordered(Opened, now)
  <2>1. Rising(main) /\ Rising(prev) /\ Past(main, now) /\ Past(prev, now) /\ Before(prev, main)
    BY DEF LogInv, Ordered, Current
  <2>2. FirstRecordTime # NoTime => FirstRecordTime <= now
    BY <1>2 DEF FirstRecordTime
  <2>3. main # <<>> => FirstRecordTime # NoTime /\ FirstRecordTime <= main[1].born
    BY <1>2, NdjsonAssumption DEF FirstRecordTime
  <2>. QED  BY <2>1, <2>2, <2>3 DEF Ordered, Opened
<1>9. Sized(Opened)
  BY <1>4 DEF Sized, Opened, LogInv, Current
<1>. QED  BY <1>5, <1>6, <1>7, <1>8, <1>9 DEF LogInv, Opened

LEMMA AtHandKeeps ==
  ASSUME now \in Nat, NEW n \in Nat, LogInv(Current, now, n)
  PROVE  /\ LogInv(AtHand, now, n) /\ AtHand.handle # "closed" /\ AtHand.err = FALSE
         /\ AtHand.main = main /\ AtHand.prev = prev
         /\ handle # "closed" => AtHand.genStart = genStart
         /\ handle = "closed" => AtHand.genStart = FirstRecordTime
<1>1. CASE handle = "closed"
  BY <1>1, OpenKeeps DEF AtHand
<1>2. CASE handle # "closed"
  BY <1>2 DEF AtHand, Current
<1>. QED  BY <1>1, <1>2

\* A log that lost its file gets a new one, or fails again.
LEMMA ReopenKeeps ==
  ASSUME NEW t \in Nat, NEW n \in Nat, NEW l, LogInv(l, t, n), l.handle # "closed",
         l.err = FALSE, NEW k \in Reopened(l)
  PROVE  /\ LogInv(k, t, n) /\ k.handle # "closed"
         /\ k.main = l.main /\ k.prev = l.prev /\ k.size = l.size /\ k.genStart = l.genStart
         /\ k.err \in BOOLEAN
         /\ k.err = FALSE => k.handle \in {"open", "dead"}
<1>1. l \in LogType
  BY DEF LogInv
<1>2. CASE l.handle # "nil"
  <2>1. k = l
    BY <1>2 DEF Reopened
  <2>. QED  BY <1>1, <1>2, <2>1 DEF LogType
<1>3. CASE l.handle = "nil"
  <2>0. l.main = <<>> /\ l.size = 0 /\ l.genStart = NoTime
    BY <1>3 DEF LogInv, NilEmpty
  <2>1. /\ k \in LogType /\ k.err \in BOOLEAN /\ k.handle \in {"open", "nil"}
        /\ k.main = l.main /\ k.prev = l.prev /\ k.size = l.size /\ k.genStart = l.genStart
        /\ k.err = FALSE => k.handle = "open"
    <3>1. CASE k = [l EXCEPT !.handle = "open", !.size = 0]
      BY <1>1, <2>0, <3>1 DEF LogType
    <3>2. CASE k = [l EXCEPT !.err = TRUE]
      BY <1>1, <1>3, <3>2 DEF LogType
    <3>. QED  BY <1>3, <3>1, <3>2 DEF Reopened
  <2>2. NilEmpty(k)
    BY <2>0, <2>1 DEF NilEmpty
  <2>3. Numbered(k, n) /\ Sized(k)
    BY <1>3, <2>1 DEF LogInv, Numbered, Sized
  <2>4. Ordered(k, t)
    BY <1>3, <2>1 DEF LogInv, Ordered
  <2>. QED  BY <2>1, <2>2, <2>3, <2>4 DEF LogInv
<1>. QED  BY <1>2, <1>3

\* What an append makes of the records: the new one follows them, or nothing
\* happens, or main becomes prev, or prev is lost and the append fails.
Appended(l, a, r) ==
  \/ /\ l.prev = a.prev /\ l.main = Append(a.main, r) /\ l.err = FALSE
     /\ a.main # <<>> => ~Expired(a.genStart)
     /\ l.genStart = IF a.genStart = NoTime THEN now ELSE a.genStart
  \/ /\ l.prev = a.prev /\ l.main = a.main /\ l.err
     /\ l.genStart \in {a.genStart, IF a.genStart = NoTime THEN now ELSE a.genStart}
  \/ /\ NeedRotate(a, r.weight) /\ l.prev = a.main /\ l.genStart \in {NoTime, now}
     /\ \/ l.main = Append(<<>>, r) /\ l.err = FALSE
        \/ l.main = <<>> /\ l.err
  \/ /\ NeedRotate(a, r.weight) /\ l.prev = <<>> /\ l.main = a.main /\ l.err
     /\ l.genStart = a.genStart

LEMMA AppendCases ==
  ASSUME now \in Nat, NEW n \in Nat, NEW a, a = AtHand, LogInv(a, now, n),
         a.handle # "closed", a.err = FALSE,
         NEW r \in LogRecord, r.id = n + 1, r.born = now, r.ts <= now,
         NEW l \in Appends(r)
  PROVE  /\ LogInv(l, now, IF l.err THEN n ELSE n + 1) /\ l.handle # "closed"
         /\ l.err \in BOOLEAN /\ Appended(l, a, r)
<1> DEFINE w == r.weight
           Ready(k) == IF k.err THEN {k} ELSE Reopened(k)
           rotated == IF NeedRotate(a, w) THEN RotateLocked(a) ELSE {a}
<1>0. a \in LogType /\ w \in Nat /\ w > 0 /\ w <= MaxLogBytes /\ a.size \in Nat
  BY LogRecordFacts DEF LogInv, LogType
<1>1. PICK k \in rotated : \E q \in Ready(k) : l \in IF q.err THEN {q} ELSE Write(Started(q), r)
  BY DEF Appends
<1>5. PICK q \in Ready(k) : l \in IF q.err THEN {q} ELSE Write(Started(q), r)
  BY <1>1
<1>2. /\ LogInv(k, now, n) /\ k.handle # "closed" /\ k.err \in BOOLEAN
      /\ \/ k = a /\ ~NeedRotate(a, w)
         \/ /\ NeedRotate(a, w)
            /\ \/ k.main = <<>> /\ k.prev = a.main /\ k.size = 0 /\ k.genStart = NoTime
               \/ k.main = a.main /\ k.prev = <<>> /\ k.err /\ k.genStart = a.genStart
  <2>1. CASE NeedRotate(a, w)
    <3>1. k \in RotateLocked(a)
      BY <1>1, <2>1
    <3>2. LogInv(k, now, n) /\ k.handle # "closed"
      BY <3>1, RotateKeeps
    <3>3. k.err \in BOOLEAN
      BY <3>2 DEF LogInv, LogType
    <3>. QED  BY <1>0, <2>1, <3>1, <3>2, <3>3, RotateCases
  <2>2. CASE ~NeedRotate(a, w)
    BY <1>1, <2>2
  <2>. QED  BY <2>1, <2>2
<1>3. CASE k.err
  <2>1. l = k
    BY <1>5, <1>3
  <2>. QED  BY <1>2, <1>3, <2>1 DEF Appended
<1>4. CASE k.err = FALSE
  <2>1. q \in Reopened(k)
    BY <1>5, <1>4
  <2>2. /\ LogInv(q, now, n) /\ q.handle # "closed"
        /\ q.main = k.main /\ q.prev = k.prev /\ q.size = k.size /\ q.genStart = k.genStart
        /\ q.err \in BOOLEAN
        /\ q.err = FALSE => q.handle \in {"open", "dead"}
    <3>1. now \in Nat /\ n \in Nat /\ LogInv(k, now, n) /\ k.handle # "closed" /\ k.err = FALSE
      BY <1>2, <1>4
    <3>. QED  BY ONLY <2>1, <3>1, ReopenKeeps, Zenon
  <2>3. CASE q.err
    <3>1. l = q
      BY <1>5, <2>3
    <3>. QED  BY <1>2, <1>4, <2>2, <2>3, <3>1 DEF Appended
  <2>4. CASE q.err = FALSE
    <3>1. l \in Write(Started(q), r)
      BY <1>5, <2>4
    <3>2. q.size + w <= MaxLogBytes
      <4>1. CASE ~NeedRotate(a, w)
        BY <1>0, <1>2, <2>2, <4>1, NdjsonAssumption DEF NeedRotate
      <4>2. CASE NeedRotate(a, w)
        BY <1>0, <1>2, <1>4, <2>2, <4>2
      <4>. QED  BY <4>1, <4>2
    <3>3. /\ LogInv(l, now, IF l.err THEN n ELSE n + 1)
          /\ l.handle # "closed" /\ l.prev = q.prev
          /\ l.genStart = IF q.genStart = NoTime THEN now ELSE q.genStart
          /\ l.main = IF l.err THEN q.main ELSE Append(q.main, r)
      BY <2>2, <2>4, <3>1, <3>2, WriteKeeps
    <3>4. l.err \in BOOLEAN
      BY <3>3 DEF LogInv, LogType
    <3>5. CASE NeedRotate(a, w)
      BY <1>2, <1>4, <2>2, <3>3, <3>4, <3>5 DEF Appended
    <3>6. CASE ~NeedRotate(a, w)
      <4>1. a.main # <<>> => ~Expired(a.genStart)
        <5>1. a.main # <<>> => a.size > 0
          <6>1. a.main \in Seq(LogRecord) /\ Weight(a.main) <= a.size
            BY DEF LogInv, LogType, Sized
          <6>. QED  BY <1>0, <6>1, WeightFacts
        <5>. QED  BY <3>6, <5>1 DEF NeedRotate
      <4>. QED  BY <1>2, <2>2, <3>3, <3>4, <3>6, <4>1 DEF Appended
    <3>. QED  BY <3>3, <3>4, <3>5, <3>6
  <2>. QED  BY <2>2, <2>3, <2>4
<1>. QED  BY <1>2, <1>3, <1>4


\* The log after a method is what the method made of it.
LEMMA SetCurrent ==
  ASSUME NEW t \in Nat, NEW n \in Nat, NEW l, LogInv(l, t, n), Set(l)
  PROVE  LogInv(Current', t, n)
<1> DEFINE c == Current'
<1>1. c = [main |-> l.main, prev |-> l.prev, handle |-> l.handle, size |-> l.size,
           genStart |-> l.genStart, err |-> FALSE]
  BY DEF Set, Current
<1>2. l \in LogType
  BY DEF LogInv
<1> HIDE DEF c
<1>3. c \in LogType
  BY <1>1, <1>2 DEF LogType
<1>4. NilEmpty(c) /\ Numbered(c, n) /\ Ordered(c, t) /\ Sized(c)
  BY <1>1 DEF LogInv, NilEmpty, Numbered, Ordered, Sized
<1>5. LogInv(c, t, n)
  BY <1>2, <1>3, <1>4 DEF LogInv
<1>. QED  BY <1>5 DEF c

-----------------------------------------------------------------------------
(* Ages.                                                                     *)

\* The records of a generation were born within the retention age.
Span(s) == \A i, j \in 1..Len(s) : s[j].born - s[i].born <= TTL

\* No record is older than d at time t.
Young(s, t, d) == \A i \in 1..Len(s) : t - s[i].born <= d

\* A generation that has not expired holds no record older than TTL.
LEMMA NotExpired ==
  ASSUME now \in Nat, NEW n \in Nat, NEW a, LogInv(a, now, n), a.handle # "closed",
         a.main # <<>> => ~Expired(a.genStart)
  PROVE  Young(a.main, now, TTL)
<1> SUFFICES ASSUME NEW i \in 1..Len(a.main)  PROVE now - a.main[i].born <= TTL
  BY DEF Young
<1> DEFINE s == a.main
           g == a.genStart
<1>1. s \in Seq(LogRecord) /\ g \in Int \cup {NoTime} /\ Rising(s)
  BY DEF LogInv, LogType, Ordered
<1>2. 1 \in 1..Len(s) /\ s # <<>> /\ 1 <= i
  BY <1>1
<1>3. g # NoTime /\ g <= s[1].born
  BY <1>2 DEF LogInv, Ordered
<1>4. ~(now - g > TTL)
  BY <1>2, <1>3 DEF Expired
<1>5. s[1].born <= s[i].born
  BY <1>1, <1>2 DEF Rising
<1>6. s[1].born \in Nat /\ s[i].born \in Nat /\ g \in Int /\ TTL \in Nat
  BY <1>1, <1>2, <1>3, ElementFacts, NdjsonAssumption
<1> HIDE DEF s, g
<1>7. \A t, x, b, c, d \in Int : x <= b /\ b <= c /\ ~(t - x > d) => t - c <= d
  OBVIOUS
<1>8. now - s[i].born <= TTL
  <2>1. now \in Int /\ g \in Int /\ s[1].born \in Int /\ s[i].born \in Int /\ TTL \in Int
    BY <1>6
  <2>. QED  BY ONLY <2>1, <1>3, <1>4, <1>5, <1>7
<1>. QED  BY <1>8 DEF s

LEMMA AppendYoung ==
  ASSUME NEW t \in Nat, NEW s \in Seq(LogRecord), Past(s, t), Young(s, t, TTL),
         NEW r \in LogRecord, r.born = t, NEW m, m = Append(s, r)
  PROVE  Span(m) /\ Young(m, t, TTL)
<1>0. TTL \in Nat /\ t - t = 0 /\ t <= t
  BY NdjsonAssumption
<1>1. \A i \in 1..Len(m) : m[i].born \in Nat /\ m[i].born <= t /\ t - m[i].born <= TTL
  <2>1. \A i \in 1..Len(s) : s[i].born \in Nat /\ s[i].born <= t /\ t - s[i].born <= TTL
    BY ElementFacts DEF Past, Young
  <2>2. \A i \in 1..Len(s) : m[i] = s[i]
    BY LogAppendFacts
  <2>3. \A i \in 1..Len(m) : i \in 1..Len(s) \/ (i = Len(s) + 1 /\ m[i] = r)
    BY LogAppendFacts
  <2>4. r.born \in Nat /\ r.born <= t /\ t - r.born <= TTL
    BY <1>0
  <2>. QED  BY <2>1, <2>2, <2>3, <2>4
<1>2. \A a, b, c, d \in Int : b <= a /\ a - c <= d => b - c <= d
  OBVIOUS
<1>3. Span(m)
  <2> SUFFICES ASSUME NEW i \in 1..Len(m), NEW j \in 1..Len(m)
               PROVE  m[j].born - m[i].born <= TTL
    BY DEF Span
  <2>1. m[i].born \in Int /\ m[j].born \in Int /\ m[j].born <= t /\ t - m[i].born <= TTL
        /\ t \in Int /\ TTL \in Int
    BY <1>0, <1>1
  <2>. QED  BY ONLY <1>2, <2>1
<1>. QED  BY <1>1, <1>3 DEF Young

LEMMA EmptyFacts == Span(<<>>) /\ \A t, d : Young(<<>>, t, d)
BY DEF Span, Young

\* What is younger than TTL is younger than twice that.
LEMMA YoungTwice ==
  ASSUME NEW t \in Nat, NEW s \in Seq(LogRecord), Young(s, t, TTL)  PROVE Young(s, t, 2 * TTL)
<1>1. TTL \in Nat /\ TTL <= 2 * TTL /\ 2 * TTL \in Nat
  BY NdjsonAssumption
<1>2. \A i \in 1..Len(s) : t - s[i].born \in Int
  BY ElementFacts
<1>. QED  BY <1>1, <1>2 DEF Young

\* A path.1 whose last record is younger than TTL, and that spans no more.
LEMMA SpanYoung ==
  ASSUME NEW t \in Nat, NEW s \in Seq(LogRecord), s # <<>>, Span(s), t - Last(s).born <= TTL
  PROVE  Young(s, t, 2 * TTL)
<1> SUFFICES ASSUME NEW i \in 1..Len(s) PROVE t - s[i].born <= 2 * TTL
  BY DEF Young
<1>1. Len(s) \in 1..Len(s) /\ Last(s) = s[Len(s)]
  BY DEF Last
<1> DEFINE b == s[Len(s)].born
           c == s[i].born
<1>2. b - c <= TTL /\ t - b <= TTL
  BY <1>1 DEF Span
<1>3. t \in Int /\ b \in Int /\ c \in Int /\ TTL \in Int
  BY <1>1, ElementFacts, NdjsonAssumption
<1> HIDE DEF b, c
<1>4. \A u, x, y, d \in Int : x - y <= d /\ u - x <= d => u - y <= 2 * d
  OBVIOUS
<1>5. t - c <= 2 * TTL
  BY ONLY <1>2, <1>3, <1>4
<1>. QED  BY <1>5 DEF c

\* What Sweep leaves: nothing removed, main moved to prev, or prev lost by age
\* or by a failed rename.
Swept(l, a) ==
  \/ /\ l.main = a.main /\ l.prev = a.prev /\ l.genStart = a.genStart
     /\ a.main # <<>> => ~Expired(a.genStart)
     /\ l.prev # <<>> => Age(l) <= TTL
  \/ /\ l.main = a.main /\ l.prev = <<>> /\ l.genStart = a.genStart
     /\ \/ a.prev # <<>> /\ Age(a) > TTL /\ (a.main # <<>> => ~Expired(a.genStart))
        \/ Expired(a.genStart) /\ l.err
  \/ /\ l.main = <<>> /\ l.genStart = NoTime /\ Expired(a.genStart)
     /\ \/ l.prev = a.main /\ (l.err = FALSE /\ l.prev # <<>> => Age(l) <= TTL)
        \/ l.prev = <<>> /\ a.main # <<>> /\ now - Last(a.main).born > TTL

LEMMA RemoveAgedKeeps ==
  ASSUME NEW t \in Nat, NEW n \in Nat, NEW l, LogInv(l, t, n)
  PROVE  LogInv([l EXCEPT !.prev = <<>>], t, n)
<1> DEFINE k == [l EXCEPT !.prev = <<>>]
<1>1. l \in LogType /\ <<>> \in Seq(LogRecord)
  BY DEF LogInv
<1>2. /\ k \in LogType /\ k.main = l.main /\ k.prev = <<>> /\ k.handle = l.handle
      /\ k.size = l.size /\ k.genStart = l.genStart
  BY <1>1 DEF LogType
<1> HIDE DEF k
<1>3. NilEmpty(k) /\ Numbered(k, n)
  <2>1. \A i : UpTo(<<>>, i)
    BY DEF UpTo
  <2>. QED  BY <1>2, <2>1 DEF LogInv, NilEmpty, Numbered
<1>4. Ordered(k, t)
  BY <1>2 DEF LogInv, Ordered, Rising, Past, Before
<1>5. Sized(k)
  BY <1>2, WeightFacts, NdjsonAssumption DEF LogInv, Sized
<1>6. LogInv(k, t, n)
  BY <1>2, <1>3, <1>4, <1>5 DEF LogInv
<1>. QED  BY <1>6 DEF k

LEMMA SweepCases ==
  ASSUME now \in Nat, NEW n \in Nat, NEW a, a = Current, LogInv(a, now, n),
         handle # "closed", NEW l \in Sweeps
  PROVE  LogInv(l, now, n) /\ l.handle # "closed" /\ l.err \in BOOLEAN /\ Swept(l, a)
<1>0. /\ a \in LogType /\ a.handle # "closed" /\ a.err = FALSE
      /\ a.genStart = genStart /\ a.size = size
  BY DEF LogInv, Current
<1>1. PICK k \in IF Expired(genStart) /\ size > 0 THEN RotateLocked(a) ELSE {a} :
        l = IF k.err THEN k ELSE RemoveAged(k)
  BY DEF Sweeps
<1>2. /\ LogInv(k, now, n) /\ k.handle # "closed" /\ k.err \in BOOLEAN /\ k \in LogType
      /\ \/ k = a /\ (a.main # <<>> => ~Expired(a.genStart))
         \/ /\ Expired(a.genStart)
            /\ \/ k.main = <<>> /\ k.prev = a.main /\ k.genStart = NoTime
               \/ k.main = a.main /\ k.prev = <<>> /\ k.err /\ k.genStart = a.genStart
  <2>1. CASE Expired(genStart) /\ size > 0
    <3>1. k \in RotateLocked(a)
      BY <1>1, <2>1
    <3>2. LogInv(k, now, n) /\ k.handle # "closed"
      BY <1>0, <3>1, RotateKeeps
    <3>3. k.err \in BOOLEAN /\ k \in LogType
      BY <3>2 DEF LogInv, LogType
    <3>. QED  BY <1>0, <2>1, <3>1, <3>2, <3>3, RotateCases
  <2>2. CASE ~(Expired(genStart) /\ size > 0)
    <3>1. a.main # <<>> => a.size > 0
      <4>1. a.main \in Seq(LogRecord) /\ Weight(a.main) <= a.size /\ a.size \in Nat
        BY <1>0 DEF LogInv, LogType, Sized
      <4>. QED  BY <4>1, WeightFacts
    <3>2. k = a
      BY <1>1, <2>2
    <3>. QED  BY <1>0, <2>2, <3>1, <3>2
  <2>. QED  BY <2>1, <2>2
<1>3. CASE k.err
  <2>1. l = k
    BY <1>1, <1>3
  <2>. QED  BY <1>0, <1>2, <1>3, <2>1 DEF Swept
<1>4. CASE k.err = FALSE
  <2>0. l = RemoveAged(k)
    BY <1>1, <1>4
  <2>1. CASE k.prev # <<>> /\ Age(k) > TTL
    <3>1. l = [k EXCEPT !.prev = <<>>]
      BY <2>0, <2>1 DEF RemoveAged
    <3>2. LogInv(l, now, n)
      BY <1>2, <3>1, RemoveAgedKeeps
    <3>3. /\ l.main = k.main /\ l.prev = <<>> /\ l.handle = k.handle
          /\ l.genStart = k.genStart /\ l.err = k.err
      BY <1>2, <3>1 DEF LogType
    <3>4. Age(k) = now - Last(k.prev).born
      BY DEF Age
    <3>5. Swept(l, a)
      <4>1. CASE k = a /\ (a.main # <<>> => ~Expired(a.genStart))
        BY <2>1, <3>3, <4>1 DEF Swept
      <4>2. CASE Expired(a.genStart) /\ k.main = <<>> /\ k.prev = a.main /\ k.genStart = NoTime
        BY <1>4, <2>1, <3>3, <3>4, <4>2 DEF Swept
      <4>. QED  BY <1>2, <1>4, <4>1, <4>2
    <3>. QED  BY <1>2, <1>4, <3>2, <3>3, <3>5
  <2>2. CASE ~(k.prev # <<>> /\ Age(k) > TTL)
    <3>1. l = k
      BY <2>0, <2>2 DEF RemoveAged
    <3>2. k.prev # <<>> => Age(k) <= TTL
      <4>1. k.prev # <<>> => Age(k) \in Int
        <5> SUFFICES ASSUME k.prev # <<>> PROVE now - Last(k.prev).born \in Int
          BY DEF Age
        <5>1. k.prev \in Seq(LogRecord)
          BY <1>2 DEF LogType
        <5>2. Len(k.prev) \in 1..Len(k.prev) /\ Last(k.prev) = k.prev[Len(k.prev)]
          BY <5>1 DEF Last
        <5>3. Last(k.prev).born \in Nat
          BY <5>1, <5>2, ElementFacts
        <5>. QED  BY <5>3
      <4>. QED  BY <2>2, <4>1, NdjsonAssumption
    <3>3. Swept(l, a)
      BY <1>2, <1>4, <3>1, <3>2 DEF Swept
    <3>. QED  BY <1>2, <1>4, <3>1, <3>3
  <2>. QED  BY <2>1, <2>2
<1>. QED  BY <1>2, <1>3, <1>4


-----------------------------------------------------------------------------
(* The inductive invariant.                                                  *)

\* The log is in order and within the cap, its generations span no more than
\* the retention age, and after a sweep they have not outlived it.
LogIInv ==
  /\ now \in Nat /\ appended \in Nat /\ swept \in BOOLEAN /\ failed \in BOOLEAN
  /\ LogInv(Current, now, appended)
  /\ handle = "closed" => Lazy
  /\ Span(main) /\ Span(prev)
  /\ swept /\ ~failed /\ handle # "closed" =>
       Young(main, now, TTL) /\ Young(prev, now, 2 * TTL)

LEMMA LogInitInv == LogInit => LogIInv
<1> SUFFICES ASSUME LogInit PROVE LogIInv
  OBVIOUS
<1>1. /\ Current.main = <<>> /\ Current.prev = <<>> /\ Current.handle \in {"closed", "open"}
      /\ Current.size = 0 /\ Current.genStart = NoTime /\ Current.err = FALSE
  BY DEF LogInit, Current
<1>2. Current \in LogType
  BY DEF LogInit, Current, LogType
<1>3. NilEmpty(Current) /\ Ordered(Current, now)
  BY <1>1 DEF NilEmpty, Ordered, Rising, Past, Before
<1>4. Numbered(Current, appended)
  BY <1>1 DEF Numbered, UpTo
<1>5. Sized(Current)
  BY <1>1, WeightFacts, NdjsonAssumption DEF Sized
<1>6. LogInv(Current, now, appended)
  BY <1>2, <1>3, <1>4, <1>5 DEF LogInv
<1>. QED  BY <1>6, EmptyFacts, NdjsonAssumption DEF LogInit, LogIInv

LEMMA LogNextInv == LogIInv /\ [LogNext]_logVars => LogIInv'
<1> SUFFICES ASSUME LogIInv, [LogNext]_logVars  PROVE LogIInv'
  OBVIOUS
<1>0. /\ now \in Nat /\ appended \in Nat /\ swept \in BOOLEAN /\ failed \in BOOLEAN
      /\ LogInv(Current, now, appended)
      /\ handle = "closed" => Lazy
      /\ Span(main) /\ Span(prev)
      /\ swept /\ ~failed /\ handle # "closed" =>
           Young(main, now, TTL) /\ Young(prev, now, 2 * TTL)
  BY DEF LogIInv
<1>t. main \in Seq(LogRecord) /\ prev \in Seq(LogRecord) /\ Past(main, now)
  BY <1>0 DEF LogInv, LogType, Ordered, Current
<1>1. ASSUME NEW w \in Weights, NEW lag \in 0..MaxLag, AppendRecord(w, lag)  PROVE LogIInv'
  <2> DEFINE r == [id |-> appended + 1, ts |-> now - lag, born |-> now, weight |-> w]
             a == AtHand
  <2>1. PICK l \in Appends(r) : /\ Set(l)
                                /\ appended' = IF l.err THEN appended ELSE appended + 1
                                /\ failed' = (failed \/ l.err)
    BY <1>1 DEF AppendRecord
  <2>2. r \in LogRecord /\ r.id = appended + 1 /\ r.born = now /\ r.ts <= now /\ r.weight = w
    BY <1>0, NdjsonAssumption DEF LogRecord
  <2>3. /\ LogInv(a, now, appended) /\ a.handle # "closed" /\ a.err = FALSE
        /\ a.main = main /\ a.prev = prev /\ a = AtHand
    BY <1>0, AtHandKeeps
  <2> HIDE DEF r, a
  <2>4. /\ LogInv(l, now, appended') /\ l.handle # "closed" /\ l.err \in BOOLEAN
        /\ Appended(l, a, r)
    <3>1. /\ LogInv(l, now, IF l.err THEN appended ELSE appended + 1) /\ l.handle # "closed"
          /\ l.err \in BOOLEAN /\ Appended(l, a, r)
      BY <1>0, <2>1, <2>2, <2>3, AppendCases
    <3>. QED  BY <2>1, <3>1
  <2>5. now' = now /\ swept' = (swept /\ handle # "closed")
    BY <1>1 DEF AppendRecord
  <2>6. appended' \in Nat /\ failed' \in BOOLEAN
    BY <1>0, <2>1, <2>4
  <2>7. LogInv(Current', now', appended')
    BY <1>0, <2>1, <2>4, <2>5, <2>6, SetCurrent
  <2>8. main' = l.main /\ prev' = l.prev /\ handle' = l.handle
    BY <2>1 DEF Set
  <2>9. Append(<<>>, r) \in Seq(LogRecord) /\ <<>> \in Seq(LogRecord) /\ Past(<<>>, now)
    BY <2>2 DEF Past
  <2>10. Span(Append(<<>>, r)) /\ Young(Append(<<>>, r), now, TTL)
    BY <1>0, <2>2, <2>9, EmptyFacts, AppendYoung
  <2>11. (a.main # <<>> => ~Expired(a.genStart)) =>
            Span(Append(main, r)) /\ Young(Append(main, r), now, TTL)
    <3> SUFFICES ASSUME a.main # <<>> => ~Expired(a.genStart)
                 PROVE  Span(Append(main, r)) /\ Young(Append(main, r), now, TTL)
      OBVIOUS
    <3>1. Young(main, now, TTL)
      BY <1>0, <2>3, NotExpired
    <3>. QED  BY <1>0, <1>t, <2>2, <3>1, AppendYoung
  <2>12. Span(main') /\ Span(prev')
    BY <1>0, <2>3, <2>4, <2>8, <2>10, <2>11, EmptyFacts DEF Appended
  <2>13. swept' /\ ~failed' => Young(main', now', TTL) /\ Young(prev', now', 2 * TTL)
    <3> SUFFICES ASSUME swept', ~failed'
                 PROVE  Young(main', now', TTL) /\ Young(prev', now', 2 * TTL)
      OBVIOUS
    <3>1. Young(main, now, TTL) /\ Young(prev, now, 2 * TTL) /\ l.err = FALSE
      BY <1>0, <2>1, <2>4, <2>5
    <3>2. Young(main, now, 2 * TTL)
      BY <1>0, <1>t, <3>1, YoungTwice
    <3>. QED  BY <2>3, <2>4, <2>5, <2>8, <2>10, <2>11, <3>1, <3>2 DEF Appended
  <2>14. swept' \in BOOLEAN
    BY <1>0, <2>5
  <2>. QED  BY <1>0, <2>4, <2>5, <2>6, <2>7, <2>8, <2>12, <2>13, <2>14 DEF LogIInv
<1>2. CASE Sweep
  <2>1. PICK l \in Sweeps : Set(l) /\ failed' = (failed \/ l.err)
    BY <1>2 DEF Sweep
  <2>2. now' = now /\ appended' = appended /\ swept' = TRUE
    BY <1>2 DEF Sweep
  <2>3. CASE handle = "closed"
    <3>1. l = Current
      BY <2>1, <2>3 DEF Sweeps
    <3>2. LogInv(Current', now', appended')
      BY <1>0, <2>1, <2>2, <3>1, SetCurrent
    <3>3. main' = main /\ prev' = prev /\ handle' = handle /\ failed' \in BOOLEAN
      BY <1>0, <2>1, <3>1 DEF Set, Current
    <3>. QED  BY <1>0, <2>2, <2>3, <3>2, <3>3 DEF LogIInv
  <2>4. CASE handle # "closed"
    <3> DEFINE a == Current
    <3>1. a = Current /\ a.main = main /\ a.prev = prev /\ a.handle # "closed"
          /\ LogInv(a, now, appended)
      BY <1>0, <2>4 DEF Current
    <3> HIDE DEF a
    <3>2. LogInv(l, now, appended) /\ l.handle # "closed" /\ l.err \in BOOLEAN /\ Swept(l, a)
      BY <1>0, <2>1, <2>4, <3>1, SweepCases
    <3>3. LogInv(Current', now', appended')
      BY <1>0, <2>1, <2>2, <3>2, SetCurrent
    <3>4. main' = l.main /\ prev' = l.prev /\ handle' = l.handle /\ failed' \in BOOLEAN
      BY <1>0, <2>1, <3>2 DEF Set
    <3>5. Span(main') /\ Span(prev')
      BY <1>0, <3>1, <3>2, <3>4, EmptyFacts DEF Swept
    <3>6. ~failed' => Young(main', now', TTL) /\ Young(prev', now', 2 * TTL)
      <4> SUFFICES ASSUME ~failed'
                   PROVE  Young(main', now', TTL) /\ Young(prev', now', 2 * TTL)
        OBVIOUS
      <4>1. l.err = FALSE
        BY <2>1, <3>2
      <4>2. CASE /\ l.main = a.main /\ l.prev = a.prev
                 /\ a.main # <<>> => ~Expired(a.genStart)
                 /\ l.prev # <<>> => Age(l) <= TTL
        <5>1. Young(main, now, TTL)
          BY <1>0, <3>1, <4>2, NotExpired
        <5>2. Young(prev, now, 2 * TTL)
          <6>1. CASE prev = <<>>
            BY <6>1, EmptyFacts
          <6>2. CASE prev # <<>>
            <7>1. now - Last(prev).born <= TTL
              BY <3>1, <4>2, <6>2 DEF Age
            <7>. QED  BY <1>0, <1>t, <6>2, <7>1, SpanYoung
          <6>. QED  BY <6>1, <6>2
        <5>. QED  BY <2>2, <3>1, <3>4, <4>2, <5>1, <5>2
      <4>3. CASE /\ l.main = a.main /\ l.prev = <<>>
                 /\ a.main # <<>> => ~Expired(a.genStart)
        <5>1. Young(main, now, TTL)
          BY <1>0, <3>1, <4>3, NotExpired
        <5>. QED  BY <2>2, <3>1, <3>4, <4>3, <5>1, EmptyFacts
      <4>4. CASE l.main = <<>> /\ l.prev = <<>>
        BY <3>4, <4>4, EmptyFacts
      <4>5. CASE l.main = <<>> /\ l.prev = a.main /\ (l.prev # <<>> => Age(l) <= TTL)
        <5>1. CASE main = <<>>
          BY <3>1, <3>4, <4>5, <5>1, EmptyFacts
        <5>2. CASE main # <<>>
          <6>1. now - Last(main).born <= TTL
            BY <3>1, <4>5, <5>2 DEF Age
          <6>2. Young(main, now, 2 * TTL)
            BY <1>0, <1>t, <5>2, <6>1, SpanYoung
          <6>. QED  BY <2>2, <3>1, <3>4, <4>5, <6>2, EmptyFacts
        <5>. QED  BY <5>1, <5>2
      <4>. QED  BY <3>2, <4>1, <4>2, <4>3, <4>4, <4>5 DEF Swept
    <3>. QED  BY <1>0, <2>2, <3>2, <3>3, <3>4, <3>5, <3>6 DEF LogIInv
  <2>. QED  BY <2>3, <2>4
<1>3. CASE Tick
  <2>1. now' = now + 1 /\ appended' = appended /\ failed' = failed /\ swept' = FALSE
        /\ Current' = Current /\ main' = main /\ prev' = prev /\ handle' = handle
    BY <1>3 DEF Tick, log, Current
  <2>2. LogInv(Current, now + 1, appended)
    <3> DEFINE c == Current
    <3>1. LogInv(c, now, appended)
      BY <1>0
    <3> HIDE DEF c
    <3>2. \A g \in Int : g <= now => g <= now + 1
      BY <1>0
    <3>3. c.main \in Seq(LogRecord) /\ c.prev \in Seq(LogRecord) /\ c.genStart \in Int \cup {NoTime}
      BY <3>1 DEF LogInv, LogType
    <3>4. \A s \in Seq(LogRecord) : Past(s, now) => Past(s, now + 1)
      <4> SUFFICES ASSUME NEW s \in Seq(LogRecord), Past(s, now)  PROVE Past(s, now + 1)
        OBVIOUS
      <4>1. \A i \in 1..Len(s) : s[i].born \in Int
        BY ElementFacts
      <4>. QED  BY <3>2, <4>1 DEF Past
    <3>5. Ordered(c, now + 1)
      BY <3>1, <3>2, <3>3, <3>4 DEF LogInv, Ordered
    <3>. QED  BY <3>1, <3>5 DEF LogInv, c
  <2>3. LogInv(Current', now', appended')
    BY <2>1, <2>2
  <2>4. now' \in Nat
    BY <1>0, <2>1
  <2>. QED  BY <1>0, <2>1, <2>3, <2>4 DEF LogIInv
<1>4. CASE Restart
  <2> DEFINE o == Opened
             l == IF Lazy THEN [o EXCEPT !.handle = "closed", !.size = 0, !.genStart = NoTime]
                  ELSE o
  <2>1. /\ LogInv(o, now, appended) /\ o.handle = "open" /\ o.main = main /\ o.prev = prev
    BY <1>0, OpenKeeps
  <2>2. Set(l) /\ now' = now /\ appended' = appended /\ failed' = failed /\ swept' = swept
    BY <1>4 DEF Restart
  <2> HIDE DEF o
  <2>3. o \in LogType
    BY <2>1 DEF LogInv
  <2>4. /\ l \in LogType /\ l.main = main /\ l.prev = prev
        /\ \/ Lazy /\ l.handle = "closed" /\ l.size = 0 /\ l.genStart = NoTime
           \/ ~Lazy /\ l = o
    BY <2>1, <2>3, NdjsonAssumption DEF LogType
  <2> HIDE DEF l
  <2>5. LogInv(l, now, appended)
    <3>1. CASE l = o
      BY <2>1, <3>1
    <3>2. CASE l.handle = "closed" /\ l.size = 0 /\ l.genStart = NoTime
      <4>1. NilEmpty(l) /\ Numbered(l, appended) /\ Sized(l)
        BY <2>1, <2>4, <3>2 DEF LogInv, NilEmpty, Numbered, Sized
      <4>2. Ordered(l, now)
        BY <2>1, <2>4, <3>2 DEF LogInv, Ordered
      <4>. QED  BY <2>4, <4>1, <4>2 DEF LogInv
    <3>. QED  BY <2>4, <3>1, <3>2
  <2>6. LogInv(Current', now', appended')
    BY <1>0, <2>2, <2>5, SetCurrent
  <2>7. main' = main /\ prev' = prev /\ handle' = l.handle
    BY <2>2, <2>4 DEF Set
  <2>8. handle' # "closed" => handle # "closed"
    BY <1>0, <2>4, <2>7
  <2>. QED  BY <1>0, <2>1, <2>2, <2>4, <2>6, <2>7, <2>8 DEF LogIInv
<1>5. CASE UNCHANGED logVars
  BY <1>0, <1>5 DEF logVars, log, LogIInv, Current
<1>. QED  BY <1>1, <1>2, <1>3, <1>4, <1>5 DEF LogNext

LEMMA LogInvariant == LogSpec => []LogIInv
BY LogInitInv, LogNextInv, PTL DEF LogSpec


-----------------------------------------------------------------------------
(* What is stored.                                                           *)

LEMMA StoredFacts ==
  ASSUME NEW p \in Seq(LogRecord), NEW m \in Seq(LogRecord), NEW s, s = p \o m
  PROVE  /\ s \in Seq(LogRecord) /\ Len(s) = Len(p) + Len(m) /\ DOMAIN s = 1..(Len(p) + Len(m))
         /\ \A i \in 1..Len(p) : i \in DOMAIN s /\ s[i] = p[i]
         /\ \A i \in 1..Len(m) : Len(p) + i \in DOMAIN s /\ s[Len(p) + i] = m[i]
         /\ \A i \in DOMAIN s : \/ i \in 1..Len(p) /\ s[i] = p[i]
                                \/ i - Len(p) \in 1..Len(m) /\ s[i] = m[i - Len(p)]
OBVIOUS

\* The two files hold the newest records, in order and without a gap, whatever
\* renames, opens and writes fail and however often the process starts again.
THEOREM NewestRecordsSurvive == LogSpec => []NewestSurvive
<1>1. LogIInv => NewestSurvive
  <2> SUFFICES ASSUME LogIInv, NEW i \in DOMAIN Stored
               PROVE  Stored[i].id = appended - Len(Stored) + i
    BY DEF NewestSurvive
  <2> DEFINE p == prev
             m == main
             s == Stored
             n == appended
  <2>1. p \in Seq(LogRecord) /\ m \in Seq(LogRecord) /\ s = p \o m /\ n \in Nat /\ i \in DOMAIN s
    BY DEF LogIInv, LogInv, LogType, Current, Stored
  <2>2. UpTo(m, n) /\ UpTo(p, n - Len(m))
    BY DEF LogIInv, LogInv, Numbered, Current
  <2> HIDE DEF p, m, s, n
  <2>3. /\ Len(s) = Len(p) + Len(m) /\ i \in 1..(Len(p) + Len(m))
        /\ \/ i \in 1..Len(p) /\ s[i] = p[i]
           \/ i - Len(p) \in 1..Len(m) /\ s[i] = m[i - Len(p)]
    BY <2>1, StoredFacts
  <2>4. Len(p) \in Nat /\ Len(m) \in Nat
    BY <2>1
  <2>5. CASE i \in 1..Len(p) /\ s[i] = p[i]
    <3>1. s[i].id = n - Len(m) - Len(p) + i
      BY <2>2, <2>5 DEF UpTo
    <3>. QED  BY <2>1, <2>3, <2>4, <3>1 DEF s, n
  <2>6. CASE i - Len(p) \in 1..Len(m) /\ s[i] = m[i - Len(p)]
    <3>1. s[i].id = n - Len(m) + (i - Len(p))
      BY <2>2, <2>6 DEF UpTo
    <3>. QED  BY <2>1, <2>3, <2>4, <3>1 DEF s, n
  <2>. QED  BY <2>3, <2>5, <2>6
<1>. QED  BY <1>1, LogInvariant, PTL

\* Neither file outgrows the cap, and after a sweep of an open log whose disk
\* works no record is older than twice the retention age.
THEOREM NothingStaysTooLong == LogSpec => []NothingOverstays
<1>1. LogIInv => DiskBounded
  BY DEF LogIInv, LogInv, Sized, Current, DiskBounded
<1>2. LogIInv => SweptByTwiceTTL
  <2> SUFFICES ASSUME LogIInv, swept, ~failed, handle # "closed", NEW i \in DOMAIN Stored
               PROVE  now - Stored[i].born <= 2 * TTL
    BY DEF SweptByTwiceTTL
  <2>1. prev \in Seq(LogRecord) /\ main \in Seq(LogRecord) /\ now \in Nat
    BY DEF LogIInv, LogInv, LogType, Current
  <2>2. Young(main, now, 2 * TTL) /\ Young(prev, now, 2 * TTL)
    BY <2>1, YoungTwice DEF LogIInv
  <2>3. \/ i \in 1..Len(prev) /\ Stored[i] = prev[i]
        \/ i - Len(prev) \in 1..Len(main) /\ Stored[i] = main[i - Len(prev)]
    BY <2>1, StoredFacts DEF Stored
  <2>. QED  BY <2>2, <2>3 DEF Young
<1>. QED  BY <1>1, <1>2, LogInvariant, PTL DEF NothingOverstays

-----------------------------------------------------------------------------
(* Retention, for records whose time stamps lie at most MaxLag back.        *)

Stamped(s) == \A i \in 1..Len(s) : s[i].born - MaxLag <= s[i].ts

\* The open generation started after every record in prev was born, or at most
\* MaxLag before.
Since(l) ==
  l.genStart # NoTime => \A i \in 1..Len(l.prev) : l.prev[i].born - MaxLag <= l.genStart

\* What a log takes for its age when it is opened.
LEMMA OpenedSince ==
  ASSUME LogInv(Current, now, appended), Stamped(main), FirstRecordTime # NoTime,
         NEW i \in 1..Len(prev)
  PROVE  prev[i].born - MaxLag <= FirstRecordTime
<1>1. Before(prev, main) /\ main \in Seq(LogRecord) /\ prev \in Seq(LogRecord) /\ main # <<>>
  BY DEF LogInv, Ordered, LogType, Current, FirstRecordTime
<1>2. 1 \in 1..Len(main) /\ FirstRecordTime = main[1].ts
  BY <1>1 DEF FirstRecordTime
<1>3. prev[i].born <= main[1].born /\ main[1].born - MaxLag <= main[1].ts
  BY <1>1, <1>2 DEF Before, Stamped
<1>4. prev[i].born \in Int /\ main[1].born \in Int /\ main[1].ts \in Int /\ MaxLag \in Int
  BY <1>1, <1>2, ElementFacts, NdjsonAssumption
<1> QED BY ONLY <1>2, <1>3, <1>4

StampInv == Stamped(main) /\ (handle # "closed" => Since(Current))

LEMMA AtHandSince ==
  ASSUME LogIInv, StampInv
  PROVE  Since(AtHand)
<1>1. CASE handle # "closed"
  BY <1>1 DEF StampInv, AtHand
<1>2. CASE handle = "closed"
  <2>1. /\ LogInv(Current, now, appended) /\ now \in Nat /\ appended \in Nat
    BY DEF LogIInv
  <2>2. AtHand.prev = prev /\ AtHand.genStart = FirstRecordTime
    BY <1>2, <2>1, AtHandKeeps
  <2>. QED  BY <2>1, <2>2, OpenedSince DEF Since, StampInv
<1>. QED  BY <1>1, <1>2

\* A log that starts a generation with a time after its records.
LEMMA PastSince ==
  ASSUME NEW l, l.prev \in Seq(LogRecord), NEW t \in Nat, Past(l.prev, t),
         l.genStart \in {NoTime, t}
  PROVE  Since(l)
<1> SUFFICES ASSUME l.genStart = t, NEW i \in 1..Len(l.prev)
             PROVE  l.prev[i].born - MaxLag <= t
  BY DEF Since
<1>1. l.prev[i].born \in Nat /\ MaxLag \in Nat /\ l.prev[i].born <= t
  BY ElementFacts, NdjsonAssumption DEF Past
<1> QED BY ONLY <1>1, t \in Nat

LEMMA InitStamp == LogInit => StampInv
BY DEF LogInit, StampInv, Stamped, Since, Current

LEMMA NextStamp ==
  ASSUME LogIInv, StampInv, [LogNext]_logVars
  PROVE  StampInv'
<1>0. LogInv(Current, now, appended) /\ now \in Nat /\ appended \in Nat
  BY DEF LogIInv
<1>1. /\ Past(main, now) /\ Past(prev, now) /\ Past(<<>>, now)
      /\ main \in Seq(LogRecord) /\ prev \in Seq(LogRecord)
  BY <1>0 DEF LogInv, Ordered, Current, LogType, Past
<1>2. Stamped(main) /\ Stamped(<<>>)
  BY DEF StampInv, Stamped
<1>3. ASSUME NEW l, Set(l), Stamped(l.main), l.handle # "closed" => Since(l)
      PROVE  StampInv'
  <2>1. main' = l.main /\ handle' = l.handle
        /\ Current'.genStart = l.genStart /\ Current'.prev = l.prev
    BY <1>3 DEF Set, Current
  <2>. QED  BY <1>3, <2>1 DEF StampInv, Stamped, Since
<1>4. ASSUME NEW w \in Weights, NEW lag \in 0..MaxLag, AppendRecord(w, lag)  PROVE StampInv'
  <2> DEFINE r == [id |-> appended + 1, ts |-> now - lag, born |-> now, weight |-> w]
             a == AtHand
  <2>1. PICK l \in Appends(r) : Set(l)
    BY <1>4 DEF AppendRecord
  <2>2. /\ r \in LogRecord /\ r.id = appended + 1 /\ r.born = now /\ r.ts <= now
        /\ r.born - MaxLag <= r.ts
    BY <1>0, NdjsonAssumption DEF LogRecord
  <2>3. /\ LogInv(a, now, appended) /\ a.handle # "closed" /\ a.err = FALSE
        /\ a.main = main /\ a.prev = prev /\ a = AtHand
    BY <1>0, AtHandKeeps
  <2>4. Since(a)
    BY AtHandSince
  <2> HIDE DEF r, a
  <2>5. Appended(l, a, r)
    BY <1>0, <2>1, <2>2, <2>3, AppendCases
  <2>6. \A s \in Seq(LogRecord) : Stamped(s) => Stamped(Append(s, r))
    <3> SUFFICES ASSUME NEW s \in Seq(LogRecord), Stamped(s)  PROVE Stamped(Append(s, r))
      OBVIOUS
    <3> DEFINE m == Append(s, r)
    <3>1. \A i \in 1..Len(m) : i \in 1..Len(s) \/ m[i] = r
      BY <2>2, LogAppendFacts
    <3>2. \A i \in 1..Len(s) : m[i] = s[i]
      BY <2>2, LogAppendFacts
    <3> HIDE DEF m
    <3>3. Stamped(m)
      BY <2>2, <3>1, <3>2 DEF Stamped
    <3>. QED  BY <3>3 DEF m
  <2>7. Stamped(l.main)
    <3>1. Stamped(Append(main, r)) /\ Stamped(Append(<<>>, r))
      <4>1. <<>> \in Seq(LogRecord)
        OBVIOUS
      <4>. QED  BY <1>1, <1>2, <2>6, <4>1
    <3>2. l.main \in {main, <<>>, Append(main, r), Append(<<>>, r)}
      BY <2>3, <2>5 DEF Appended
    <3>. QED  BY <1>2, <3>1, <3>2
  <2>8. Since(l)
    <3>1. CASE l.prev = a.prev /\ l.genStart \in {a.genStart, IF a.genStart = NoTime THEN now ELSE a.genStart}
      <4>1. CASE l.genStart = a.genStart
        BY <2>4, <3>1, <4>1 DEF Since
      <4>2. CASE l.genStart = now
        BY <1>0, <1>1, <2>3, <3>1, <4>2, PastSince
      <4>. QED  BY <3>1, <4>1, <4>2
    <3>2. CASE l.prev = a.main /\ l.genStart \in {NoTime, now}
      BY <1>0, <1>1, <2>3, <3>2, PastSince
    <3>3. CASE l.prev = <<>>
      BY <3>3 DEF Since
    <3>. QED  BY <2>5, <3>1, <3>2, <3>3 DEF Appended
  <2>. QED  BY <1>3, <2>1, <2>7, <2>8
<1>5. CASE Sweep
  <2>1. PICK l \in Sweeps : Set(l)
    BY <1>5 DEF Sweep
  <2>2. CASE handle = "closed"
    <3>1. l = Current /\ l.main = main /\ l.handle = "closed"
      BY <2>1, <2>2 DEF Sweeps, Current
    <3>. QED  BY <1>2, <1>3, <2>1, <3>1
  <2>3. CASE handle # "closed"
    <3> DEFINE a == Current
    <3>1. a = Current /\ a.main = main /\ LogInv(a, now, appended) /\ Since(a)
      BY <1>0, <2>3 DEF Current, StampInv
    <3> HIDE DEF a
    <3>2. Swept(l, a)
      BY <1>0, <2>1, <2>3, <3>1, SweepCases
    <3>3. Stamped(l.main)
      BY <1>2, <3>1, <3>2 DEF Swept
    <3>4. Since(l)
      BY <3>1, <3>2 DEF Swept, Since
    <3>. QED  BY <1>3, <2>1, <3>3, <3>4
  <2>. QED  BY <2>2, <2>3
<1>6. CASE Restart
  <2> DEFINE o == Opened
             l == IF Lazy THEN [o EXCEPT !.handle = "closed", !.size = 0, !.genStart = NoTime]
                  ELSE o
  <2>1. LogInv(o, now, appended) /\ o.main = main /\ o.prev = prev /\ o.genStart = FirstRecordTime
    BY <1>0, OpenKeeps
  <2>2. Set(l)
    BY <1>6 DEF Restart
  <2> HIDE DEF o
  <2>3. o \in LogType
    BY <2>1 DEF LogInv
  <2>4. l.main = main /\ (l.handle = "closed" \/ l = o)
    BY <2>1, <2>3 DEF LogType
  <2> HIDE DEF l
  <2>5. Since(o)
    BY <1>0, <1>2, <2>1, OpenedSince DEF Since
  <2>. QED  BY <1>2, <1>3, <2>2, <2>4, <2>5
<1>7. CASE Tick \/ UNCHANGED logVars
  <2>1. main' = main /\ handle' = handle /\ Current' = Current
    BY <1>7 DEF Tick, logVars, log, Current
  <2>. QED  BY <2>1 DEF StampInv, Stamped, Since
<1>. QED  BY <1>4, <1>5, <1>6, <1>7 DEF LogNext

\* A record that leaves the disk is older than the retention age less the lag of
\* the time stamps, unless the log is at its size cap: for any lag, whatever fails
\* and restarts.
THEOREM RecordsAreKept == LogSpec => KeptForTTL
<1> DEFINE d == TTL - MaxLag
           Stays(x) == \/ now - x.born > d
                       \/ SizeRotation
                       \/ \E j \in DOMAIN Stored' : Stored'[j] = x
           Step == OnlyOlderLeave(d)
<1>0. d \in Int /\ TTL \in Int /\ d <= TTL
  BY NdjsonAssumption
<1>1. ASSUME LogIInv, StampInv, [LogNext]_logVars, LogIInv'  PROVE [Step]_logVars
  <2>0. /\ LogInv(Current, now, appended) /\ now \in Nat /\ appended \in Nat
        /\ main \in Seq(LogRecord) /\ prev \in Seq(LogRecord)
        /\ main' \in Seq(LogRecord) /\ prev' \in Seq(LogRecord)
    BY <1>1 DEF LogIInv, LogInv, LogType, Current
  <2>1. ASSUME \A i \in 1..Len(main) : Stays(main[i]), \A i \in 1..Len(prev) : Stays(prev[i])
        PROVE  Step
    <3> SUFFICES ASSUME NEW i \in DOMAIN Stored  PROVE Stays(Stored[i])
      BY DEF OnlyOlderLeave
    <3>1. \/ i \in 1..Len(prev) /\ Stored[i] = prev[i]
          \/ i - Len(prev) \in 1..Len(main) /\ Stored[i] = main[i - Len(prev)]
      BY <2>0, StoredFacts DEF Stored
    <3> HIDE DEF Stays
    <3>. QED  BY <2>1, <3>1
  <2>2. /\ \A i \in 1..Len(prev') : Stays(prev'[i])
        /\ \A i \in 1..Len(main') : Stays(main'[i])
    <3>1. /\ \A i \in 1..Len(prev') : i \in DOMAIN Stored' /\ Stored'[i] = prev'[i]
          /\ \A i \in 1..Len(main') : Len(prev') + i \in DOMAIN Stored'
                                      /\ Stored'[Len(prev') + i] = main'[i]
      BY <2>0, StoredFacts DEF Stored
    <3>. QED  BY <3>1
  <2>3. ASSUME NEW x, x.born \in Nat, NEW g \in Int, x.born - MaxLag <= g, Expired(g)
        PROVE  now - x.born > d
    <3>1. now - g > TTL /\ now \in Nat /\ TTL \in Nat /\ MaxLag \in Nat
      BY <2>0, <2>3, NdjsonAssumption DEF Expired
    <3> QED BY ONLY <2>3, <3>1
  <2>4. ASSUME NEW a, Since(a), a.prev = prev, a \in LogType, Expired(a.genStart)
        PROVE  \A i \in 1..Len(prev) : Stays(prev[i])
    <3>1. a.genStart \in Int /\ a.genStart # NoTime
      BY <2>4 DEF Expired, LogType
    <3>. QED  BY <2>0, <2>3, <2>4, <3>1, ElementFacts DEF Since
  <2> HIDE DEF Stays, Step, d
  <2>5. ASSUME NEW w \in Weights, NEW lag \in 0..MaxLag, AppendRecord(w, lag)  PROVE Step
    <3> DEFINE r == [id |-> appended + 1, ts |-> now - lag, born |-> now, weight |-> w]
               a == AtHand
    <3>1. PICK l \in Appends(r) : Set(l)
      BY <2>5 DEF AppendRecord
    <3>2. r \in LogRecord /\ r.id = appended + 1 /\ r.born = now /\ r.ts <= now /\ r.weight = w
      BY <2>0, NdjsonAssumption DEF LogRecord
    <3>3. /\ LogInv(a, now, appended) /\ a.handle # "closed" /\ a.err = FALSE
          /\ a.main = main /\ a.prev = prev /\ a = AtHand
      BY <2>0, AtHandKeeps
    <3>4. Since(a)
      BY <1>1, AtHandSince
    <3> HIDE DEF r, a
    <3>5. Appended(l, a, r) /\ main' = l.main /\ prev' = l.prev
      BY <2>0, <3>1, <3>2, <3>3, AppendCases DEF Set
    <3>6. NeedRotate(a, w) => \A i \in 1..Len(prev) : Stays(prev[i])
      <4>1. CASE a.size + w > MaxLogBytes
        BY <3>3, <4>1 DEF SizeRotation, Stays
      <4>2. CASE Expired(a.genStart)
        BY <2>4, <3>3, <3>4, <4>2 DEF LogInv
      <4>. QED  BY <4>1, <4>2 DEF NeedRotate
    <3>7. CASE prev' = prev /\ main' = main
      BY <2>1, <2>2, <3>7
    <3>8. CASE prev' = prev /\ main' = Append(main, r)
      <4>1. \A i \in 1..Len(main) : i \in 1..Len(main') /\ main'[i] = main[i]
        BY <2>0, <3>2, <3>8, LogAppendFacts
      <4>. QED  BY <2>1, <2>2, <3>8, <4>1
    <3>9. CASE NeedRotate(a, w) /\ (prev' = main \/ main' = main)
      BY <2>1, <2>2, <3>6, <3>9
    <3>. QED  BY <3>2, <3>3, <3>5, <3>7, <3>8, <3>9 DEF Appended
  <2>6. CASE Sweep
    <3>1. PICK l \in Sweeps : Set(l)
      BY <2>6 DEF Sweep
    <3>2. CASE handle = "closed"
      <4>1. main' = main /\ prev' = prev
        BY <3>1, <3>2 DEF Sweeps, Current, Set
      <4>. QED  BY <2>1, <2>2, <4>1
    <3>3. CASE handle # "closed"
      <4> DEFINE a == Current
      <4>1. a = Current /\ a.main = main /\ a.prev = prev /\ LogInv(a, now, appended)
            /\ Since(a) /\ a \in LogType
        BY <1>1, <2>0, <3>3 DEF Current, StampInv, LogInv
      <4> HIDE DEF a
      <4>2. Swept(l, a) /\ main' = l.main /\ prev' = l.prev
        BY <2>0, <3>1, <3>3, <4>1, SweepCases DEF Set
      <4>3. Expired(a.genStart) => \A i \in 1..Len(prev) : Stays(prev[i])
        BY <2>4, <4>1
      <4>4. ASSUME NEW s \in Seq(LogRecord), s # <<>>, Rising(s), now - Last(s).born > TTL
            PROVE  \A i \in 1..Len(s) : Stays(s[i])
        <5> SUFFICES ASSUME NEW i \in 1..Len(s)  PROVE now - s[i].born > d
          BY DEF Stays
        <5>1. Len(s) \in 1..Len(s) /\ i <= Len(s) /\ Last(s) = s[Len(s)]
          BY <4>4 DEF Last
        <5>2. s[i].born <= s[Len(s)].born /\ now - s[Len(s)].born > TTL
          BY <4>4, <5>1 DEF Rising
        <5>3. s[i].born \in Nat /\ s[Len(s)].born \in Nat /\ TTL \in Nat
          BY <5>1, ElementFacts, NdjsonAssumption
        <5> DEFINE b == s[i].born
                   c == s[Len(s)].born
        <5>4. b \in Int /\ c \in Int /\ TTL \in Int /\ now \in Int /\ b <= c /\ now - c > TTL
          BY <2>0, <5>2, <5>3
        <5> HIDE DEF b, c
        <5>5. now - b > d
          BY ONLY <1>0, <5>4
        <5>. QED  BY <5>5 DEF b
      <4>5. Rising(main) /\ Rising(prev)
        BY <2>0 DEF LogInv, Ordered, Current
      <4>6. CASE main' = main /\ prev' = prev
        BY <2>1, <2>2, <4>6
      <4>7. CASE main' = main /\ a.prev # <<>> /\ Age(a) > TTL
        <5>1. \A i \in 1..Len(prev) : Stays(prev[i])
          BY <2>0, <4>1, <4>4, <4>5, <4>7 DEF Age
        <5>. QED  BY <2>1, <2>2, <4>7, <5>1
      <4>8. CASE Expired(a.genStart) /\ (main' = main \/ prev' = main)
        BY <2>1, <2>2, <4>3, <4>8
      <4>9. CASE Expired(a.genStart) /\ a.main # <<>> /\ now - Last(a.main).born > TTL
        <5>1. \A i \in 1..Len(main) : Stays(main[i])
          BY <2>0, <4>1, <4>4, <4>5, <4>9
        <5>. QED  BY <2>1, <4>3, <4>9, <5>1
      <4>. QED  BY <4>1, <4>2, <4>6, <4>7, <4>8, <4>9 DEF Swept
    <3>. QED  BY <3>2, <3>3
  <2>7. CASE Tick \/ Restart
    <3>1. main' = main /\ prev' = prev
      <4>1. CASE Tick
        BY <4>1 DEF Tick, log
      <4>2. CASE Restart
        <5> DEFINE o == Opened
        <5>1. o.main = main /\ o.prev = prev /\ o \in LogType
          BY <2>0, OpenKeeps DEF LogInv
        <5> HIDE DEF o
        <5>2. Set(IF Lazy THEN [o EXCEPT !.handle = "closed", !.size = 0, !.genStart = NoTime]
                  ELSE o)
          BY <4>2 DEF Restart, o
        <5>. QED  BY <5>1, <5>2 DEF Set, LogType
      <4>. QED  BY <2>7, <4>1, <4>2
    <3>. QED  BY <2>1, <2>2, <3>1
  <2>. QED  BY <1>1, <2>5, <2>6, <2>7 DEF LogNext
<1>2. LogSpec => [](LogIInv /\ StampInv)
  <2>1. LogIInv /\ StampInv /\ [LogNext]_logVars => StampInv'
    BY NextStamp
  <2>. QED  BY <2>1, InitStamp, LogInvariant, PTL DEF LogSpec
<1>3. KeptForTTL <=> [][Step]_logVars
  BY DEF KeptForTTL
<1>. QED  BY <1>1, <1>2, <1>3, PTL DEF LogSpec

=============================================================================
