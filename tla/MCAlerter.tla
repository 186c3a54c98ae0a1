----------------------------- MODULE MCAlerter -----------------------------
(* A small instance of Alerter for TLC: the findings reported and the          *)
(* acknowledgements made are counted and end.                                 *)
EXTENDS Alerter

CONSTANTS f1, f2, f3, recorder, watcher,
  MaxCalls         \* model bound: calls of Report, reportFirst and Ack

VARIABLE calls
mcVars == <<vars, calls>>

Called == calls < MaxCalls /\ calls' = calls + 1

MCInit == Init /\ calls = 0

MCNext ==
  \/ Called /\ \E t \in Emitter, f \in Fp : Report(t, f) \/ TurnAway(t, f)
  \/ Called /\ \E t \in Acker, f \in Fp : Ack(t, f)
  \/ UNCHANGED calls /\ \E t \in Ticker : MaybeDigest(t)
  \/ UNCHANGED calls /\ \E t \in Thread : Emit(t)
  \/ UNCHANGED calls /\ (DeliveryLoop \/ Close \/ Restart)

\* ReporterSpec with the count.
MCReporterSpec ==
  /\ MCInit /\ [][MCNext]_mcVars
  /\ \A t \in Thread : WF_mcVars(Emit(t) /\ UNCHANGED calls)
=============================================================================
