--------------------------- MODULE MCCaptureQueue ---------------------------
(* Small instances of CaptureQueue for TLC.                                  *)
EXTENDS CaptureQueue

CONSTANTS e1, e2, e3, e4

\* Calls and a webhook; some bodies are twice the others.
MCInbound == {e2}
MCSize == [e \in Exchange |-> IF e \in {e1, e4} THEN 2 ELSE 1]
=============================================================================
