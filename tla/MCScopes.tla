------------------------------ MODULE MCScopes ------------------------------
EXTENDS Scopes
CONSTANTS c1, c2, a, b, ik
Known1 == [route |-> "declared", exact |-> 1, shape |-> 1]
Known2 == [route |-> "declared", exact |-> 2, shape |-> 1]
Stray == [route |-> "unknown", exact |-> 1, shape |-> 1]
MCAsk == {Known1, Known2, Stray}
MCFaults == <<[times |-> 1, per |-> "idempotency-key", error |-> TRUE]>>
MCRules == <<[times |-> 1, per |-> "global"]>>
MCRecordings == <<[exact |-> 1, shape |-> 1, ok |-> TRUE], [exact |-> 3, shape |-> 1, ok |-> TRUE],
                  [exact |-> 1, shape |-> 1, ok |-> FALSE]>>
=============================================================================
