---------------------------- MODULE MCWebhooks ----------------------------
EXTENDS Webhooks
CONSTANTS r1, r2, m1, k1, paid, made, charges
MCDeclared == <<[event |-> paid, trigger |-> charges, action |-> None],
                [event |-> made, trigger |-> None, action |-> "created"]>>
MCCallOf == [t \in Request |-> IF t = r1 THEN [endpoint |-> charges, action |-> "created", fallback |-> made]
                               ELSE [endpoint |-> charges, action |-> "updated", fallback |-> None]]
MCEmitOf == [t \in Emission |-> made]
=============================================================================
