------------------------------ MODULE MCLearner ------------------------------
EXTENDS Learner
CONSTANTS charges, refunds, latest, oldest, u, uuid, f, g, v, w, h, tick

MCPlaceholder == [s \in {u} |-> uuid]
MCClassOf == [s \in {200, 201, 404} |-> IF s = 404 THEN "4xx" ELSE "2xx"]
Text(val) == [type |-> "string", value |-> val]
Number == [type |-> "number", value |-> None]
Null == [type |-> "null", value |-> None]
Both == [n \in {f, g} |-> IF n = f THEN Text(v) ELSE Number]
Other == [n \in {f} |-> Text(w)]
Nothing == [n \in {f} |-> Null]
To(path, status, body) == [path |-> path, status |-> status, body |-> body]
MCExchange == {To(<<charges, latest>>, 200, Both), To(<<charges, latest>>, 200, Other),
               To(<<charges, oldest>>, 201, Nothing), To(<<refunds, latest>>, 200, Both),
               To(<<charges, u, refunds>>, 200, Other)}
=============================================================================
