-------------------------- MODULE MCSpecEvolution --------------------------
(* A small instance of SpecEvolution for TLC: one operation, and versions of  *)
(* its contract that differ in one place from the plain one.                  *)
EXTENDS SpecEvolution

Str == Node("string")
Enum(S) == [Str EXCEPT !.enum = S]
Nullable(n) == [n EXCEPT !.nullable = TRUE]
Guessed(n) == [n EXCEPT !.guessed = TRUE]
Obj(ps) == [Node("object") EXCEPT !.props = ps]
Arr(is) == [Node("array") EXCEPT !.items = is]
Ref(id) == [Node("unknown") EXCEPT !.ref = id]
Composed(kind, ms) == [Node("unknown") EXCEPT !.kind = kind, !.members = ms]

Scalars ==
  {Str, Enum({"a"}), Enum({"a", "b"}), Nullable(Str), Node("integer"), Node("number"),
   Guessed(Node("boolean")), Node("unknown")}

Composites ==
  {Arr({}), Arr({Str}), Arr({Enum({"a"})}), Ref("T"),
   Obj({}), Obj({Prop("p", FALSE, Str), Prop("id", TRUE, Str)}), Obj({Prop("p", TRUE, Str)}),
   Obj({Prop("p", TRUE, Nullable(Str))}), Obj({Prop("p", FALSE, Node("integer"))}),
   Arr({Obj({Prop("p", TRUE, Enum({"a"}))})}),
   Composed("allOf", <<Ref("T"), Obj({Prop("id", TRUE, Str)})>>),
   Composed("allOf", <<Ref("T"), Obj({Prop("p", TRUE, Str)})>>),
   Composed("allOf", <<Str, Enum({"a"})>>),
   Nullable(Composed("allOf", <<Enum({"a"})>>)),
   Composed("oneOf", <<Str, Node("integer")>>),
   Composed("oneOf", <<Node("integer"), Node("boolean")>>),
   Composed("oneOf", <<Str, Node("integer"), Node("boolean")>>)}

MCSchemas == {[name |-> "T", schema |-> Obj({Prop("p", FALSE, Enum({"a"}))})]}

Plain ==
  [Endpoint("op") EXCEPT
     !.params = {Param("query", "q", FALSE, Str)},
     !.body = {Body(TRUE, {Content("json", Str)})},
     !.responses = {Response("200", {Content("json", Str)}), Response("404", {})},
     !.security = {"key"}]

With(e) ==
  [Definition({e}) EXCEPT !.schemas = MCSchemas, !.auth = {[name |-> "key", is |-> "bearer"]}]

Asking(n) == With([Plain EXCEPT !.body = {Body(TRUE, {Content("json", n)})}])
Answering(n) == With([Plain EXCEPT !.responses = {Response("200", {Content("json", n)}), Response("404", {})}])
Returning(rs) == With([Plain EXCEPT !.responses = rs])
Enumerated(status) == Response(status, {Content("json", Enum({"a"}))})
Taking(ps) == With([Plain EXCEPT !.params = ps])

MCVersions ==
  {Asking(n) : n \in Scalars \cup Composites}
    \cup {Answering(n) : n \in Scalars \cup Composites}
    \cup {Taking(ps) : ps \in {{}, {Param("query", "q", TRUE, Str)}, {Param("query", "q", FALSE, Node("integer"))},
                               {Param("query", "q", FALSE, Str), Param("header", "h", TRUE, Str)}}}
    \cup {With([Plain EXCEPT !.body = b]) : b \in {{}, {Body(FALSE, {Content("json", Str)})},
                                                  {Body(TRUE, {Content("json", Str), Content("form", Str)})}}}
    \cup {Returning(rs) :
            rs \in {{Response("404", {})}, {Response("200", {Content("json", Str)})},
                    {Response("200", {Content("json", Str)}), Response("default", {})},
                    {Enumerated("2XX")}, {Enumerated("default")}, {Enumerated("2XX"), Enumerated("200")}}}
    \cup {With([Plain EXCEPT !.path = <<x>>, !.params = {Param("path", x, TRUE, Str)}]) : x \in {"x", "y"}}
    \cup {With([Plain EXCEPT !.security = ss]) : ss \in {{}, {"key", "mtls"}, {"mtls"}}}
    \cup {With([Plain EXCEPT !.deprecated = TRUE]), [With(Plain) EXCEPT !.auth = {}],
          [With(Plain) EXCEPT !.auth = {[name |-> "key", is |-> "basic"]}], Definition({})}

MCScalars == {String("a"), String("b"), Whole, Fraction, Scalar("boolean", "true"), Null}
MCValues ==
  MCScalars \cup {Array({v}) : v \in MCScalars} \cup {Array({})}
    \cup {Object({}), Object({Field("p", String("a")), Field("id", String("b"))})}
    \cup {Object({Field("p", v)}) : v \in MCScalars}

Rec(status, v) == Recorded("op", status, v, {})
MCRecordings ==
  {<<>>} \cup {<<Rec("200", v)>> : v \in {String("b"), Null, Array({String("b")}), Object({Field("p", String("b"))})}}
    \cup {<<Rec("200", Object({Field("p", Null)})), Rec("404", Null)>>,
          <<Rec("200", Whole), Rec("429", Null)>>,
          <<Recorded("op", "200", String("b"), {[at |-> <<>>, mode |-> "TOKEN"]})>>}
MCAdmissions ==
  {{}, {[Change("add-property", "op", "", <<>>, "seen") EXCEPT !.class = "2XX"]}}
=============================================================================
