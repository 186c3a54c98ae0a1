------------------------------ MODULE SpecDiff ------------------------------
(* What pikopod says of two versions of a contract (internal/specdiff): the  *)
(* findings of Diff, the law that gives each its level, and the gate.  A      *)
(* finding is its check's id, its level, the operation and its arguments;     *)
(* the order and the wording of the report are left out.                      *)
EXTENDS Contracts

-----------------------------------------------------------------------------
(* Contracts.  A body is the empty set or a singleton; a content maps media   *)
(* types to schemas, as a set of named schemas.                               *)

Content(media, schema) == [name |-> media, schema |-> schema]
Param(where, name, required, schema) ==
  [where |-> where, name |-> name, required |-> required, guessed |-> FALSE,
   deprecated |-> FALSE, schema |-> schema]
Body(required, content) == [required |-> required, guessed |-> FALSE, content |-> content]
Response(status, content) == [name |-> status, content |-> content]
Endpoint(op) ==
  [name |-> op, deprecated |-> FALSE, guessed |-> FALSE, path |-> <<>>,
   params |-> {}, body |-> {}, responses |-> {}, security |-> {}]
Definition(endpoints) == [endpoints |-> endpoints, schemas |-> {}, auth |-> {}]

Lost(old, new) == {x \in old : x.name \notin Names(new)}
Kept(old, new) == {<<x, Get(new, x.name)>> : x \in {y \in old : y.name \in Names(new)}}

-----------------------------------------------------------------------------
(* The law                                                                    *)

Rank(level) == CASE level = "ERR" -> 2 [] level = "WARN" -> 1 [] OTHER -> 0

\* Effect, direction and scope decide; what the provider announced, a client
\* tolerates, or a model extracted from prose weighs less.
DeriveLevel(effect, dir, scope, guards) ==
  LET tolerated == dir = "response" /\ "tolerated" \in guards
      lapsing == scope = "guaranteed" /\ "deprecated" \in guards
      level ==
        CASE effect = "unchanged" -> "INFO"
          [] effect = "incomparable" -> "ERR"
          [] effect = "narrows" /\ tolerated -> "INFO"
          [] effect = "narrows" /\ ~tolerated ->
               IF scope = "optional" \/ lapsing THEN "WARN" ELSE "ERR"
          [] effect = "widens" ->
               IF dir = "response" /\ scope = "guaranteed" /\ ~tolerated THEN "WARN" ELSE "INFO"
  IN IF level = "ERR" /\ "uncertain" \in guards THEN "WARN" ELSE level

Finding(id, level, args) == [id |-> id, level |-> level, args |-> args]
Doubt(guessed) == IF guessed THEN {"uncertain"} ELSE {}

\* Mutant of Shift: a client is taken to tolerate whatever an answer does.
ShiftTolerated(id, effect, dir, guessed, args) ==
  Finding(dir \o "-" \o id,
          DeriveLevel(effect, dir, "guaranteed",
                      IF dir = "response" THEN {"tolerated"} ELSE Doubt(guessed)),
          args)

\* One change of what is guaranteed.  A response that narrows is tolerated.
Shift(id, effect, dir, guessed, args) ==
  Finding(dir \o "-" \o id,
          DeriveLevel(effect, dir, "guaranteed",
                      IF dir = "response" /\ effect = "narrows" THEN {"tolerated"}
                      ELSE Doubt(guessed)),
          args)

When(cond, f) == IF cond THEN {f} ELSE {}

-----------------------------------------------------------------------------
(* Two schemas (specdiff/schema.go)                                           *)

Known(type) == type \notin {"", "unknown"}

TypeEffect(from, to) ==
  CASE from = "integer" /\ to = "number" -> "widens"
    [] from = "number" /\ to = "integer" -> "narrows"
    [] OTHER -> "incomparable"

TypeFindings(o, n, dir, at) ==
  When(o.type # n.type /\ Known(o.type) /\ Known(n.type),
       Shift("type-changed", TypeEffect(o.type, n.type), dir, o.guessed \/ n.guessed,
             at \o <<o.type, n.type>>))

NullFindings(o, n, dir, at) ==
  LET guessed == o.guessed \/ n.guessed
  IN When(n.nullable /\ ~o.nullable, Shift("nullable-added", "widens", dir, guessed, at))
       \cup When(o.nullable /\ ~n.nullable, Shift("nullable-removed", "narrows", dir, guessed, at))

EnumFindings(o, n, dir, at) ==
  LET guessed == o.guessed \/ n.guessed
  IN CASE o.enum = n.enum -> {}
       [] o.enum = {} /\ n.enum # {} -> {Shift("enum-closed", "narrows", dir, guessed, at)}
       [] n.enum = {} /\ o.enum # {} -> {Shift("enum-opened", "widens", dir, guessed, at)}
       [] OTHER ->
            {Shift("enum-value-removed", "narrows", dir, guessed, Append(at, e)) : e \in o.enum \ n.enum}
              \cup {Shift("enum-value-added", "widens", dir, guessed, Append(at, e)) : e \in n.enum \ o.enum}

PropRemoved(p, dir, at) ==
  LET args == Append(at, p.name)
  IN CASE dir = "request" ->
            Finding("request-property-removed",
                    DeriveLevel("narrows", dir, "optional", Doubt(p.guessed)), args)
       [] dir = "response" /\ p.required ->
            Finding("response-required-property-removed",
                    DeriveLevel("widens", dir, "guaranteed", Doubt(p.guessed)), args)
       [] OTHER ->
            Finding("response-property-removed", DeriveLevel("narrows", dir, "optional", {}), args)

PropAdded(p, dir, at) ==
  LET args == Append(at, p.name)
  IN CASE dir = "response" ->
            Finding("response-property-added",
                    DeriveLevel("widens", dir, "guaranteed", {"tolerated"}), args)
       [] dir = "request" /\ p.required -> Shift("property-added-required", "narrows", dir, p.guessed, args)
       [] OTHER -> Finding("request-property-added-optional",
                           DeriveLevel("widens", dir, "optional", {}), args)

PropKept(p, q, dir, at) ==
  LET args == Append(at, p.name)
  IN When(q.required /\ ~p.required, Shift("property-became-required", "narrows", dir, q.guessed, args))
       \cup When(p.required /\ ~q.required,
                 Shift("property-became-optional", "widens", dir, q.guessed, args))

\* Of two compositions of one kind only the number of members is compared.
Recomposed(o, n, dir, at) ==
  CASE o.kind # n.kind ->
         {Finding("schema-restructured",
                  DeriveLevel("incomparable", dir, "guaranteed",
                              Doubt((o.kind = "" \/ n.kind = "") /\ (o.guessed \/ n.guessed))), at)}
    [] Len(n.members) < Len(o.members) -> {Shift("variant-removed", "narrows", dir, FALSE, at)}
    [] Len(n.members) > Len(o.members) -> {Shift("variant-added", "widens", dir, FALSE, at)}
    [] OTHER -> {}

RECURSIVE WalkSchema(_, _, _, _, _, _)
WalkSchema(old, new, dir, at, oldNamed, newNamed) ==
  LET o == Flatten(old, oldNamed)
      n == Flatten(new, newNamed)
  IN IF o.kind # "" \/ n.kind # "" THEN Recomposed(o, n, dir, at)
     ELSE TypeFindings(o, n, dir, at) \cup NullFindings(o, n, dir, at)
            \cup EnumFindings(o, n, dir, at)
            \cup {PropRemoved(p, dir, at) : p \in Lost(o.props, n.props)}
            \cup {PropAdded(p, dir, at) : p \in Lost(n.props, o.props)}
            \cup UNION {PropKept(pq[1], pq[2], dir, at)
                          \cup WalkSchema(pq[1].schema, pq[2].schema, dir,
                                          Append(at, pq[1].name), oldNamed, newNamed)
                          : pq \in Kept(o.props, n.props)}
            \cup UNION {WalkSchema(i, j, dir, Append(at, "[]"), oldNamed, newNamed)
                          : i \in o.items, j \in n.items}

\* A media type that goes is an error in both directions; one that comes is not.
DiffContent(old, new, dir, at, oldNamed, newNamed) ==
  {Finding(dir \o "-media-type-removed", DeriveLevel("narrows", dir, "guaranteed", {}),
           Append(at, m.name)) : m \in Lost(old, new)}
    \cup {Finding(dir \o "-media-type-added",
                  DeriveLevel("widens", dir, "guaranteed",
                              IF dir = "response" THEN {"tolerated"} ELSE {}),
                  Append(at, m.name)) : m \in Lost(new, old)}
    \cup UNION {WalkSchema(m[1].schema, m[2].schema, dir, Append(at, m[1].name), oldNamed, newNamed)
                  : m \in Kept(old, new)}

-----------------------------------------------------------------------------
(* Two versions of an endpoint (specdiff.go)                                  *)

\* A path parameter is known by its position, every other one by where it is
\* and its name.
Counterparts(p, order, side, sideOrder) ==
  {q \in side :
     /\ q.where = p.where
     /\ IF p.where = "path"
        THEN \E i \in DOMAIN order \cap DOMAIN sideOrder :
               order[i] = p.name /\ sideOrder[i] = q.name
        ELSE q.name = p.name}

ParamKept(p, q, old, new) ==
  When(p.where = "path" /\ p.name # q.name,
       Finding("param-renamed", DeriveLevel("unchanged", "request", "guaranteed", {}), <<p.name, q.name>>))
    \cup When(q.required /\ ~p.required,
              Finding("param-became-required",
                      DeriveLevel("narrows", "request", "guaranteed", Doubt(q.guessed)), <<p.where, p.name>>))
    \cup When(p.required /\ ~q.required,
              Finding("param-became-optional",
                      DeriveLevel("widens", "request", "guaranteed", {}), <<p.where, p.name>>))
    \cup WalkSchema(p.schema, q.schema, "request", <<"param">>, old, new)

DiffParams(o, n, old, new) ==
  LET In(p) == Counterparts(p, o.path, n.params, n.path)
      Was(q) == Counterparts(q, n.path, o.params, o.path)
  IN {Finding("param-removed",
              DeriveLevel("narrows", "request", "optional", IF p.deprecated THEN {"deprecated"} ELSE {}),
              <<p.where, p.name>>) : p \in {p \in o.params : In(p) = {}}}
       \cup UNION {ParamKept(p, CHOOSE q \in In(p) : TRUE, old, new) : p \in {p \in o.params : In(p) # {}}}
       \cup {IF q.required
             THEN Finding("param-added-required",
                          DeriveLevel("narrows", "request", "guaranteed", Doubt(q.guessed)), <<q.where, q.name>>)
             ELSE Finding("param-added-optional",
                          DeriveLevel("widens", "request", "optional", {}), <<q.where, q.name>>)
               : q \in {q \in n.params : Was(q) = {}}}

DiffRequestBody(o, n, old, new) ==
  LET Say(id, effect, scope, guessed) ==
        Finding("request-body-" \o id, DeriveLevel(effect, "request", scope, Doubt(guessed)), <<>>)
  IN {IF b.required THEN Say("added-required", "narrows", "guaranteed", b.guessed)
      ELSE Say("added-optional", "widens", "optional", FALSE) : b \in {b \in n : o = {}}}
       \cup {Say("removed", "narrows", IF b.required THEN "guaranteed" ELSE "optional", FALSE)
               : b \in {b \in o : n = {}}}
       \cup UNION {When(c.required /\ ~b.required, Say("became-required", "narrows", "guaranteed", c.guessed))
                     \cup When(b.required /\ ~c.required, Say("became-optional", "widens", "guaranteed", FALSE))
                     \cup DiffContent(b.content, c.content, "request", <<>>, old, new)
                     : b \in o, c \in n}

Success(status) == status \in {"200", "201", "2XX", "default"}

DiffResponses(o, n, old, new) ==
  {Finding("response-status-removed",
           DeriveLevel("narrows", "response", "guaranteed",
                       CASE ~Success(r.name) -> {"tolerated"}
                         [] Success(r.name) /\ o.deprecated -> {"deprecated"}
                         [] OTHER -> {}),
           <<r.name>>) : r \in Lost(o.responses, n.responses)}
    \cup {Finding("response-status-added", DeriveLevel("widens", "response", "guaranteed", {}), <<r.name>>)
            : r \in Lost(n.responses, o.responses)}
    \cup UNION {DiffContent(r[1].content, r[2].content, "response", <<r[1].name>>, old, new)
                  : r \in Kept(o.responses, n.responses)}

\* Of an endpoint that needs authentication in both versions, the schemes that
\* no longer do are reported; one that is new is not.
DiffEndpointSecurity(o, n) ==
  LET Say(id, effect, args) ==
        Finding("endpoint-security-" \o id, DeriveLevel(effect, "request", "guaranteed", {}), args)
  IN When(o = {} /\ n # {}, Say("added", "narrows", <<>>))
       \cup When(o # {} /\ n = {}, Say("removed", "widens", <<>>))
       \cup {Say("scheme-removed", "narrows", <<s>>) : s \in {s \in o \ n : n # {}}}

DiffEndpoint(o, n, old, new) ==
  When(n.deprecated /\ ~o.deprecated,
       Finding("endpoint-deprecated", DeriveLevel("unchanged", "request", "guaranteed", {}), <<>>))
    \cup DiffParams(o, n, old, new) \cup DiffRequestBody(o.body, n.body, old, new)
    \cup DiffResponses(o, n, old, new) \cup DiffEndpointSecurity(o.security, n.security)

DiffAuthSchemes(o, n) ==
  LET Say(id, effect, a) ==
        Finding("auth-scheme-" \o id, DeriveLevel(effect, "request", "guaranteed", {}), <<a.name>>)
  IN {Say("removed", "narrows", a) : a \in Lost(o, n)}
       \cup {Say("changed", "incomparable", p[1]) : p \in {p \in Kept(o, n) : p[1].is # p[2].is}}
       \cup {Say("added", "widens", a) : a \in Lost(n, o)}

On(op, findings) == {[op |-> op, finding |-> f] : f \in findings}

Diff(old, new) ==
  UNION {On(e.name, {Finding("endpoint-removed",
                             DeriveLevel("narrows", "request", "guaranteed",
                                         Doubt(e.guessed) \cup IF e.deprecated THEN {"deprecated"} ELSE {}),
                             <<>>)}) : e \in Lost(old.endpoints, new.endpoints)}
    \cup UNION {On(e.name, {Finding("endpoint-added", DeriveLevel("widens", "request", "guaranteed", {}), <<>>)})
                  : e \in Lost(new.endpoints, old.endpoints)}
    \cup UNION {On(e[1].name, DiffEndpoint(e[1], e[2], old.schemas, new.schemas))
                  : e \in Kept(old.endpoints, new.endpoints)}
    \cup On("(auth)", DiffAuthSchemes(old.auth, new.auth))

Breaking(findings, floor) == \E f \in findings : Rank(f.finding.level) >= Rank(floor)
=============================================================================
