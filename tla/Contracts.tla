----------------------------- MODULE Contracts -----------------------------
(* A provider's contract as the importers leave it (internal/ir), and the    *)
(* four readings of a schema: allOf flattened into one node (ir), the        *)
(* sandbox's check of a request body, the check of a recorded response       *)
(* (conformance), and the answers the sandbox makes up.  Only what these     *)
(* readings tell apart is kept: a schema is a tree of records, a property's  *)
(* position and a value's wording are not in it.                             *)
EXTENDS Integers, FiniteSets, SequencesExt

CONSTANT Volatile     \* fields whose values are never held against an enum

-----------------------------------------------------------------------------
(* JSON values: a class, and the part of the record that the class uses.     *)

Scalar(class, s) == [class |-> class, scalar |-> s, fields |-> {}, elems |-> {}]
Null == Scalar("null", "")
String(s) == Scalar("string", s)
Whole == Scalar("number", "1")
Fraction == Scalar("number", "1.5")
Object(fs) == [Null EXCEPT !.class = "object", !.fields = fs]
Array(es) == [Null EXCEPT !.class = "array", !.elems = es]

Field(name, v) == [name |-> name, value |-> v]
Names(S) == {x.name : x \in S}
Get(S, name) == CHOOSE x \in S : x.name = name

-----------------------------------------------------------------------------
(* Schemas.  No enum is the empty set, which is also what an enum without    *)
(* values means to every reader.                                             *)

Node(type) ==
  [type |-> type, nullable |-> FALSE, guessed |-> FALSE, readOnly |-> FALSE,
   enum |-> {}, props |-> {}, items |-> {}, kind |-> "", members |-> <<>>,
   ref |-> ""]

Prop(name, required, schema) ==
  [name |-> name, required |-> required, guessed |-> FALSE, schema |-> schema]

\* A $ref is followed to the named schema; one that leads nowhere stays.
RECURSIVE Target(_, _)
Target(n, named) ==
  IF n.ref \in Names(named) THEN Target(Get(named, n.ref).schema, named) ELSE n

\* The property two members of an allOf share has the later one's schema, and is
\* required as the earlier one says if that requires it.
MergeProps(earlier, later) ==
  {p \in earlier : p.name \notin Names(later)}
    \cup {LET requires == {q \in earlier : q.name = p.name /\ q.required}
          IN IF requires = {} THEN p
             ELSE [p EXCEPT !.required = TRUE, !.guessed = \E q \in requires : q.guessed]
            : p \in later}

\* An allOf as one node.  Members that are compositions themselves, or that
\* disagree about the type, leave it as it is.  The allOf's own nullable is not
\* looked at.
RECURSIVE Flatten(_, _)
Flatten(n, named) ==
  LET t == Target(n, named)
      ms == [i \in DOMAIN t.members |-> Flatten(t.members[i], named)]
      each == {ms[i] : i \in DOMAIN ms}
      typed == SelectSeq(ms, LAMBDA m : m.type \notin {"", "unknown"})
      enums == {m.enum : m \in each} \ {{}}
      lists == SelectSeq(ms, LAMBDA m : m.items # {})
  IN CASE t.kind # "allOf" -> t
       [] \/ \E m \in each : m.kind # ""
          \/ \E i, j \in DOMAIN typed : typed[i].type # typed[j].type -> t
       [] OTHER ->
            [Node("") EXCEPT
               !.type = IF typed = <<>> THEN "" ELSE Last(typed).type,
               !.guessed = typed # <<>> /\ Last(typed).guessed,
               !.nullable = each # {} /\ \A m \in each : m.nullable,
               !.enum = IF enums = {} THEN {}
                        ELSE {e \in UNION enums : \A s \in enums : e \in s},
               !.items = IF lists = <<>> THEN {} ELSE Head(lists).items,
               !.props = FoldLeft(LAMBDA ps, m : MergeProps(ps, m.props), {}, ms)]

-----------------------------------------------------------------------------
(* The sandbox's check of a request body (sandbox.validateNode).             *)

HasType(type, v) ==
  CASE type = "integer" -> v = Whole
    [] type = "number" -> v.class = "number"
    [] type \in {"string", "boolean", "object", "array"} -> v.class = type
    [] type = "null" -> FALSE
    [] OTHER -> TRUE

\* The client is not asked for what the server sets.
ServerAssigned(p, depth) == p.schema.readOnly \/ (depth = 0 /\ p.name = "id")

RECURSIVE Accepts(_, _, _, _)
Accepts(n, v, depth, named) ==
  LET t == Target(n, named)
  IN \/ t.ref # ""
     \/ v = Null /\ (t.nullable \/ t.type = "null")
     \/ /\ v # Null
        /\ t.type = "unknown" \/ HasType(t.type, v)
        /\ t.enum = {} \/ (v.class = "string" /\ v.scalar \in t.enum)
        /\ t.type = "object" =>
             \A p \in t.props :
               \/ ServerAssigned(p, depth)
               \/ IF p.name \in Names(v.fields)
                  THEN Accepts(p.schema, Get(v.fields, p.name).value, depth + 1, named)
                  ELSE ~p.required
        /\ t.type = "array" =>
             \A i \in t.items, e \in v.elems : Accepts(i, e, depth + 1, named)

-----------------------------------------------------------------------------
(* The check of a recorded response (conformance.checker.walk).  What the    *)
(* recorder redacted is not held against the provider.                       *)

Violation(at, code, observed) == [at |-> at, code |-> code, observed |-> observed]

ScalarClass(type) ==
  IF type \in {"integer", "number"} THEN "number"
  ELSE IF type \in {"string", "boolean", "object", "array"} THEN type ELSE ""

\* Enums are compared for strings only, and not for identifiers and the like.
OutsideEnum(t, v, at) ==
  /\ v.class = "string" /\ t.enum # {} /\ v.scalar \notin t.enum
  /\ at = <<>> \/ Last(at) \notin Volatile

RECURSIVE Violations(_, _, _, _, _)
Violations(n, v, at, hidden, named) ==
  LET t == IF n.kind = "" THEN n ELSE Flatten(n, named)
      Under(m, w, seg) == Violations(m, w, Append(at, seg), hidden, named)
      Unless(vs) == IF at \in {h.at : h \in hidden} THEN {} ELSE vs
  IN CASE n.ref # "" ->
            IF n.ref \in Names(named)
            THEN Violations(Get(named, n.ref).schema, v, at, hidden, named) ELSE {}
       [] n.ref = "" /\ t.kind # "" ->
            IF \E i \in DOMAIN t.members :
                 Violations(t.members[i], v, at, hidden, named) = {}
            THEN {} ELSE {Violation(at, "composition", "")}
       [] n.ref = "" /\ t.kind = "" /\ v = Null ->
            IF ~t.nullable /\ t.type # "" THEN Unless({Violation(at, "type", "null")}) ELSE {}
       [] n.ref = "" /\ t.kind = "" /\ v # Null /\ ScalarClass(t.type) \notin {"", v.class} ->
            Unless({Violation(at, "type", v.class)})
       [] OTHER ->
            UNION ( {IF OutsideEnum(t, v, at) THEN Unless({Violation(at, "enum", v.scalar)}) ELSE {}}
              \cup {Under(p.schema, Get(v.fields, p.name).value, p.name)
                      : p \in {q \in t.props : v.class = "object" /\ q.name \in Names(v.fields)}}
              \cup {{Violation(Append(at, p.name), "required", "")}
                      : p \in {q \in t.props : /\ v.class = "object" /\ q.required
                                               /\ q.name \notin Names(v.fields)
                                               /\ [at |-> Append(at, q.name), mode |-> "DROP"] \notin hidden}}
              \cup {Under(i, e, "*") : i \in t.items, e \in v.elems} )

Conforms(n, v, named) == Violations(n, v, <<>>, {}, named) = {}

-----------------------------------------------------------------------------
(* The answers the sandbox makes up (sandbox.synthesize), for any seed.      *)

\* Mutant of FirstOf: the members of an allOf are alternatives too.
FirstMember(n, named) == n.members[1]

\* Of an allOf the objects are merged, the first word on a property counting;
\* of everything else, and of an allOf without objects, the first member.
RECURSIVE Deref(_, _)
FirstOf(n, named) ==
  LET objects == SelectSeq([i \in DOMAIN n.members |-> Deref(n.members[i], named)],
                           LAMBDA m : m.type = "object")
  IN IF n.kind # "allOf" \/ objects = <<>> THEN n.members[1]
     ELSE [Node("object") EXCEPT
             !.nullable = Last(objects).nullable,
             !.props = FoldLeft(LAMBDA ps, m : ps \cup {p \in m.props : p.name \notin Names(ps)},
                                {}, objects)]
Deref(n, named) ==
  LET t == Target(n, named)
  IN IF t.members = <<>> THEN t ELSE Deref(FirstOf(t, named), named)

RECURSIVE Synthesized(_, _)
Synthesized(n, named) ==
  LET t == Target(n, named)
      Options == [p \in t.props |-> Synthesized(p.schema, named)]
  IN CASE t.ref # "" -> {Null}
       [] t.members # <<>> -> Synthesized(FirstOf(t, named), named)
       [] t.members = <<>> /\ t.ref = "" /\ t.enum # {} -> {String(e) : e \in t.enum}
       [] t.members = <<>> /\ t.enum = {} /\ t.type = "object" ->
            {Object({Field(p.name, f[p]) : p \in t.props})
               : f \in {g \in [t.props -> UNION {Options[p] : p \in t.props}]
                          : \A p \in t.props : g[p] \in Options[p]}}
       [] t.members = <<>> /\ t.enum = {} /\ t.type = "array" ->
            {Array({e}) : e \in UNION {Synthesized(i, named) : i \in t.items}}
              \cup {Array({}) : x \in IF t.items = {} THEN {1} ELSE {}}
       [] t.enum = {} /\ t.type = "integer" -> {Whole}
       [] t.enum = {} /\ t.type = "number" -> {Whole, Fraction}
       [] t.enum = {} /\ t.type = "boolean" -> {Scalar("boolean", "true")}
       [] t.enum = {} /\ t.type = "null" -> {Null}
       [] OTHER -> {String("word")}
=============================================================================
