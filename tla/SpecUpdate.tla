----------------------------- MODULE SpecUpdate -----------------------------
(* pikopod agent spec-update: what recorded traffic says against a contract   *)
(* (internal/conformance), the changes that follow from it, and their         *)
(* application to the provider's document (internal/specupdate).  What        *)
(* widens is applied in place, what narrows is only suggested.                *)
EXTENDS SpecDiff

-----------------------------------------------------------------------------
(* A recorded exchange with a JSON answer, and the response it is held to     *)

Recorded(op, status, body, hidden) ==
  [op |-> op, status |-> status, body |-> body, hidden |-> hidden]

ClassOf(status) ==
  CASE status \in {"200", "201"} -> "2XX" [] status \in {"404", "429"} -> "4XX" [] OTHER -> "5XX"

FirstNamed(names, S) ==
  LET found == SelectSeq(names, LAMBDA x : x \in Names(S))
  IN IF found = <<>> THEN {} ELSE {Get(S, Head(found))}

DeclaredResponse(e, status) == FirstNamed(<<status, ClassOf(status), "default">>, e.responses)

JsonSchema(r) == {c.schema : c \in {c \in r.content : c.name = "json"}}

\* conformance.checkRecord; an operation the contract does not have is skipped.
CheckRecord(def, rec) ==
  LET Say(v) == [op |-> rec.op, status |-> rec.status, at |-> v.at, code |-> v.code, observed |-> v.observed]
      Of(e) == IF DeclaredResponse(e, rec.status) = {}
               THEN {Violation(<<>>, "status_undeclared", "")}
               ELSE UNION {Violations(s, rec.body, <<>>, rec.hidden, def.schemas)
                             : s \in UNION {JsonSchema(r) : r \in DeclaredResponse(e, rec.status)}}
  IN {Say(v) : v \in UNION {Of(e) : e \in {e \in def.endpoints : e.name = rec.op}}}

SameKey(v, w) == <<v.op, v.status, v.at, v.code>> = <<w.op, w.status, w.at, w.code>>

\* One violation is kept for each place and code, with what it saw first.
Keep(seen, vs) ==
  seen \cup {CHOOSE w \in vs : SameKey(v, w) : v \in {v \in vs : ~\E s \in seen : SameKey(s, v)}}

Check(def, records) ==
  FoldLeft(LAMBDA seen, rec : Keep(seen, CheckRecord(def, rec)), {}, records)

-----------------------------------------------------------------------------
(* The changes                                                                *)

Change(kind, op, status, at, value) ==
  [kind |-> kind, op |-> op, status |-> status, class |-> ClassOf(status), at |-> at, value |-> value]

Additive(kind) == kind \in {"add-status", "enum-union", "nullable-wrap", "add-property"}

ChangeFor(v) ==
  LET To(kind, value) == Change(kind, v.op, v.status, v.at, value)
  IN CASE v.code = "status_undeclared" -> {To("add-status", "")}
       [] v.code = "enum" -> {To("enum-union", v.observed)}
       [] v.code = "type" /\ v.observed = "null" -> {To("nullable-wrap", "")}
       [] v.code = "type" /\ v.observed # "null" -> {To("retype", v.observed)}
       [] v.code = "required" -> {To("make-optional", "")}
       [] OTHER -> {}

\* The overlay's admissions come as changes for a class of statuses.
DeriveChanges(violations, admitted) == UNION {ChangeFor(v) : v \in violations} \cup admitted

-----------------------------------------------------------------------------
(* The document                                                               *)

\* Mutant of FindResponse: the class is looked up before the status.
FindByClass(e, c) == FirstNamed(<<c.class, c.status, "default">>, e.responses)

\* The response a change is for: its status as the check looks it up, or any
\* declared status of its class.
FindResponse(e, c) ==
  LET codes == {r \in e.responses : r.name \notin {"2XX", "4XX", "5XX", "default"}}
      alike == {r \in codes : c.status = "" /\ ClassOf(r.name) = c.class}
  IN IF alike # {} THEN {CHOOSE r \in alike : TRUE}
     ELSE FirstNamed(<<c.status, c.class, "default">>, e.responses)

\* Where a pointer leads: into the schema itself (base "") or, past a $ref,
\* into a named one.  Compositions are not entered.
RECURSIVE Navigate(_, _, _, _, _)
Navigate(n, at, base, path, named) ==
  LET next == IF at = <<>> THEN {}
              ELSE IF Head(at) = "*" THEN n.items
              ELSE {p.schema : p \in {p \in n.props : p.name = Head(at)}}
  IN CASE n.ref \in Names(named) -> Navigate(Get(named, n.ref).schema, at, n.ref, <<>>, named)
       [] n.ref = "" /\ at = <<>> -> {[base |-> base, path |-> path, node |-> n]}
       [] n.ref = "" /\ next # {} ->
            Navigate(CHOOSE m \in next : TRUE, Tail(at), base, Append(path, Head(at)), named)
       [] OTHER -> {}

RECURSIVE Put(_, _, _)
Put(n, path, m) ==
  IF path = <<>> THEN m
  ELSE IF Head(path) = "*" THEN [n EXCEPT !.items = {Put(i, Tail(path), m) : i \in @}]
  ELSE [n EXCEPT !.props = {IF p.name = Head(path) THEN [p EXCEPT !.schema = Put(@, Tail(path), m)]
                            ELSE p : p \in @}]

Swap(S, name, x) == {y \in S : y.name # name} \cup {x}

\* What an additive change makes of the node it points at, if anything.
Amended(n, c) ==
  CASE c.kind = "enum-union" ->
         IF n.enum # {} /\ c.value \notin n.enum THEN {[n EXCEPT !.enum = @ \cup {c.value}]} ELSE {}
    [] c.kind = "nullable-wrap" -> IF n.nullable THEN {} ELSE {[n EXCEPT !.nullable = TRUE]}
    [] c.kind = "add-property" ->
         IF (n.props # {} \/ n.type = "object") /\ c.value \notin Names(n.props)
         THEN {[n EXCEPT !.props = @ \cup {Prop(c.value, FALSE, Node("unknown"))}]} ELSE {}
    [] OTHER -> {}

InResponse(def, e, r, schema) ==
  [def EXCEPT !.endpoints =
     Swap(@, e.name, [e EXCEPT !.responses =
       Swap(@, r.name, [r EXCEPT !.content = Swap(@, "json", Content("json", schema))])])]

InSchema(def, e, r, spot, m) ==
  IF spot.base # "" THEN [def EXCEPT !.schemas =
       Swap(@, spot.base, [name |-> spot.base, schema |-> Put(Get(@, spot.base).schema, spot.path, m)])]
  ELSE InResponse(def, e, r, Put(CHOOSE s \in JsonSchema(r) : TRUE, spot.path, m))

Spots(def, c) ==
  UNION {UNION {Navigate(s, c.at, "", <<>>, def.schemas) : s \in JsonSchema(r)}
           : r \in UNION {FindResponse(e, c) : e \in {e \in def.endpoints : e.name = c.op}}}

\* applier.apply: the documents it can leave, none when the change is skipped, as
\* it is for an operation without responses.
Apply(def, c) ==
  UNION {IF c.kind = "add-status"
         THEN IF e.responses = {} \/ c.status \in Names(e.responses) THEN {}
              ELSE {[def EXCEPT !.endpoints =
                       Swap(@, e.name, [e EXCEPT !.responses = @ \cup {Response(c.status, {})}])]}
         ELSE UNION {{InSchema(def, e, r, spot, m) : m \in Amended(spot.node, c)}
                       : r \in FindResponse(e, c), spot \in Spots(def, c)}
         : e \in {e \in def.endpoints : e.name = c.op}}

\* The whole command: every additive change in turn, the others left alone.
Updated(def, records, admitted) ==
  FoldLeft(LAMBDA u, c :
             IF Additive(c.kind) /\ Apply(u.def, c) # {}
             THEN [def |-> CHOOSE d \in Apply(u.def, c) : TRUE, applied |-> u.applied \cup {c}]
             ELSE u,
           [def |-> def, applied |-> {}],
           SetToSeq(DeriveChanges(Check(def, records), admitted)))
=============================================================================
