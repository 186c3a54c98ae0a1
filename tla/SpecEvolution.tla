--------------------------- MODULE SpecEvolution ---------------------------
(* A provider releases versions of its contract, or takes over what           *)
(* spec-update made of it; a team that built on an earlier version is warned  *)
(* by the differences between each version and the next, and adopts the       *)
(* current one when it likes.                                                 *)
EXTENDS SpecUpdate

CONSTANTS
  Versions,      \* the contracts the provider may release
  Recordings,    \* the traffic that spec-update may find
  Admissions,    \* what the traffic overlay may have admitted
  Values         \* the JSON values that clients and providers send

VARIABLES
  built,         \* the version the team built on
  published      \* the version in force

vars == <<built, published>>

Init ==
  /\ published \in Versions
  /\ built = published

-----------------------------------------------------------------------------
(* What the comparison does not look at                                       *)

\* Whether a schema's members are exchanged for others, a type is given up or
\* settled, or an array begins or ceases to say what its items are.
RECURSIVE Blind(_, _, _, _)
Blind(old, new, oldNamed, newNamed) ==
  LET o == Flatten(old, oldNamed)
      n == Flatten(new, newNamed)
  IN IF o.kind # "" \/ n.kind # ""
     THEN /\ o.kind = n.kind
          /\ ~(Range(o.members) \subseteq Range(n.members))
          /\ ~(Range(n.members) \subseteq Range(o.members))
     ELSE \/ Known(o.type) # Known(n.type)
          \/ (o.items = {}) # (n.items = {})
          \/ \E i \in o.items, j \in n.items : Blind(i, j, oldNamed, newNamed)
          \/ \E p \in Kept(o.props, n.props) : Blind(p[1].schema, p[2].schema, oldNamed, newNamed)

BlindContent(old, new, oldNamed, newNamed) ==
  \E m \in Kept(old, new) : Blind(m[1].schema, m[2].schema, oldNamed, newNamed)

BlindSpot(old, new) ==
  \E e \in Kept(old.endpoints, new.endpoints) :
    \/ \E q \in e[2].params : \E p \in Counterparts(q, e[2].path, e[1].params, e[1].path) :
         Blind(p.schema, q.schema, old.schemas, new.schemas)
    \/ \E b \in e[1].body, c \in e[2].body : BlindContent(b.content, c.content, old.schemas, new.schemas)
    \/ \E r \in Kept(e[1].responses, e[2].responses) :
         BlindContent(r[1].content, r[2].content, old.schemas, new.schemas)

-----------------------------------------------------------------------------
(* The steps                                                                  *)

\* spec-diff and the sandbox's upgrade compare the version in force with the next
\* one; the watcher compares every next one with the pin, so that its user hears
\* at least as much as along this chain.  A team that is warned, or whose part of the
\* contract changed where nobody looks, builds anew; any other stays as it is.
Compare(new) ==
  /\ published' = new
  /\ built' = IF Breaking(Diff(published, new), "WARN") \/ BlindSpot(published, new)
              THEN new ELSE built

Release == \E d \in Versions \ {published} : Compare(d)

Update ==
  \E records \in Recordings, admitted \in Admissions :
    /\ DeriveChanges(Check(published, records), admitted) # {}
    /\ Compare(Updated(published, records, admitted).def)

Adopt ==
  /\ built # published
  /\ built' = published
  /\ UNCHANGED published

Next == Release \/ Update \/ Adopt

Spec == Init /\ [][Next]_vars

-----------------------------------------------------------------------------
(* What a contract means to those who keep it                                 *)

\* Nobody sends what the contract does not mention.
RECURSIVE Declared(_, _, _)
Declared(n, v, named) ==
  LET t == Flatten(n, named)
  IN IF t.kind # "" THEN \E i \in DOMAIN t.members : Declared(t.members[i], v, named)
     ELSE /\ \A f \in v.fields : \E p \in t.props : p.name = f.name /\ Declared(p.schema, f.value, named)
          /\ \A e \in v.elems, i \in t.items : Declared(i, e, named)

Answers(n, named) == {v \in Values : Conforms(n, v, named) /\ Declared(n, v, named)}
Requests(n, named) == {v \in Answers(n, named) : Accepts(n, v, 0, named)}

\* A request made for the old version is taken by the new one.
BodyStands(b, c, old, new) ==
  /\ c.required => b.required
  /\ Names(b.content) \subseteq Names(c.content)
  /\ \A m \in Kept(b.content, c.content) :
       \A v \in Requests(m[1].schema, old) : Accepts(m[2].schema, v, 0, new)

ParamStands(p, q, old, new) ==
  /\ q.required => p.required
  /\ \A v \in Requests(p.schema, old) : Accepts(q.schema, v, 0, new)

RequestsStand(o, n, old, new) ==
  /\ \A q \in n.params :
       LET was == Counterparts(q, n.path, o.params, o.path)
       IN IF was = {} THEN ~q.required ELSE \A p \in was : ParamStands(p, q, old, new)
  /\ \A c \in n.body : IF o.body = {} THEN ~c.required ELSE \A b \in o.body : BodyStands(b, c, old, new)
  /\ n.security # {} => o.security # {} /\ o.security \subseteq n.security

\* An answer made for the new version is what the old one promised.
AnswersStand(o, n, old, new) ==
  /\ \A r \in o.responses : Success(r.name) => r.name \in Names(n.responses)
  /\ Names(n.responses) \subseteq Names(o.responses)
  /\ \A r \in Kept(o.responses, n.responses) :
       \A m \in Kept(r[1].content, r[2].content) :
         \A v \in Answers(m[2].schema, new) : Conforms(m[1].schema, v, old)

Compatible(old, new) ==
  /\ \A a \in old.auth : a \in new.auth
  /\ Names(old.endpoints) \subseteq Names(new.endpoints)
  /\ \A e \in Kept(old.endpoints, new.endpoints) :
       /\ RequestsStand(e[1], e[2], old.schemas, new.schemas)
       /\ AnswersStand(e[1], e[2], old.schemas, new.schemas)

-----------------------------------------------------------------------------
(* Properties *)

\* As long as no comparison warned or passed over a change, the team's requests
\* are taken and the answers are what it built on, however many versions came
\* in between (the law of specdiff.DeriveLevel, applied step by step).
QuietMeansCompatible == Compatible(built, published)

\* What spec-update applies no longer contradicts the traffic it came from, and
\* applying it is never a breaking change.  An allOf is read without its own
\* nullable, so there a null stays a violation.
Settled(c, def, records) ==
  \/ ~\E v \in Check(def, records) : c \in ChangeFor(v)
  \/ c.kind = "nullable-wrap" /\ \E spot \in Spots(def, c) : spot.node.kind = "allOf"

UpdateTakesHold ==
  \A records \in Recordings, admitted \in Admissions :
    LET u == Updated(published, records, admitted)
    IN /\ ~Breaking(Diff(published, u.def), "ERR")
       /\ \A c \in u.applied : Settled(c, u.def, records)

\* The sandbox answers what its contract promises, except of an allOf whose
\* members disagree: there the first one speaks, and the others are not heard.
RECURSIVE OneVoice(_, _)
OneVoice(n, named) ==
  LET t == Target(n, named)
      all == {Flatten(t.members[i], named) : i \in DOMAIN t.members}
  IN /\ t.kind = "allOf" =>
          /\ Cardinality(all) < 2 \/ \A m \in all : m.type = "object"
          /\ \A m, k \in all : m = k \/ Names(m.props) \cap Names(k.props) = {}
     /\ \A i \in DOMAIN t.members : OneVoice(t.members[i], named)
     /\ \A p \in t.props : OneVoice(p.schema, named)
     /\ \A i \in t.items : OneVoice(i, named)

SandboxHonoursSpec ==
  \A e \in published.endpoints : \A r \in e.responses : \A s \in JsonSchema(r) :
    OneVoice(s, published.schemas) =>
      \A v \in Synthesized(s, published.schemas) : Conforms(s, v, published.schemas)
=============================================================================
