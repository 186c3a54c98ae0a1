------------------------------ MODULE PathGuard ------------------------------
(***************************************************************************)
(* internal/pathtmpl: how a path becomes the template its traffic is learned *)
(* under.  A segment that looks like an id is replaced at once; of the other *)
(* segments the guard counts the values seen at each place, and when they    *)
(* become too many it promotes the place: from then on every value there,    *)
(* but the frequent ones, is an id.                                          *)
(***************************************************************************)
EXTENDS Integers, FiniteSets, Sequences, SequencesExt, Bags

CONSTANTS
  Placeholder,   \* ClassifySegment: what each segment that looks like an id becomes
  Id,            \* "{id}"
  Threshold,     \* DefaultCardinalityThreshold
  PinCount       \* pinCount

\* No placeholder looks like an id itself, and a place whose values are pinned
\* or counted has been seen at least as often as its own values take to be
\* pinned (3 and 32 in the code).
ASSUME PathGuardAssumption ==
  /\ Threshold \in Nat \ {0} /\ PinCount \in 1 .. Threshold + 1
  /\ Id \notin DOMAIN Placeholder
  /\ \A s \in DOMAIN Placeholder : Placeholder[s] \notin DOMAIN Placeholder

\* A place is the template of the segments before it.  seen counts the values
\* at the places that are not promoted, pins holds the frequent values of those
\* that are.
NewGuard == [seen |-> <<>>, pins |-> <<>>]

SeenAt(g, place) == IF place \in DOMAIN g.seen THEN g.seen[place] ELSE EmptyBag

Put(f, k, v) == [x \in DOMAIN f \cup {k} |-> IF x = k THEN v ELSE f[x]]
Without(f, k) == [x \in DOMAIN f \ {k} |-> f[x]]

Frequent(counts) == {v \in DOMAIN counts : counts[v] >= PinCount}

\* A place with too many values: its counts give way to its pins.
Promote(g, place, counts) ==
  [seen |-> Without(g.seen, place), pins |-> Put(g.pins, place, Frequent(counts))]

Kept(pins, seg) == IF seg \in pins THEN seg ELSE Id

\* One segment of Apply's loop.  (The value that makes a place too many has been
\* seen once there, so it is one of the frequent ones only if PinCount is 1.)
Segment(acc, seg) ==
  LET place == acc.template
      counts == SeenAt(acc.guard, place) (+) SetToBag({seg})
      with(s, g, p) == [template |-> Append(place, s), guard |-> g, promoted |-> p]
  IN IF seg \in DOMAIN Placeholder THEN with(Placeholder[seg], acc.guard, acc.promoted)
     ELSE IF place \in DOMAIN acc.guard.pins
     THEN with(Kept(acc.guard.pins[place], seg), acc.guard, acc.promoted)
     ELSE IF Cardinality(DOMAIN counts) > Threshold
     THEN with(Kept(Frequent(counts), seg), Promote(acc.guard, place, counts), TRUE)
     ELSE with(seg, [acc.guard EXCEPT !.seen = Put(@, place, counts)], acc.promoted)

\* Guard.Apply: the template of a path, the guard that has counted it, and
\* whether a place was promoted.  MergeKey applies it to a template.
Apply(g, path) ==
  FoldLeft(Segment, [template |-> <<>>, guard |-> g, promoted |-> FALSE], path)

\* What a segment becomes as things stand, nothing being counted.
Read(pins, place, seg) ==
  IF seg \in DOMAIN Placeholder THEN Placeholder[seg]
  ELSE IF place \in DOMAIN pins THEN Kept(pins[place], seg) ELSE seg

\* The template a path has as things stand.
TemplateOf(g, path) ==
  LET next(acc, seg) == [acc EXCEPT !.template = Append(@, Read(acc.pins, @, seg))]
  IN FoldLeft(next, [template |-> <<>>, pins |-> g.pins], path).template

\* The placeholders that tell more of an id than that it is one: "{uuid}".
Typed == {Placeholder[s] : s \in DOMAIN Placeholder} \ {Id}

=============================================================================
