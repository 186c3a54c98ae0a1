------------------------------- MODULE Learner -------------------------------
(***************************************************************************)
(* internal/baseline and internal/drift as internal/agent runs them for one  *)
(* upstream and method: the recorder's goroutine learns a family per template *)
(* and status class, freezes it after its warm-up and compares what follows  *)
(* with the frozen reference; POST /accept freezes it anew; the tick and the *)
(* accept write the baseline file, and the process may crash.  The comparison *)
(* reads the family without the learner's lock.  The minimum age of a warm-up *)
(* is taken as zero, and the cap on a family's fields as never reached.      *)
(***************************************************************************)
EXTENDS PathGuard, Functions

CONSTANTS
  Exchange,      \* what the recorder sees: [path, status, body], a body being
                 \* a function from fields to [type, value]
  ClassOf,       \* StatusClass of each status
  ErrorClass,    \* the classes 4xx and 5xx
  Volatile,      \* the fields whose values are not learned
  MinSamples,    \* Warmup.MinSamples
  ValueCap,      \* valueTrackCap
  Accepter,      \* HTTP handlers of POST /accept
  Ticker,        \* Run's own goroutine, which persists every 30 seconds
  MaxObserved, MaxAccepts, MaxCrashes,   \* model bounds
  None

Writer == Accepter \cup Ticker
Field == UNION {DOMAIN x.body : x \in Exchange}
Value == UNION {{x.body[f].value : f \in DOMAIN x.body} : x \in Exchange}

\* None is no table of values either: a nil map is told from an empty one.
ASSUME LearnerAssumption ==
  /\ Accepter \cap Ticker = {} /\ {None, "recorder"} \cap Writer = {}
  /\ MinSamples \in Nat /\ ValueCap \in Nat \ {0}
  /\ \A V \in SUBSET Value : None \notin [V -> Nat]
  /\ \A x \in Exchange : x.path \in Seq(Range(x.path))

VARIABLES
  guard,
  families,      \* Learner.families: <<template, class>> to family
  mu,            \* who holds Learner.mu for more than one step
  at,            \* what the recorder and each writer do next
  obs,           \* the recorder's Observation
  target,        \* the template each accept refreezes
  snap,          \* the copy each Persist has still to write
  disk,          \* baselines/<upstream>.json
  reported,      \* the templates of the findings reported so far
  last,          \* the last comparison: [exchange, learned, forgot, found, raced, samples] (model only)
  seenPaths,     \* the paths observed since the process started (model only)
  nested,        \* a merge has promoted a place itself (model only)
  total,         \* samples the families must have (model only)
  freezes,       \* how often a family has been frozen (model only)
  pending,       \* the accepts answered and not on disk yet (model only)
  observed, accepts, crashes   \* (model only)

ghosts == <<last, seenPaths, nested, total, freezes, pending, observed, accepts, crashes>>
vars == <<guard, families, mu, at, obs, target, snap, disk, reported, ghosts>>

Thread == Writer \cup {"recorder"}
Empty == <<>>
NothingCompared == [exchange |-> None, learned |-> {}, forgot |-> {}, found |-> {}, raced |-> FALSE,
                    samples |-> 0]

Init ==
  /\ guard = NewGuard /\ families = Empty /\ mu = None
  /\ at = [t \in Thread |-> "idle"] /\ obs = None
  /\ target = [w \in Accepter |-> None] /\ snap = [w \in Writer |-> None]
  /\ disk = Empty /\ reported = {}
  /\ last = NothingCompared /\ seenPaths = {} /\ nested = FALSE
  /\ total = 0 /\ freezes = 0 /\ pending = {}
  /\ observed = 0 /\ accepts = 0 /\ crashes = 0

Goto(t, next) == at' = [at EXCEPT ![t] = next]

-----------------------------------------------------------------------------
(* Families *)

\* Of the record, learned and refLearned (the exchanges folded into the family
\* and those the reference was taken after), forgot (fields whose values a merge
\* has dropped) and version are the model's own.
NewFamily ==
  [samples |-> 0, codes |-> EmptyBag, fields |-> Empty, frozen |-> FALSE, ref |-> Empty,
   refCodes |-> EmptyBag, frozenSamples |-> 0,
   learned |-> {}, refLearned |-> {}, forgot |-> {}, version |-> 0]

NewStats == [count |-> 0, types |-> EmptyBag, values |-> None, high |-> FALSE]

\* The values of a field as a full table keeps them: none.
Capped(st) ==
  IF st.values # None /\ Cardinality(DOMAIN st.values) > ValueCap
  THEN [st EXCEPT !.values = None, !.high = TRUE] ELSE st

\* The body of Observe's loop for one field.
Noted(st, field, fv) ==
  LET counted == [st EXCEPT !.count = @ + 1, !.types = @ (+) SetToBag({fv.type})]
      values == IF st.values = None THEN EmptyBag ELSE st.values
  IN IF field \in Volatile THEN [counted EXCEPT !.values = None, !.high = TRUE]
     ELSE IF fv.type # "string" \/ st.high THEN counted
     ELSE Capped([counted EXCEPT !.values = values (+) SetToBag({fv.value})])

Fold(fam, x) ==
  LET old(f) == IF f \in DOMAIN fam.fields THEN fam.fields[f] ELSE NewStats
  IN [fam EXCEPT
        !.samples = @ + 1,
        !.codes = @ (+) SetToBag({x.status}),
        !.fields = [f \in DOMAIN @ \cup DOMAIN x.body |->
                      IF f \in DOMAIN x.body THEN Noted(old(f), f, x.body[f]) ELSE @[f]],
        !.learned = @ \cup {x}]

\* Family.freeze in its two parts; an observer that does not hold the lock can
\* see the first without the second.
TakeReference(fam, version) ==
  [fam EXCEPT !.ref = fam.fields, !.refCodes = fam.codes, !.frozen = TRUE,
              !.refLearned = fam.learned, !.version = version]
TakeSamples(fam) == [fam EXCEPT !.frozenSamples = fam.samples]

\* Mutant of MergedStats: only the first family's types are kept.
MergedStatsOwnTypes(mine, st) ==
  LET added == [mine EXCEPT !.count = @ + st.count]
  IN IF st.high THEN [added EXCEPT !.values = None, !.high = TRUE]
     ELSE IF mine.values # None /\ st.values # None
     THEN Capped([added EXCEPT !.values = @ (+) st.values])
     ELSE added

MergedStats(mine, st) ==
  LET added == [mine EXCEPT !.count = @ + st.count, !.types = @ (+) st.types]
  IN IF st.high THEN [added EXCEPT !.values = None, !.high = TRUE]
     ELSE IF mine.values # None /\ st.values # None
     THEN Capped([added EXCEPT !.values = @ (+) st.values])
     ELSE added

\* Family.absorb.
Absorb(fam, other) ==
  LET both == DOMAIN fam.fields \cap DOMAIN other.fields
      drops(f) == /\ fam.fields[f].values = None /\ ~fam.fields[f].high
                  /\ other.fields[f].values # None
  IN [fam EXCEPT
        !.samples = @ + other.samples, !.codes = @ (+) other.codes,
        !.fields = [f \in DOMAIN @ \cup DOMAIN other.fields |->
                      IF f \in both THEN MergedStats(@[f], other.fields[f])
                      ELSE IF f \in DOMAIN @ THEN @[f] ELSE other.fields[f]],
        !.frozen = FALSE, !.ref = Empty,
        !.learned = @ \cup other.learned, !.refLearned = {},
        !.forgot = @ \cup other.forgot \cup {f \in both : drops(f)}]

\* mergeFamiliesLocked, in one of the orders of the map's iteration.  MergeKey
\* counts as Apply does; a promotion it makes is not looked at.
Merge(acc, k) ==
  LET a == Apply(acc.guard, k[1])
      new == <<a.template, k[2]>>
  IN [guard |-> a.guard,
      nested |-> acc.nested \/ a.promoted,
      merged |-> Put(acc.merged, new,
                     IF new \in DOMAIN acc.merged THEN Absorb(acc.merged[new], families[k])
                     ELSE families[k])]

\* Mutant of MergeFamilies: a promotion leaves the families as they are.
MergeFamiliesNot(g, order) == [guard |-> g, nested |-> FALSE, merged |-> families]

MergeFamilies(g, order) ==
  FoldLeft(Merge, [guard |-> g, nested |-> FALSE, merged |-> Empty], order)

-----------------------------------------------------------------------------
(* The recorder's goroutine: observe *)

\* Learner.Observe for the exchange x, under the lock.
Observe(x) ==
  /\ at["recorder"] = "idle" /\ mu = None /\ observed < MaxObserved
  /\ observed' = observed + 1
  /\ LET a == Apply(guard, x.path) IN
     \E order \in IF a.promoted THEN SetToSeqs(DOMAIN families) ELSE {<<>>} :
       LET m == IF a.promoted THEN MergeFamilies(a.guard, order)
                ELSE [guard |-> a.guard, nested |-> FALSE, merged |-> families]
           k == <<a.template, ClassOf[x.status]>>
           fam == IF k \in DOMAIN m.merged THEN m.merged[k] ELSE NewFamily
           freezesNow == ~fam.frozen /\ fam.samples >= MinSamples
           ready == IF freezesNow THEN TakeSamples(TakeReference(fam, freezes + 1)) ELSE fam
       IN /\ guard' = m.guard
          /\ families' = Put(m.merged, k, Fold(ready, x))
          /\ obs' = [key |-> k, exchange |-> x, ref |-> Empty]
          /\ Goto("recorder", IF ready.frozen THEN "compare" ELSE "idle")
          /\ nested' = (nested \/ m.nested)
          /\ freezes' = IF freezesNow THEN freezes + 1 ELSE freezes
          /\ pending' = {p \in pending : p.key \in DOMAIN m.merged /\ m.merged[p.key].frozen}
  /\ seenPaths' = seenPaths \cup {x.path}
  /\ total' = total + 1
  /\ UNCHANGED <<mu, target, snap, disk, reported, last, accepts, crashes>>

Found(kind, field) == [kind |-> kind, field |-> field]

\* Diff's findings on one field the exchange has.
FieldFindings(ref, f, fv) ==
  IF f \notin DOMAIN ref THEN {}
  ELSE IF fv.type \notin DOMAIN ref[f].types
  THEN {Found(IF fv.type = "null" THEN "field_nullable" ELSE "type_changed", f)}
  ELSE IF /\ fv.type = "string" /\ ~ref[f].high /\ ref[f].values # None
          /\ fv.value \notin DOMAIN ref[f].values
  THEN {Found("enum_value_new", f)} ELSE {}

\* The first part of Diff: the reference is read, and everything but the
\* removed fields compared with it.
Compare ==
  /\ at["recorder"] = "compare"
  /\ LET fam == families[obs.key]
         x == obs.exchange
         codes == IF x.status \notin DOMAIN fam.refCodes /\ DOMAIN fam.refCodes # {}
                  THEN {Found("status_code_changed", None)} ELSE {}
     IN /\ obs' = [obs EXCEPT !.ref = fam.ref]
        /\ last' = [exchange |-> x, learned |-> fam.refLearned, forgot |-> fam.forgot,
                    found |-> codes \cup UNION {FieldFindings(fam.ref, f, x.body[f]) : f \in DOMAIN x.body},
                    raced |-> mu # None, samples |-> 0]
  /\ Goto("recorder", "removed")
  /\ UNCHANGED <<guard, families, mu, target, snap, disk, reported, seenPaths, nested, total, freezes,
                 pending, observed, accepts, crashes>>

\* PresenceRatio is at least presenceFloor, from what the family holds by now.
AlwaysThere(fam, f) ==
  /\ f \in DOMAIN fam.ref /\ fam.frozenSamples > 0
  /\ 100 * fam.ref[f].count >= 98 * fam.frozenSamples

\* The rest of Diff, and the reports.
CompareRemoved ==
  /\ at["recorder"] = "removed"
  /\ LET fam == families[obs.key]
         x == obs.exchange
         added == {f \in DOMAIN x.body : f \notin DOMAIN obs.ref}
         removed == {f \in DOMAIN obs.ref \ DOMAIN x.body :
                       AlwaysThere(fam, f) /\ obs.ref[f].count > 1}
         shape == IF obs.key[2] \in ErrorClass /\ added # {} /\ removed # {}
                  THEN {Found("error_shape_changed", None)}
                  ELSE {Found("field_added", f) : f \in added} \cup
                       {Found("field_removed", f) : f \in removed}
     IN /\ last' = [last EXCEPT !.found = @ \cup shape, !.samples = fam.frozenSamples]
        /\ reported' = IF last'.found = {} THEN reported ELSE reported \cup {obs.key[1]}
  /\ obs' = None
  /\ Goto("recorder", "idle")
  /\ UNCHANGED <<guard, families, mu, target, snap, disk, seenPaths, nested, total, freezes, pending,
                 observed, accepts, crashes>>

-----------------------------------------------------------------------------
(* POST /accept: acceptHandler, of a finding that was reported *)

Refrozen(template) ==
  {k \in DOMAIN families : k[1] = template /\ families[k].frozen}

\* Refreeze takes the lock and stores the references.
RefreezeReference(w, template) ==
  /\ w \in Accepter /\ at[w] = "idle" /\ mu = None /\ accepts < MaxAccepts
  /\ accepts' = accepts + 1
  /\ mu' = w
  /\ target' = [target EXCEPT ![w] = template]
  /\ families' = [k \in DOMAIN families |-> IF k \in Refrozen(template)
                                            THEN TakeReference(families[k], freezes + 1)
                                            ELSE families[k]]
  /\ freezes' = freezes + 1
  /\ Goto(w, "samples")
  /\ pending' = pending \cup {[key |-> k, version |-> freezes + 1] : k \in Refrozen(template)}
  /\ last' = [last EXCEPT !.raced = @ \/ at["recorder"] = "removed"]
  /\ UNCHANGED <<guard, obs, snap, disk, reported, seenPaths, nested, total, observed, crashes>>

\* Mutant of RefreezeSamples: the lock is not given back.
RefreezeKeepsLock(w) ==
  /\ w \in Accepter /\ at[w] = "samples"
  /\ families' = [k \in DOMAIN families |-> IF k \in Refrozen(target[w])
                                            THEN TakeSamples(families[k]) ELSE families[k]]
  /\ Goto(w, "persist")
  /\ UNCHANGED <<guard, mu, obs, target, snap, disk, reported, ghosts>>

\* It stores the numbers of samples and gives the lock back.
RefreezeSamples(w) ==
  /\ w \in Accepter /\ at[w] = "samples"
  /\ mu' = None
  /\ families' = [k \in DOMAIN families |-> IF k \in Refrozen(target[w])
                                            THEN TakeSamples(families[k]) ELSE families[k]]
  /\ Goto(w, "persist")
  /\ UNCHANGED <<guard, obs, target, snap, disk, reported, ghosts>>

-----------------------------------------------------------------------------
(* Persist, of persistAll *)

\* Under the lock a copy is made; the tick starts with it.
Copy(w) ==
  /\ at[w] = "persist" \/ (w \in Ticker /\ at[w] = "idle")
  /\ mu = None
  /\ snap' = [snap EXCEPT ![w] = families]
  /\ Goto(w, "write")
  /\ UNCHANGED <<guard, families, mu, obs, target, disk, reported, ghosts>>

OnDisk(p, file) == p.key \in DOMAIN file /\ file[p.key].version >= p.version

Answered(w, file) ==
  /\ disk' = file
  /\ pending' = {p \in pending : ~OnDisk(p, file)}
  /\ snap' = [snap EXCEPT ![w] = None]
  /\ target' = IF w \in Accepter THEN [target EXCEPT ![w] = None] ELSE target
  /\ Goto(w, "idle")
  /\ UNCHANGED <<guard, families, mu, obs, reported, last, seenPaths, nested, total, freezes, observed,
                 accepts, crashes>>

\* WriteFileAtomic replaces the file; its error is ignored.
Write(w) == at[w] = "write" /\ Answered(w, snap[w])
WriteFails(w) == at[w] = "write" /\ Answered(w, disk)

\* The process ends at any point and starts again: load, with a new guard.  The
\* alerter's state file has the findings that can be accepted.
Restart ==
  /\ crashes < MaxCrashes /\ crashes' = crashes + 1
  /\ guard' = NewGuard /\ families' = disk /\ mu' = None
  /\ at' = [t \in Thread |-> "idle"] /\ obs' = None
  /\ target' = [w \in Accepter |-> None] /\ snap' = [w \in Writer |-> None]
  /\ pending' = {} /\ seenPaths' = {} /\ last' = NothingCompared
  /\ total' = FoldFunction(LAMBDA fam, n : fam.samples + n, 0, disk)
  /\ UNCHANGED <<disk, reported, nested, freezes, observed, accepts>>

Next ==
  \/ \E x \in Exchange : Observe(x)
  \/ Compare \/ CompareRemoved
  \/ \E w \in Writer : \/ \E template \in reported : RefreezeReference(w, template)
                       \/ RefreezeSamples(w) \/ Copy(w) \/ Write(w) \/ WriteFails(w)
  \/ Restart

Spec == Init /\ [][Next]_vars

\* An accept's handler runs to its end; the tick comes every 30 seconds for as
\* long as the process lives, and the disk does not fail for ever.
Fairness ==
  /\ \A w \in Accepter : WF_vars(RefreezeSamples(w)) /\ WF_vars(Copy(w))
  /\ \A w \in Ticker : SF_vars(Copy(w))
  /\ \A w \in Writer : SF_vars(Write(w))

FairSpec == Spec /\ Fairness

-----------------------------------------------------------------------------
(* Properties *)

\* Merging loses and doubles nothing: the families' samples are the exchanges
\* observed since the start and those loaded then, the status codes add up to
\* them, and no field is counted more often than its family.
SamplesAddUp ==
  /\ FoldFunction(LAMBDA fam, n : fam.samples + n, 0, families) = total
  /\ \A k \in DOMAIN families :
       /\ SumFunction(families[k].codes) = families[k].samples
       /\ \A f \in DOMAIN families[k].fields : families[k].fields[f].count <= families[k].samples

\* The traffic a reference was learned from is no drift against it: an exchange
\* that was folded into the family before it was frozen or accepted gives no
\* finding when it comes again, whatever was merged in between, but for a value
\* of a field whose values a merge has dropped, and for a field it lacks.
LearnedIsSilent ==
  last.exchange \in last.learned =>
    \A found \in last.found :
      \/ found.kind = "field_removed"
      \/ found.kind = "enum_value_new" /\ found.field \in last.forgot

\* A field is reported as removed only if at most one in fifty of the samples
\* lacked it that the reference was learned from; below fifty samples, every one
\* had it.  The comparison reads the reference and the number of samples without
\* the lock: an accept that freezes the family anew meanwhile is left out.
RemovedWasAlwaysThere ==
  ~last.raced =>
    \A found \in last.found :
      found.kind = "field_removed" =>
        50 * Cardinality({x \in last.learned : found.field \notin DOMAIN x.body}) <= last.samples

\* A finding is a difference to what was learned.
FindingsAreDrift == LearnedIsSilent /\ RemovedWasAlwaysThere

\* An id that is recognised at sight at a place that was promoted all the same:
\* MergeKey takes its placeholder for one more value of the place.  So does a
\* request whose path spells a placeholder out.
Mistaken(path) ==
  \E i \in DOMAIN path :
    \/ path[i] \in Typed
    \/ /\ path[i] \in DOMAIN Placeholder /\ Placeholder[path[i]] # Id
       /\ TemplateOf(guard, SubSeq(path, 1, i - 1)) \in DOMAIN guard.pins

\* No family is an orphan: each is the one some path of this process goes to
\* by now.  A merge that promotes a place itself leaves orphans, and so do a
\* restart, which forgets the guard, and a mistaken placeholder.
NoOrphans ==
  ~nested /\ crashes = 0 /\ (\A path \in seenPaths : ~Mistaken(path)) =>
    \A k \in DOMAIN families : \E path \in seenPaths : TemplateOf(guard, path) = k[1]

\* Promotions and merges neither lose a sample nor put one out of reach.
MergesLoseNothing == SamplesAddUp /\ NoOrphans

\* An accepted reference reaches the disk, older copies that land after it and
\* failed writes notwithstanding, unless a merge thaws its family or the process
\* ends.
AcceptReachesDisk == pending # {} ~> pending = {}

=============================================================================
