------------------------------ MODULE Scenario ------------------------------
(***************************************************************************)
(* internal/scenario and internal/mode: a validated definition is run step   *)
(* by step against an engine.  `scenario check` ("check") runs every step    *)
(* against an engine of its own; `mode verify` ("verify") runs the verifying *)
(* steps only, against the engine that is serving, which they may not        *)
(* change, while the application under test keeps sending.                    *)
(***************************************************************************)
EXTENDS Integers, FiniteSets, Sequences, SequencesExt

CONSTANTS
  Variable,      \* names that a step captures or interpolates
  Menu,          \* the steps a definition is made of, by mode
  MaxSteps,      \* model bound: steps of a definition, by mode
  AppRequest,    \* what the application sends: [path, header, large, scoped]
  Delay,         \* what a webhook_delay fault adds to a delivery
  MaxJournal,    \* maxJournalEntries
  MaxSent,       \* model bound: requests the application sends
  MaxNow,        \* model bound of the wall clock
  None

\* A step: [type, uses, captures, asserts, continues, ms, path, matchers, keys].
\* An assertion: [target, op, n, soft].  A matcher: [path, header, min, max].
Modes == {"check", "verify"}
Outcomes == {"PASSED", "FAILED", "NOT_EVALUATED"}
Reasons == {"unresolved", "capture", "conflict", "unbuilt", "unprovable", "evicted", "never", "gap"}

ASSUME ScenarioAssumption ==
  /\ \A m \in Modes : IsFiniteSet(Menu[m]) /\ MaxSteps[m] \in Nat \ {0}
  /\ Delay \in Nat \ {0} /\ MaxJournal \in Nat \ {0}
  /\ MaxSent \in Nat /\ MaxNow \in Nat

ASSUME StepAssumption ==
  /\ None \notin Int \cup Reasons
  /\ \A rq \in AppRequest : {rq.header, rq.large, rq.scoped} \subseteq BOOLEAN
  /\ \A m \in Modes : \A step \in Menu[m] :
       /\ step.captures \subseteq Variable /\ step.ms \in Nat
       /\ step.asserts \in Seq(Range(step.asserts)) /\ \A a \in Range(step.asserts) : a.n \in Int
       /\ step.matchers \in Seq(Range(step.matchers))

VARIABLES
  mode,          \* which of the two runs this is
  steps,         \* the steps it executes
  inputs,        \* [declared, provided]: its optional inputs
  clock,         \* Engine.virtualClockMs
  slow,          \* a webhook_delay fault is armed
  resources,     \* keys of the stored resources
  due,           \* when the deliveries in the webhook log are due
  journal,       \* [entries, evicted]
  sent,          \* the application's and the runner's requests
  now,           \* the wall clock
  pc,            \* the step to execute next
  counted,       \* what VERIFY_REQUESTS has read so far, or None
  time,          \* runner.virtualClockMs
  captures,      \* the variables captured so far
  results,       \* StepResults, with what decided them
  evaluated,     \* RunWith's counter
  history,       \* the requests journaled, in order (model only)
  dropped,       \* a scope has been forgotten (model only)
  lag            \* what timeouts have added to the runner's clock since it last
                 \* set the engine's (model only)

engine == <<clock, slow, resources, due>>
traffic == <<journal, sent, history>>
runner == <<pc, counted, time, captures, results, evaluated>>
definition == <<mode, steps, inputs>>
vars == <<definition, engine, traffic, now, dropped, runner, lag>>

-----------------------------------------------------------------------------
(* Validation *)

\* configVars looks into the steps of these types only.
Unexamined == {"VERIFY_REQUESTS", "VERIFY_SEQUENCE", "EMIT_WEBHOOK", "WAIT"}
References(step) == IF step.type \in Unexamined THEN {} ELSE step.uses

CapturedBefore(def, i) == UNION {def[j].captures : j \in 1 .. i - 1}

\* Mutant of Valid: a step's own captures count as captured.
ValidLate(def, declared) ==
  \A i \in DOMAIN def : References(def[i]) \subseteq declared \cup CapturedBefore(def, i + 1)

\* ValidateScenario: neither FORWARD_CAPTURE nor UNRESOLVED_VARIABLE.
Valid(def, declared) ==
  \A i \in DOMAIN def : References(def[i]) \subseteq declared \cup CapturedBefore(def, i)

\* mode.Compile keeps the steps that only look.
VerifyTypes == {"VERIFY_SEQUENCE", "VERIFY_REQUESTS", "ASSERT_STATE", "EXPECT_WEBHOOK"}
Verifying(step) == step.type \in VerifyTypes
KeepVerifying(kept, step) == IF Verifying(step) THEN Append(kept, step) ELSE kept
Compile(m, def) == IF m = "verify" THEN FoldLeft(KeepVerifying, <<>>, def) ELSE def

Init ==
  /\ mode \in Modes
  /\ \E n \in 1 .. MaxSteps[mode] : \E def \in [1 .. n -> Menu[mode]] :
     \* Inputs that no step reads make no difference.
     \E declared \in SUBSET UNION {def[i].uses : i \in 1 .. n} :
       /\ Valid(def, declared)
       /\ \E provided \in SUBSET declared : inputs = [declared |-> declared, provided |-> provided]
       /\ steps = Compile(mode, def) /\ steps # <<>>
  /\ clock = 0 /\ slow = FALSE /\ resources = {}
  \* The serving engine has announced something that is still delayed.
  /\ due = IF mode = "verify" THEN {Delay} ELSE {}
  /\ journal = [entries |-> <<>>, evicted |-> 0]
  /\ sent = <<>> /\ now = 0
  /\ pc = 1 /\ counted = None /\ time = 0
  /\ captures = {} /\ results = <<>> /\ evaluated = 0
  /\ history = <<>> /\ dropped = FALSE /\ lag = 0

-----------------------------------------------------------------------------
(* The journal *)

\* The journal keeps no headers of a request that carries too many of them.
Entry(id, rq, at) ==
  [id |-> id, path |-> rq.path, header |-> rq.header /\ ~rq.large, large |-> rq.large,
   scoped |-> rq.scoped, at |-> at, wall |-> rq.wall]

Excess(all) == Max({0, Len(all) - MaxJournal})

Record(entry) ==
  LET all == Append(journal.entries, entry)
      drop == Excess(all)
  IN /\ journal' = [entries |-> SubSeq(all, drop + 1, Len(all)), evicted |-> journal.evicted + drop]
     /\ history' = Append(history, entry.id)

Matching(path) == {i \in DOMAIN journal.entries : journal.entries[i].path = path}

-----------------------------------------------------------------------------
(* The application, while a mode is verified *)

AppSend ==
  /\ mode = "verify" /\ pc <= Len(steps)
  /\ Len(sent) < MaxSent
  /\ \E rq \in AppRequest :
       sent' = Append(sent, [path |-> rq.path, header |-> rq.header, large |-> rq.large,
                             scoped |-> rq.scoped, wall |-> now, at |-> clock, phase |-> "served"])
  /\ UNCHANGED <<definition, engine, journal, history, now, dropped, runner, lag>>

\* Mutant of Stamped: the time is taken when the entry is recorded.
StampedLate(id) == [sent[id] EXCEPT !.wall = now]

\* ServeHTTP takes the wall clock before it handles a request.
Stamped(id) == sent[id]

AppRecord ==
  /\ \E id \in DOMAIN sent :
       /\ sent[id].phase = "served"
       /\ Record(Entry(id, Stamped(id), clock))
       /\ sent' = [sent EXCEPT ![id].phase = "recorded", ![id].at = clock]
  /\ UNCHANGED <<definition, engine, now, dropped, runner, lag>>

AppAnswer ==
  /\ \E id \in DOMAIN sent : sent[id].phase = "recorded" /\ sent' = [sent EXCEPT ![id].phase = "answered"]
  /\ UNCHANGED <<definition, engine, journal, history, now, dropped, runner, lag>>

KeepUnscoped(kept, entry) == IF entry.scoped THEN kept ELSE Append(kept, entry)

\* A crowded registry of scopes forgets one, which no counter remembers.
ForgetScope ==
  /\ ~dropped
  /\ \E i \in DOMAIN journal.entries : journal.entries[i].scoped
  /\ journal' = [journal EXCEPT !.entries = FoldLeft(KeepUnscoped, <<>>, @)]
  /\ dropped' = TRUE
  /\ UNCHANGED <<definition, engine, sent, history, now, runner, lag>>

Tick ==
  /\ mode = "verify" /\ pc <= Len(steps) /\ now < MaxNow
  /\ now' = now + 1
  /\ UNCHANGED <<definition, engine, traffic, dropped, runner, lag>>

-----------------------------------------------------------------------------
(* Assertions and the outcome of a step *)

\* What the engine answers is not modelled: only the count and the presence of
\* the last request are evaluated.
Holds(a, count) ==
  CASE a.op = "lte" -> count <= a.n
    [] a.op = "gte" -> count >= a.n
    [] a.op = "equals" -> count = a.n

Verdicts(asserts, count, found) ==
  {v \in [DOMAIN asserts -> Outcomes] :
     \A i \in DOMAIN asserts :
       /\ asserts[i].target = "count" => v[i] = IF Holds(asserts[i], count) THEN "PASSED" ELSE "FAILED"
       /\ asserts[i].target = "last" => v[i] = IF found THEN "PASSED" ELSE "FAILED"}

\* EvaluateStepAssertions: a soft failure does not fail the step.
StepStatus(asserts, v) ==
  IF \E i \in DOMAIN v : v[i] = "FAILED" /\ ~asserts[i].soft THEN "FAILED"
  ELSE IF \E i \in DOMAIN v : v[i] # "NOT_EVALUATED" THEN "PASSED" ELSE "NOT_EVALUATED"

Unevaluated(v) == Cardinality({i \in DOMAIN v : v[i] = "NOT_EVALUATED"})

Outcome(status, why, got, none, checks) ==
  [status |-> status, why |-> why, captured |-> got, none |-> none, checks |-> checks]

Errored(step, why) == Outcome("ERRORED", why, {}, Len(step.asserts), 0)
FailClosed(why) == Outcome("FAILED", why, {}, 0, 0)
Quiet == Outcome("NOT_EVALUATED", None, {}, 0, 0)
Judged(step, v, got) ==
  Outcome(StepStatus(step.asserts, v), None, got, Unevaluated(v), 0)

Fails(out) == out.status \in {"FAILED", "ERRORED"}
Skipped == Outcome("SKIPPED", None, {}, 0, 0)

\* Mutant of Counted: assertions without a subject count as evaluated.
CountedAll(step, out) == Len(step.asserts) + out.checks

Counted(step, out) == Len(step.asserts) - out.none + out.checks
Hard(step, out) == Fails(out) /\ ~step.continues

\* What RunWith does with a step's outcome.  read is what a VERIFY_ step looked
\* at (model only).
Settle(out, end, read) ==
  LET step == steps[pc]
      rest == [i \in 1 .. Len(steps) - pc |->
                 [out |-> Skipped, end |-> end, read |-> None]]
  IN /\ results' = results \o <<[out |-> out, end |-> end, read |-> read]>>
                   \o (IF Hard(step, out) THEN rest ELSE <<>>)
     /\ pc' = IF Hard(step, out) THEN Len(steps) + 1 ELSE pc + 1
     /\ captures' = captures \cup out.captured
     /\ evaluated' = evaluated + Counted(step, out)
     /\ time' = end
     /\ counted' = None

Executing(type) == pc <= Len(steps) /\ steps[pc].type = type /\ counted = None
Resolved(step) == step.uses \subseteq inputs.provided \cup captures

Evicted == journal.evicted > 0

\* interpolate fails on a variable that nobody has set; verifySequence looks at
\* what was evicted first.
Unresolved(type) ==
  /\ Executing(type) /\ ~Resolved(steps[pc])
  /\ ~(type = "VERIFY_SEQUENCE" /\ Evicted)
  /\ Settle(Errored(steps[pc], "unresolved"), time, None)
  /\ UNCHANGED <<definition, engine, traffic, now, dropped, lag>>

\* applyCaptures: a path that leads nowhere is an error, whatever the assertions say.
Answered(step, document, end) ==
  \E resolves \in BOOLEAN :
    IF document /\ step.captures # {} /\ ~resolves
    THEN Settle(Errored(step, "capture"), time, None)
    ELSE \E v \in Verdicts(step.asserts, 0, FALSE) :
           Settle(Judged(step, v, IF document THEN step.captures ELSE {}), end, None)

-----------------------------------------------------------------------------
(* The steps of a run *)

\* A delivery is due at once, or later once if it meets a delay fault.
Deliver ==
  /\ due' = due \cup {clock + (IF slow THEN Delay ELSE 0)}
  /\ slow' = FALSE

\* REQUEST: served by the engine within the step; the endpoint announces it.
SendRequest ==
  LET step == steps[pc]
      rq == [path |-> step.path, header |-> FALSE, large |-> FALSE, scoped |-> FALSE, wall |-> now]
  IN /\ Executing("REQUEST") /\ Resolved(step)
     /\ Deliver
     /\ sent' = Append(sent, [path |-> rq.path, header |-> rq.header, large |-> rq.large,
                              scoped |-> rq.scoped, wall |-> now, at |-> clock, phase |-> "answered"])
     /\ Record(Entry(Len(sent) + 1, rq, clock))
     /\ Answered(step, TRUE, time)
     /\ UNCHANGED <<definition, clock, resources, now, dropped, lag>>

\* SetVirtualClockMs, which readOnly discards.
SetClock(ms) ==
  IF mode = "check" THEN clock' = ms /\ lag' = 0 ELSE UNCHANGED <<clock, lag>>

WaitStep ==
  /\ Executing("WAIT")
  /\ SetClock(time + steps[pc].ms)
  /\ Settle(Quiet, time + steps[pc].ms, None)
  /\ UNCHANGED <<definition, slow, resources, due, traffic, now, dropped>>

\* Mutant of SyncClock: the engine follows the last delivery, an old one too.
SyncClockAlways(arrivals) ==
  IF arrivals # {} THEN SetClock(Max(arrivals)) ELSE UNCHANGED clock /\ lag' = lag + steps[pc].ms

\* The clock moves to the last delivery that is due; when none is, only the
\* runner's moves.
SyncClock(arrivals) ==
  IF arrivals = {} THEN UNCHANGED clock /\ lag' = lag + steps[pc].ms
  ELSE IF Max(arrivals) > time THEN SetClock(Max(arrivals)) ELSE UNCHANGED <<clock, lag>>

ExpectWebhook ==
  LET step == steps[pc]
      arrivals == {d \in due : d <= time + step.ms}
      end == IF arrivals = {} THEN time + step.ms ELSE Max(arrivals \cup {time})
  IN /\ Executing("EXPECT_WEBHOOK")
     /\ SyncClock(arrivals)
     /\ Answered(step, arrivals # {}, end)
     /\ UNCHANGED <<definition, slow, resources, due, traffic, now, dropped>>

InjectFault ==
  /\ Executing("INJECT_FAULT")
  /\ slow' = TRUE
  /\ Settle(Quiet, time, None)
  /\ UNCHANGED <<definition, clock, resources, due, traffic, now, dropped, lag>>

ClearFault ==
  /\ Executing("CLEAR_FAULT")
  /\ slow' = FALSE
  /\ Settle(Quiet, time, None)
  /\ UNCHANGED <<definition, clock, resources, due, traffic, now, dropped, lag>>

\* SEED_STATE inserts one resource after the other: those before a key that is
\* taken stay.
Seed(acc, key) ==
  IF acc.taken \/ key \in acc.stored THEN [acc EXCEPT !.taken = TRUE]
  ELSE [acc EXCEPT !.stored = @ \cup {key}]

SeedState ==
  LET step == steps[pc]
      seeded == FoldLeft(Seed, [stored |-> resources, taken |-> FALSE], step.keys)
  IN /\ Executing("SEED_STATE")
     /\ resources' = seeded.stored
     /\ Settle(IF seeded.taken THEN Errored(step, "conflict") ELSE Quiet, time, None)
     /\ UNCHANGED <<definition, clock, slow, due, traffic, now, dropped, lag>>

AssertState ==
  /\ Executing("ASSERT_STATE") /\ Resolved(steps[pc])
  /\ Answered(steps[pc], FALSE, time)
  /\ UNCHANGED <<definition, engine, traffic, now, dropped, lag>>

\* The engine refuses an event that the contract does not declare, or a payload
\* that does not serialize.
EmitWebhook ==
  /\ Executing("EMIT_WEBHOOK") /\ Resolved(steps[pc])
  /\ \/ Deliver /\ Settle(Quiet, time, None)
     \/ UNCHANGED <<slow, due>> /\ Settle(Errored(steps[pc], "unbuilt"), time, None)
  /\ UNCHANGED <<definition, clock, resources, traffic, now, dropped, lag>>

Note ==
  /\ Executing("NOTE")
  /\ Settle(Outcome("PASSED", None, {}, 0, 0), time, None)
  /\ UNCHANGED <<definition, engine, traffic, now, dropped, lag>>

\* Requests to path that the application has begun, and those it has seen answered.
Begun(path) == {id \in DOMAIN sent : sent[id].path = path}
Seen(path) == {id \in Begun(path) : sent[id].phase = "answered"}

\* VERIFY_REQUESTS takes the journal's lock twice: JournalCount ...
CountRequests ==
  LET path == steps[pc].path
  IN /\ Executing("VERIFY_REQUESTS") /\ Resolved(steps[pc])
     /\ counted' = [count |-> Cardinality(Matching(path)), evicted |-> journal.evicted > 0,
                    seen |-> Cardinality(Seen(path)), begun |-> Cardinality(Begun(path))]
     /\ UNCHANGED <<definition, engine, traffic, now, dropped, lag,
                    pc, time, captures, results, evaluated>>

UpperBound(a) == a.op \in {"lte", "equals"}

\* ... and JournalLast.
VerifyRequests ==
  LET step == steps[pc]
      found == Matching(step.path) # {}
      unprovable == {i \in DOMAIN step.asserts :
                       \/ counted.evicted /\ step.asserts[i].target = "count" /\ UpperBound(step.asserts[i])
                       \/ /\ step.asserts[i].target = "last" /\ found
                          /\ journal.entries[Max(Matching(step.path))].large}
  IN /\ pc <= Len(steps) /\ counted # None
     /\ IF unprovable # {} THEN Settle(FailClosed("unprovable"), time, counted)
        ELSE \E v \in Verdicts(step.asserts, counted.count, found) :
               Settle(Judged(step, v, {}), time, counted)
     /\ UNCHANGED <<definition, engine, traffic, now, dropped, lag>>

Hits(m, entry) == entry.path = m.path /\ (m.header => entry.header)
At(entry) == IF mode = "verify" THEN entry.wall ELSE entry.at

GapViolated(m, at, prev) ==
  prev # None /\ \/ m.min # None /\ at - prev < m.min
                 \/ m.max # None /\ at - prev > m.max

Unprovable(m, entry) == m.header /\ entry.large

NextFrom(i) == i + 1

\* One matcher takes the first entry it hits, and fails at once when the gap to
\* the one before is wrong.
Match(acc, m) ==
  LET hits == {i \in acc.from .. Len(journal.entries) : Hits(m, journal.entries[i])}
      entry == journal.entries[Min(hits)]
  IN IF acc.why # None THEN acc
     ELSE IF hits = {} THEN [acc EXCEPT !.why = "never"]
     ELSE IF GapViolated(m, At(entry), acc.prev) THEN [acc EXCEPT !.why = "gap"]
     ELSE IF Unprovable(m, entry) THEN [acc EXCEPT !.why = "unprovable"]
     ELSE [from |-> NextFrom(Min(hits)), prev |-> At(entry), why |-> None]

VerifySequence ==
  LET step == steps[pc]
      scan == FoldLeft(Match, [from |-> 1, prev |-> None, why |-> None], step.matchers)
      read == [ids |-> history, whole |-> ~dropped /\ \A id \in Range(history) : ~sent[id].large]
  IN /\ Executing("VERIFY_SEQUENCE") /\ (Evicted \/ Resolved(step))
     /\ IF Evicted THEN Settle(FailClosed("evicted"), time, read)
        ELSE IF scan.why # None THEN Settle(FailClosed(scan.why), time, read)
        ELSE Settle(Outcome("PASSED", None, {}, 0, Len(step.matchers)), time, read)
     /\ UNCHANGED <<definition, engine, traffic, now, dropped, lag>>

RunnerStep ==
  \/ \E type \in {"REQUEST", "ASSERT_STATE", "EMIT_WEBHOOK", "VERIFY_REQUESTS", "VERIFY_SEQUENCE"} :
       Unresolved(type)
  \/ SendRequest \/ WaitStep \/ ExpectWebhook \/ InjectFault \/ ClearFault
  \/ SeedState \/ AssertState \/ EmitWebhook \/ Note
  \/ CountRequests \/ VerifyRequests \/ VerifySequence

Application == AppSend \/ AppRecord \/ AppAnswer \/ ForgetScope \/ Tick

Next == RunnerStep \/ Application
Spec == Init /\ [][Next]_vars

\* RunWith's status, once every step has its result.
Finished == pc > Len(steps)
RunStatus ==
  LET stops == {i \in DOMAIN results : Hard(steps[i], results[i].out)}
  IN IF stops # {} THEN IF results[Min(stops)].out.status = "ERRORED" THEN "ERRORED" ELSE "FAILED"
     ELSE IF evaluated > 0 THEN "PASSED" ELSE "CONDITION_GENERATED"

-----------------------------------------------------------------------------
(* Properties *)

\* A VERIFY_REQUESTS step that passes is right about the application, whatever
\* was evicted and was in flight: at most n (or exactly n) means that it had not
\* seen more than n answers, at least n that it had begun n.  A scope forgotten
\* before is the exception: nothing remembers it.
CountHonest ==
  \A i \in DOMAIN results :
    LET step == steps[i]  read == results[i].read
    IN (step.type = "VERIFY_REQUESTS" /\ results[i].out.status = "PASSED" /\ ~dropped) =>
         \A k \in DOMAIN step.asserts :
           LET a == step.asserts[k]
           IN (a.target = "count" /\ ~a.soft) =>
                /\ a.op \in {"lte", "equals"} => read.seen <= a.n
                /\ a.op \in {"gte", "equals"} => read.begun >= a.n

Sent(m, id) == sent[id].path = m.path /\ (m.header => sent[id].header)
SentAt(id) == IF mode = "verify" THEN sent[id].wall ELSE sent[id].at

\* Requests that the matchers describe happened in that order.
Happened(matchers, ids, gaps) ==
  \E f \in [DOMAIN matchers -> DOMAIN ids] :
    \A i \in DOMAIN matchers :
      /\ Sent(matchers[i], ids[f[i]])
      /\ i > 1 => /\ f[i - 1] < f[i]
                  /\ gaps => ~GapViolated(matchers[i], SentAt(ids[f[i]]), SentAt(ids[f[i - 1]]))

\* A VERIFY_SEQUENCE that passes describes requests that were sent, in the order
\* and with the gaps it states, although the journal holds them in the order
\* they were finished and the runner takes the first that fits.
SequenceSound ==
  \A i \in DOMAIN results :
    (steps[i].type = "VERIFY_SEQUENCE" /\ results[i].out.status = "PASSED") =>
      Happened(steps[i].matchers, results[i].read.ids, TRUE)

\* One that says a matcher never matched is right: no such requests were
\* recorded, in any choice, unless a scope was forgotten or a request had more
\* headers than the journal keeps.
SequenceComplete ==
  \A i \in DOMAIN results :
    (results[i].out.why = "never" /\ results[i].read.whole) =>
      ~Happened(steps[i].matchers, results[i].read.ids, FALSE)

\* VERIFY_SEQUENCE is right both ways.
SequenceHonest == SequenceSound /\ SequenceComplete

\* What the verifying steps say of the application's requests is what it did.
EvidenceHonest == CountHonest /\ SequenceHonest

\* Captures that failed after the engine's clock had been moved leave it ahead.
Ahead == \E i \in DOMAIN results : steps[i].type = "EXPECT_WEBHOOK" /\ results[i].out.why = "capture"

\* The two clocks: the runner's is ahead of its engine's by what EXPECT_WEBHOOK
\* steps have waited in vain since the engine's was last set, and by nothing else.
ClocksDifferByTimeouts == mode = "check" /\ ~Ahead => time = clock + lag

\* A variable is missing at run time only in a step whose configuration the
\* validation does not look into, in a mode (whose requests were left out), or
\* where the input was not given or a step that captures it before has failed
\* or has seen nothing to capture from.
ValidatedResolves ==
  \A i \in DOMAIN results :
    (results[i].out.why = "unresolved" /\ mode = "check" /\ steps[i].type \notin Unexamined) =>
      \E v \in steps[i].uses \ inputs.provided :
        \/ v \in inputs.declared
        \/ \E j \in 1 .. i - 1 : v \in steps[j].captures /\ v \notin results[j].out.captured

\* The types whose steps never look at the assertions they carry.
Unread == {"WAIT", "INJECT_FAULT", "CLEAR_FAULT", "SEED_STATE", "EMIT_WEBHOOK", "NOTE",
           "VERIFY_SEQUENCE"}

\* Assertions that were really compared, and matchers that matched.
Compared(step, out) ==
  out.checks
    + IF step.type \notin Unread /\ out.status \in {"PASSED", "FAILED"} /\ out.why = None
      THEN Len(step.asserts) - out.none ELSE 0

\* Assertions that RunWith counts although nothing was compared: those of a step
\* that failed closed and may fail, and those that its type never looks at.
Credited(step, out) ==
  \/ step.continues /\ out.status = "FAILED"
  \/ step.type \in Unread /\ step.asserts # <<>> /\ out.status # "ERRORED"

\* A run passes only if something was compared, or credited without, and no step
\* failed that was not allowed to; it says that it only produced a condition only
\* if nothing was compared; and it skips exactly what follows a step that may not
\* fail.
VerdictHonest ==
  Finished =>
    /\ RunStatus = "PASSED" =>
         /\ \A i \in DOMAIN results : Fails(results[i].out) => steps[i].continues
         /\ \E i \in DOMAIN results :
              Compared(steps[i], results[i].out) > 0 \/ Credited(steps[i], results[i].out)
    /\ RunStatus = "CONDITION_GENERATED" =>
         \A i \in DOMAIN results : Compared(steps[i], results[i].out) = 0
    /\ \A i \in DOMAIN results :
         (results[i].out.status = "SKIPPED") <=>
           \E j \in 1 .. i - 1 : Fails(results[j].out) /\ ~steps[j].continues

=============================================================================
