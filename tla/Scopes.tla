------------------------------- MODULE Scopes -------------------------------
(***************************************************************************)
(* internal/sandbox: what a sandbox remembers per scope (the header          *)
(* x-pikopod-scope, one per test) while requests of several scopes run: the  *)
(* registry of scopes, the windows of armed faults and rules, the recordings *)
(* each scope has been served, and the journal.  Each has a lock of its own, *)
(* so a request is five steps, and forgetting the least recently touched     *)
(* scope takes four more after the registry has let it go.                   *)
(***************************************************************************)
EXTENDS Integers, FiniteSets, Sequences, SequencesExt

CONSTANTS
  Client,        \* goroutines that serve requests
  Scope,         \* scope names
  NoScope,       \* the empty scope of a request without the header
  IdemKey,       \* Idempotency-Key values
  Ask,           \* what a request asks for: [route, exact, shape], where
                 \* exact and shape are its keys among the recordings
  Faults,        \* the armed HTTP faults, in order: [times, per, error]
  Rules,         \* the compiled rules, in order: [times, per]
  Recordings,    \* the set's records, in order: [exact, shape, ok]
  MaxScopes, MaxJournal, MaxKeys,  \* maxFaultWindowKeys
  MaxRequests,   \* model bound: requests served
  MaxResets,     \* model bound: resets of the journal
  None

Name == Scope \cup {NoScope}
Request == [scope : Name, key : IdemKey \cup {None}, ask : Ask]
\* windowKey: the scope, and the Idempotency-Key where the window is per key.
WindowKey == Name \X (IdemKey \cup {None})

ASSUME ScopesAssumption ==
  /\ IsFiniteSet(Client) /\ IsFiniteSet(Scope) /\ IsFiniteSet(IdemKey)
  /\ NoScope \notin Scope /\ None \notin Name \cup IdemKey
  /\ MaxScopes \in Nat \ {0} /\ MaxJournal \in Nat \ {0} /\ MaxKeys \in Nat \ {0}
  /\ MaxRequests \in Nat /\ MaxResets \in Nat

VARIABLES
  seen,          \* scopeRegistry: the tick each scope was last touched at, 0 if unknown
  tick,
  consumed,      \* each fault's and rule's count per window key
  served,        \* the recordings each scope has been served
  journal,       \* [entries, seq, evicted]
  at,            \* what each client does next
  request,       \* the request it serves
  victim,        \* the scope it has still to forget
  answer,        \* what it will answer
  requests,      \* requests begun, in order (model only)
  history,       \* each scope's requests since it was last registered (model only)
  answers,       \* and their answers (model only)
  clean,         \* no request of the scope has overlapped its eviction, another
                 \* request of it, or a reset (model only)
  crowded,       \* a window has had as many keys as it takes (model only)
  recorded,      \* entries recorded per scope since the last reset (model only)
  resets         \* (model only)

locals == <<at, request, victim, answer>>
ghosts == <<requests, history, answers, clean, crowded, recorded, resets>>
vars == <<seen, tick, consumed, served, journal, locals, ghosts>>

NoWindows == [w \in {"fault", "rule"} |->
                [i \in DOMAIN (IF w = "fault" THEN Faults ELSE Rules) |->
                   [k \in WindowKey |-> 0]]]

Init ==
  /\ seen = [s \in Scope |-> 0] /\ tick = 0
  /\ consumed = NoWindows
  /\ served = [s \in Name |-> {}]
  /\ journal = [entries |-> <<>>, seq |-> 0, evicted |-> 0]
  /\ at = [c \in Client |-> "idle"]
  /\ request = [c \in Client |-> None] /\ victim = [c \in Client |-> None]
  /\ answer = [c \in Client |-> None]
  /\ requests = 0
  /\ history = [s \in Name |-> <<>>] /\ answers = [s \in Name |-> <<>>]
  /\ clean = [s \in Name |-> TRUE] /\ crowded = FALSE
  /\ recorded = [s \in Name |-> 0] /\ resets = 0

-----------------------------------------------------------------------------
(* Windows of faults and rules *)

KeyOf(per, rq) == <<rq.scope, IF per = "idempotency-key" THEN rq.key ELSE None>>

KeysIn(window) == {k \in WindowKey : window[k] > 0}

\* Mutant of Fires: the window is the scope's neighbour's as well.
FiresForAll(window, times, k) ==
  /\ \A other \in WindowKey : other[2] = k[2] => window[other] < times
  /\ window[k] > 0 \/ Cardinality(KeysIn(window)) < MaxKeys

\* consumeWindow: the first `times` requests of a key, unless the table is full.
Fires(window, times, k) ==
  /\ window[k] < times
  /\ window[k] > 0 \/ Cardinality(KeysIn(window)) < MaxKeys

\* evaluateFaults: every fault of the endpoint whose window is open fires.
FiredFaults(windows, rq) ==
  {i \in DOMAIN Faults : Fires(windows[i], Faults[i].times, KeyOf(Faults[i].per, rq))}

AfterFaults(windows, rq) ==
  [i \in DOMAIN Faults |->
     IF i \in FiredFaults(windows, rq)
     THEN [windows[i] EXCEPT ![KeyOf(Faults[i].per, rq)] = @ + 1] ELSE windows[i]]

\* The first error that fired is the answer.
FaultAnswer(windows, rq) ==
  LET errors == {i \in FiredFaults(windows, rq) : Faults[i].error}
  IN IF errors = {} THEN None ELSE <<"fault", Min(errors)>>

\* applyRules: the first rule whose window is open answers, and only its window
\* counts the request.
FiredRule(windows, rq) ==
  LET open == {i \in DOMAIN Rules : Fires(windows[i], Rules[i].times, KeyOf(Rules[i].per, rq))}
  IN IF open = {} THEN 0 ELSE Min(open)

AfterRules(windows, rq) ==
  LET i == FiredRule(windows, rq)
  IN IF i = 0 THEN windows ELSE [windows EXCEPT ![i][KeyOf(Rules[i].per, rq)] = @ + 1]

RuleAnswer(windows, rq) ==
  IF FiredRule(windows, rq) = 0 THEN None ELSE <<"rule", FiredRule(windows, rq)>>

-----------------------------------------------------------------------------
(* Recordings *)

\* A recorded error is served on an exact match only, except on a path the spec
\* does not declare (allowRecordingFirst).
Allowed(i, tier, rq) == rq.ask.route = "unknown" \/ Recordings[i].ok \/ tier = "exact"

Candidates(tier, rq) ==
  {i \in DOMAIN Recordings :
     /\ Allowed(i, tier, rq)
     /\ tier = "exact" => Recordings[i].exact = rq.ask.exact
     /\ tier = "shape" => Recordings[i].shape = rq.ask.shape}

Hit(i, tier, marks) == [answer |-> <<tier, i>>, marks |-> marks]

\* MatchValueScoped: the next unserved exact match, or the last one again; else
\* an unserved one of the same shape; else the next unserved of the operation,
\* or the first one over again; else none.
Match(marks, rq) ==
  LET exact == Candidates("exact", rq)
      shape == Candidates("shape", rq) \ marks
      any == Candidates("sequence", rq)
  IN IF exact \ marks # {}
     THEN Hit(Min(exact \ marks), "exact", marks \cup {Min(exact \ marks)})
     ELSE IF exact # {} THEN Hit(Max(exact), "exact", marks)
     ELSE IF shape # {} THEN Hit(Min(shape), "shape", marks \cup {Min(shape)})
     ELSE IF any \ marks # {}
     THEN Hit(Min(any \ marks), "sequence", marks \cup {Min(any \ marks)})
     ELSE IF any # {} THEN Hit(Min(any), "sequence", marks \ {Min(any)})
     ELSE [answer |-> <<"spec">>, marks |-> marks]

-----------------------------------------------------------------------------
(* A request *)

Goto(c, next) == at' = [at EXCEPT ![c] = next]

InFlight(s) == {c \in Client : at[c] # "idle" /\ request[c].scope = s}
Forgetting(s) == {c \in Client : victim[c] = s}

Known == {s \in Scope : seen[s] > 0}

\* The least recently touched scope, when there is no room for a new one.
Oldest == CHOOSE s \in Known : \A t \in Known : seen[s] <= seen[t]

\* ServeHTTP up to the unlock of the registry (touchScope).
Begin(c, rq) ==
  LET s == rq.scope
      evicts == s \in Scope /\ s \notin Known /\ Cardinality(Known) >= MaxScopes
      gone == IF evicts THEN Oldest ELSE None
  IN
  /\ at[c] = "idle" /\ requests < MaxRequests
  /\ requests' = requests + 1
  /\ request' = [request EXCEPT ![c] = rq]
  /\ tick' = IF s = NoScope THEN tick ELSE tick + 1
  /\ seen' = [t \in Scope |-> IF t = s THEN tick + 1 ELSE IF t = gone THEN 0 ELSE seen[t]]
  /\ victim' = [victim EXCEPT ![c] = gone]
  /\ Goto(c, IF evicts THEN "forget journal" ELSE "faults")
  /\ history' = [t \in Name |-> IF t = s THEN Append(history[t], rq)
                                ELSE IF t = gone THEN <<>> ELSE history[t]]
  /\ answers' = [t \in Name |-> IF t = gone THEN <<>> ELSE answers[t]]
  /\ clean' = [t \in Name |-> /\ clean[t]
                              /\ t \in {s, gone} => InFlight(t) = {}
                              /\ t = s => Forgetting(t) = {}]
  /\ UNCHANGED <<consumed, served, journal, answer, crowded, recorded, resets>>

\* dropScope: the entries of the other scopes, in their order.
Keep(s, kept, e) == IF e.scope = s THEN kept ELSE Append(kept, e)
Without(entries, s) == FoldLeft(LAMBDA kept, e : Keep(s, kept, e), <<>>, entries)

\* forgetScope: four tables, each under its own lock.
ForgetJournal(c) ==
  /\ at[c] = "forget journal"
  /\ journal' = [journal EXCEPT !.entries = Without(@, victim[c])]
  /\ Goto(c, "forget faults")
  /\ UNCHANGED <<seen, tick, consumed, served, request, victim, answer, ghosts>>

Dropped(windows, s) ==
  [i \in DOMAIN windows |-> [k \in WindowKey |-> IF k[1] = s THEN 0 ELSE windows[i][k]]]

ForgetFaults(c) ==
  /\ at[c] = "forget faults"
  /\ consumed' = [consumed EXCEPT !["fault"] = Dropped(@, victim[c])]
  /\ Goto(c, "forget rules")
  /\ UNCHANGED <<seen, tick, served, journal, request, victim, answer, ghosts>>

\* Mutant of ForgetRules: the rules' windows are kept.
ForgetRulesNot(c) ==
  /\ at[c] = "forget rules"
  /\ Goto(c, "forget recordings")
  /\ UNCHANGED <<seen, tick, consumed, served, journal, request, victim, answer, ghosts>>

ForgetRules(c) ==
  /\ at[c] = "forget rules"
  /\ consumed' = [consumed EXCEPT !["rule"] = Dropped(@, victim[c])]
  /\ Goto(c, "forget recordings")
  /\ UNCHANGED <<seen, tick, served, journal, request, victim, answer, ghosts>>

\* Set.ForgetScope.
ForgetRecordings(c) ==
  /\ at[c] = "forget recordings"
  /\ served' = [served EXCEPT ![victim[c]] = {}]
  /\ victim' = [victim EXCEPT ![c] = None]
  /\ Goto(c, "faults")
  /\ UNCHANGED <<seen, tick, consumed, journal, request, answer, ghosts>>

Full(windows) == \E i \in DOMAIN windows : Cardinality(KeysIn(windows[i])) >= MaxKeys

\* evaluateFaults, for a declared route only; an error skips the rest.
EvaluateFaults(c) ==
  LET windows == consumed["fault"] IN
  /\ at[c] = "faults" /\ request[c].ask.route = "declared"
  /\ consumed' = [consumed EXCEPT !["fault"] = AfterFaults(windows, request[c])]
  /\ answer' = [answer EXCEPT ![c] = FaultAnswer(windows, request[c])]
  /\ Goto(c, IF FaultAnswer(windows, request[c]) = None THEN "rules" ELSE "record")
  /\ crowded' = (crowded \/ Full(consumed["fault"]'))
  /\ UNCHANGED <<seen, tick, served, journal, request, victim, requests, history, answers, clean,
                 recorded, resets>>

ApplyRules(c) ==
  LET windows == consumed["rule"] IN
  /\ at[c] = "rules"
  /\ consumed' = [consumed EXCEPT !["rule"] = AfterRules(windows, request[c])]
  /\ answer' = [answer EXCEPT ![c] = RuleAnswer(windows, request[c])]
  /\ Goto(c, IF RuleAnswer(windows, request[c]) = None THEN "recordings" ELSE "record")
  /\ crowded' = (crowded \/ Full(consumed["rule"]'))
  /\ UNCHANGED <<seen, tick, served, journal, request, victim, requests, history, answers, clean,
                 recorded, resets>>

\* recordedFirst, or serveRecording where the route is unknown.
MatchRecording(c) ==
  LET hit == Match(served[request[c].scope], request[c]) IN
  /\ at[c] = "recordings" \/ (at[c] = "faults" /\ request[c].ask.route = "unknown")
  /\ served' = [served EXCEPT ![request[c].scope] = hit.marks]
  /\ answer' = [answer EXCEPT ![c] = hit.answer]
  /\ Goto(c, "record")
  /\ UNCHANGED <<seen, tick, consumed, journal, request, victim, ghosts>>

\* Mutant of Recorded: what a full journal drops is not counted.
RecordedUncounted(j, s) ==
  LET longer == Append(j.entries, [scope |-> s, seq |-> j.seq + 1])
      extra == IF Len(longer) > MaxJournal THEN Len(longer) - MaxJournal ELSE 0
  IN [entries |-> SubSeq(longer, extra + 1, Len(longer)), seq |-> j.seq + 1,
      evicted |-> j.evicted]

\* The journal j after journal.record of a request of scope s.
Recorded(j, s) ==
  LET longer == Append(j.entries, [scope |-> s, seq |-> j.seq + 1])
      extra == IF Len(longer) > MaxJournal THEN Len(longer) - MaxJournal ELSE 0
  IN [entries |-> SubSeq(longer, extra + 1, Len(longer)),
      seq |-> j.seq + 1, evicted |-> j.evicted + extra]

\* Record, before the answer is written.
Record(c) ==
  LET s == request[c].scope IN
  /\ at[c] = "record"
  /\ journal' = Recorded(journal, s)
  /\ recorded' = [recorded EXCEPT ![s] = @ + 1]
  /\ answers' = [answers EXCEPT ![s] = Append(@, answer[c])]
  /\ request' = [request EXCEPT ![c] = None]
  /\ answer' = [answer EXCEPT ![c] = None]
  /\ Goto(c, "idle")
  /\ UNCHANGED <<seen, tick, consumed, served, victim, requests, history, clean, crowded, resets>>

-----------------------------------------------------------------------------
(* Resets of the journal from the control plane *)

\* ResetJournal empties the registry too, but forgets no scope's other state.
ResetJournal ==
  /\ resets < MaxResets /\ resets' = resets + 1
  /\ journal' = [journal EXCEPT !.entries = <<>>, !.evicted = 0]
  /\ seen' = [s \in Scope |-> 0]
  /\ recorded' = [s \in Name |-> 0]
  /\ clean' = [s \in Name |-> FALSE]
  /\ UNCHANGED <<tick, consumed, served, locals, requests, history, answers, crowded>>

ResetJournalScope(s) ==
  /\ resets < MaxResets /\ resets' = resets + 1
  /\ journal' = [journal EXCEPT !.entries = Without(@, s)]
  /\ recorded' = [recorded EXCEPT ![s] = 0]
  /\ UNCHANGED <<seen, tick, consumed, served, locals, requests, history, answers, clean, crowded>>

Next ==
  \/ \E c \in Client : \/ \E rq \in Request : Begin(c, rq)
                       \/ ForgetJournal(c) \/ ForgetFaults(c) \/ ForgetRules(c)
                       \/ ForgetRecordings(c)
                       \/ EvaluateFaults(c) \/ ApplyRules(c) \/ MatchRecording(c) \/ Record(c)
  \/ ResetJournal
  \/ \E s \in Scope : ResetJournalScope(s)

Spec == Init /\ [][Next]_vars

-----------------------------------------------------------------------------
(* Properties *)

\* One request of a scope that has the sandbox to itself.
Alone(state, rq) ==
  LET f == FaultAnswer(state.fault, rq)
      fault == IF rq.ask.route = "declared" THEN AfterFaults(state.fault, rq) ELSE state.fault
      reached == rq.ask.route = "declared" /\ f = None
      r == RuleAnswer(state.rule, rq)
      rule == IF reached THEN AfterRules(state.rule, rq) ELSE state.rule
      hit == Match(state.marks, rq)
      matches == rq.ask.route = "unknown" \/ (reached /\ r = None)
  IN [fault |-> fault, rule |-> rule,
      marks |-> IF matches THEN hit.marks ELSE state.marks,
      answers |-> Append(state.answers,
                         IF matches THEN hit.answer ELSE IF reached THEN r ELSE f)]

Untouched == [fault |-> NoWindows["fault"], rule |-> NoWindows["rule"], marks |-> {},
              answers |-> <<>>]

\* Scopes do not see each other: whatever other scopes do meanwhile, a scope
\* whose requests come one after the other is answered as if it were alone
\* with a fresh sandbox, also after it was evicted and has come back.  (Not
\* once the table of a window is full, which all scopes share.)
AnsweredAsIfAlone ==
  \A s \in Name :
    clean[s] /\ InFlight(s) = {} /\ ~crowded =>
      answers[s] = FoldLeft(Alone, Untouched, history[s]).answers

\* An evicted scope leaves nothing behind in any of the four tables, unless a
\* request of it was under way when it was evicted.
NothingLeftBehind ==
  \A s \in Scope :
    clean[s] /\ s \notin Known /\ Forgetting(s) = {} =>
      /\ served[s] = {}
      /\ \A i \in DOMAIN journal.entries : journal.entries[i].scope # s
      /\ \A w \in DOMAIN consumed : \A i \in DOMAIN consumed[w] :
           \A k \in KeysIn(consumed[w][i]) : k[1] # s

EntriesOf(s) == Cardinality({i \in DOMAIN journal.entries : journal.entries[i].scope = s})

\* The journal's entries are numbered in the order they were recorded in, none
\* twice, over evictions and resets.
JournalInOrder ==
  \A i, j \in DOMAIN journal.entries : i < j => journal.entries[i].seq < journal.entries[j].seq

\* The sandbox-wide journal is honest: while it says that nothing was evicted,
\* the unscoped requests since the last reset are all there.
UnscopedCountExact == journal.evicted = 0 => EntriesOf(NoScope) = recorded[NoScope]

\* What VERIFY_REQUESTS reads is ordered, bounded and honest.
JournalHonest == JournalInOrder /\ Len(journal.entries) <= MaxJournal /\ UnscopedCountExact
=============================================================================
