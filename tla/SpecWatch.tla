----------------------------- MODULE SpecWatch -----------------------------
(***************************************************************************)
(* internal/specwatch: the agent's tick starts a Check of every watched      *)
(* provider document in a goroutine of its own; a document that differs from *)
(* the pinned one is journaled and reported, and remembered by its hash.     *)
(* `pikopod sandbox update` removes the pin from another process, and the    *)
(* next check pins what the provider then publishes.  The agent may die and   *)
(* come back at any point.                                                   *)
(***************************************************************************)
EXTENDS Integers, FiniteSets, Sequences

CONSTANTS
  Checker,       \* goroutines that run Check
  Sources,       \* the watched upstreams, in order
  Doc,           \* documents a provider publishes
  Broken,        \* those that do not parse
  Additive,      \* <<pin, document>> whose difference holds a change that is journaled:
                 \* an added endpoint, response property, enum value or status
  JournalCap,    \* documentedCap
  MaxPublish, MaxResets, MaxCrashes, MaxFaults,  \* model bounds
  None

Upstream == {Sources[i] : i \in DOMAIN Sources}
Good == Doc \ Broken

ASSUME SpecWatchAssumption ==
  /\ IsFiniteSet(Checker) /\ IsFiniteSet(Doc) /\ Broken \subseteq Doc /\ Good # {}
  /\ Additive \subseteq Good \X Good /\ JournalCap \in Nat \ {0}
  /\ Sources \in Seq(Upstream) /\ Sources # <<>> /\ None \notin Doc \cup Upstream
  /\ None \notin [etag : Doc \cup {None}, hash : Good \cup {None}, due : BOOLEAN]
  /\ MaxPublish \in Nat /\ MaxResets \in Nat /\ MaxCrashes \in Nat /\ MaxFaults \in Nat

VARIABLES
  provider,      \* the document each provider publishes
  tagged,        \* whether it answers with ETags
  configured,    \* Source.Pinned
  pinFile,       \* <upstream>.pin.json
  stateFile,     \* state.json, by upstream
  state,         \* Watcher.state: [etag, hash, due]
  checking,      \* Watcher.checking
  stage, index,  \* where each checker is, and in which source
  local,         \* the etag, hash, document and pin it holds
  resetting,     \* the upstream ResetPin is at, or None
  documented,    \* <upstream>.documented.json: the journaled <<pin, document>>, oldest first
  unjournaled,   \* <<upstream, pin, document>> that a failed write, an unreadable
                 \* journal or the cap has kept out of it (model only)
  reported,      \* <<upstream, pin, document>> handed to the reporter
  bounds,        \* [publish, resets, crashes, faults] used up (model only)
  damaged        \* upstreams whose pin could not be read, or whose reset was cut
                 \* in two by a death (model only)

files == <<pinFile, stateFile, documented, unjournaled, reported>>
world == <<provider, tagged, configured>>
agent == <<state, checking, stage, index, local>>
watchVars == <<files, world, agent, resetting, bounds, damaged>>

FreshEntry == [etag |-> None, hash |-> None, due |-> TRUE]
NoLocal == [etag |-> None, hash |-> None, doc |-> None, pin |-> None]

WatchInit ==
  /\ provider \in [Upstream -> Good] /\ tagged \in BOOLEAN
  /\ configured \in [Upstream -> Good \cup {None}]
  /\ pinFile = [u \in Upstream |-> None] /\ stateFile = [u \in Upstream |-> None]
  /\ state = [u \in Upstream |-> None] /\ checking = FALSE
  /\ stage = [k \in Checker |-> "idle"] /\ index = [k \in Checker |-> 0]
  /\ local = [k \in Checker |-> NoLocal]
  /\ resetting = None /\ documented = [u \in Upstream |-> <<>>]
  /\ unjournaled = {} /\ reported = {}
  /\ bounds = [publish |-> 0, resets |-> 0, crashes |-> 0, faults |-> 0]
  /\ damaged = {}

Use(kind) == bounds' = [bounds EXCEPT ![kind] = @ + 1]
Fault == bounds.faults < MaxFaults /\ Use("faults")

-----------------------------------------------------------------------------
(* Check *)

Of(k) == Sources[index[k]]
MoveTo(k, place) == stage' = [stage EXCEPT ![k] = place]

\* The next source, or the end of the loop.
NextSource(k) ==
  /\ local' = [local EXCEPT ![k] = NoLocal]
  /\ index' = [index EXCEPT ![k] = @ + 1]
  /\ MoveTo(k, IF index[k] < Len(Sources) THEN "begin" ELSE "persist")

\* Mutant of Idle: a tick does not mind a check that is still running.
IdleAnyway == TRUE
Idle == ~checking

\* A tick while a check is running returns at once.
Start(k) ==
  /\ stage[k] = "idle" /\ Idle
  /\ checking' = TRUE
  /\ MoveTo(k, "begin") /\ index' = [index EXCEPT ![k] = 1]
  /\ UNCHANGED <<state, local, files, world, resetting, bounds, damaged>>

Begin(k) ==
  LET u == Of(k)
      st == IF state[u] = None THEN FreshEntry ELSE state[u]
  IN /\ stage[k] = "begin"
     /\ state' = [state EXCEPT ![u] = st]
     /\ IF st.due
        THEN /\ local' = [local EXCEPT ![k] = [NoLocal EXCEPT !.etag = st.etag, !.hash = st.hash]]
             /\ MoveTo(k, "fetch") /\ UNCHANGED index
        ELSE NextSource(k)
     /\ UNCHANGED <<checking, files, world, resetting, bounds, damaged>>

\* The checker's entry; it is written through a pointer, in the map or not.
Write(u, st) == state' = IF state[u] = None THEN state ELSE [state EXCEPT ![u] = st]
Entry(u) == IF state[u] = None THEN FreshEntry ELSE state[u]

FetchFails(k) ==
  /\ stage[k] = "fetch" /\ Fault
  /\ Write(Of(k), [Entry(Of(k)) EXCEPT !.due = FALSE])
  /\ NextSource(k)
  /\ UNCHANGED <<checking, files, world, resetting, damaged>>

\* Not modified, the same bytes as last time, a document that does not parse,
\* or something new.
Fetch(k) ==
  LET u == Of(k)
      doc == provider[u]
      checked == [Entry(u) EXCEPT !.due = FALSE]
      unmodified == tagged /\ local[k].etag = doc
      tag == IF tagged THEN doc ELSE None
  IN /\ stage[k] = "fetch"
     /\ IF unmodified \/ doc = local[k].hash \/ doc \in Broken
        THEN /\ Write(u, IF doc = local[k].hash THEN [checked EXCEPT !.etag = tag] ELSE checked)
             /\ NextSource(k)
        ELSE /\ Write(u, checked)
             /\ local' = [local EXCEPT ![k].doc = doc]
             /\ MoveTo(k, "remember") /\ UNCHANGED index
     /\ UNCHANGED <<checking, files, world, resetting, bounds, damaged>>

\* Mutant of Remember: the hash goes to disk at once.
RememberOnDisk(k) ==
  /\ stage[k] = "remember"
  /\ Write(Of(k), [Entry(Of(k)) EXCEPT !.hash = local[k].doc])
  /\ stateFile' = state'
  /\ MoveTo(k, "pin")
  /\ UNCHANGED <<checking, index, local, pinFile, documented, unjournaled, reported, world, resetting, bounds, damaged>>

Remember(k) ==
  /\ stage[k] = "remember"
  /\ Write(Of(k), [Entry(Of(k)) EXCEPT !.hash = local[k].doc,
                                       !.etag = IF tagged THEN local[k].doc ELSE None])
  /\ MoveTo(k, "pin")
  /\ UNCHANGED <<checking, index, local, files, world, resetting, bounds, damaged>>

PinOf(k) ==
  IF configured[Of(k)] # None THEN configured[Of(k)] ELSE pinFile[Of(k)]

\* loadPin answers none for a file that it cannot read.
LoadPin(k) ==
  /\ stage[k] = "pin"
  /\ \E unreadable \in BOOLEAN :
       LET pin == IF unreadable THEN None ELSE PinOf(k)
       IN /\ IF unreadable THEN Fault /\ configured[Of(k)] = None /\ damaged' = damaged \cup {Of(k)}
             ELSE UNCHANGED <<bounds, damaged>>
          /\ local' = [local EXCEPT ![k].pin = pin]
          /\ MoveTo(k, IF pin = None THEN "save" ELSE "journal")
  /\ UNCHANGED <<state, checking, index, files, world, resetting>>

SavePin(k) ==
  /\ stage[k] = "save"
  /\ pinFile' = [pinFile EXCEPT ![Of(k)] = local[k].doc]
  /\ MoveTo(k, "record")
  /\ UNCHANGED <<state, checking, index, local, stateFile, documented, unjournaled, reported,
                 world, resetting, bounds, damaged>>

SavePinFails(k) ==
  /\ stage[k] = "save" /\ Fault
  /\ NextSource(k)
  /\ UNCHANGED <<state, checking, files, world, resetting, damaged>>

Journaled(u) == {documented[u][i] : i \in DOMAIN documented[u]}

\* The journal with a change it may hold already, without the oldest one over
\* the cap.
With(journal, change) ==
  IF \E i \in DOMAIN journal : journal[i] = change THEN journal ELSE Append(journal, change)
Capped(journal) == IF Len(journal) > JournalCap THEN Tail(journal) ELSE journal

\* journalDocumented adds what the journal does not hold yet.  It starts from an
\* empty one when it cannot read the file, and nobody hears of a failed write.
Journal(k) ==
  LET u == Of(k)
      change == <<local[k].pin, local[k].doc>>
      Lost(gone) == unjournaled' = unjournaled \cup {<<u, c[1], c[2]>> : c \in gone}
      longer == With(documented[u], change)
  IN /\ stage[k] = "journal"
     /\ \/ change \notin Additive /\ UNCHANGED <<documented, unjournaled, bounds>>
        \/ /\ change \in Additive /\ UNCHANGED bounds
           /\ documented' = [documented EXCEPT ![u] = Capped(longer)]
           /\ Lost(IF Len(longer) > JournalCap THEN {longer[1]} ELSE {})
        \/ /\ change \in Additive /\ Fault
           /\ documented' = [documented EXCEPT ![u] = <<change>>]
           /\ Lost(Journaled(u) \ {change})
        \/ change \in Additive /\ Fault /\ UNCHANGED documented /\ Lost({change})
     /\ MoveTo(k, "report")
     /\ UNCHANGED <<state, checking, index, local, pinFile, stateFile, reported, world, resetting, damaged>>

\* The findings of specdiff.Diff go to the reporter, one after the other.
ReportChange(k) ==
  /\ stage[k] = "report"
  /\ reported' = reported \cup {<<Of(k), local[k].pin, local[k].doc>>}
  /\ MoveTo(k, "record")
  /\ UNCHANGED <<state, checking, index, local, pinFile, stateFile, documented, unjournaled,
                 world, resetting, bounds, damaged>>

\* recordChange dereferences the upstream's entry.
RecordChange(k) ==
  /\ stage[k] = "record" /\ state[Of(k)] # None
  /\ NextSource(k)
  /\ UNCHANGED <<state, checking, files, world, resetting, bounds, damaged>>

\* Mutant of Stale: persist writes what it has.
StaleNever(u) == FALSE
\* An entry whose pin somebody has removed.
Stale(u) == state[u] # None /\ state[u].hash # None /\ configured[u] = None /\ pinFile[u] = None

\* persist, under the file lock that ResetPin takes as well.
Persist(k) ==
  /\ stage[k] = "persist" /\ resetting = None
  /\ state' = [u \in Upstream |-> IF Stale(u) THEN None ELSE state[u]]
  /\ stateFile' = state'
  /\ checking' = FALSE
  /\ MoveTo(k, "idle") /\ index' = [index EXCEPT ![k] = 0]
  /\ UNCHANGED <<local, pinFile, documented, unjournaled, reported, world, resetting, bounds, damaged>>

\* The lock cannot be had, or the file cannot be written and the entries are gone
\* from memory only; Check ignores it.
PersistFails(k) ==
  /\ stage[k] = "persist" /\ resetting = None /\ Fault
  /\ state' \in {state, [u \in Upstream |-> IF Stale(u) THEN None ELSE state[u]]}
  /\ checking' = FALSE
  /\ MoveTo(k, "idle") /\ index' = [index EXCEPT ![k] = 0]
  /\ UNCHANGED <<local, files, world, resetting, damaged>>

-----------------------------------------------------------------------------
(* Everybody else *)

Publish ==
  /\ bounds.publish < MaxPublish /\ Use("publish")
  /\ \E u \in Upstream, d \in Doc : d # provider[u] /\ provider' = [provider EXCEPT ![u] = d]
  /\ UNCHANGED <<tagged, configured, files, agent, resetting, damaged>>

Overdue(st) == IF st = None THEN None ELSE [st EXCEPT !.due = TRUE]

\* spec_watch.interval passes.
Elapse ==
  /\ \E u \in Upstream : state[u] # None /\ ~state[u].due
  /\ state' = [u \in Upstream |-> Overdue(state[u])]
  /\ stateFile' = [u \in Upstream |-> Overdue(stateFile[u])]
  /\ UNCHANGED <<checking, stage, index, local, pinFile, documented, unjournaled, reported,
                 world, resetting, bounds, damaged>>

\* ResetPin removes the pin, then the entry of state.json, under the file lock.
ResetPin ==
  /\ resetting = None /\ bounds.resets < MaxResets /\ Use("resets")
  /\ \E u \in Upstream :
       /\ configured[u] = None
       /\ resetting' = u /\ pinFile' = [pinFile EXCEPT ![u] = None]
  /\ UNCHANGED <<stateFile, documented, unjournaled, reported, world, agent, damaged>>

ResetState ==
  /\ resetting # None
  /\ stateFile' = [stateFile EXCEPT ![resetting] = None]
  /\ resetting' = None
  /\ UNCHANGED <<pinFile, documented, unjournaled, reported, world, agent, bounds, damaged>>

ResetDies ==
  /\ resetting # None /\ Fault
  /\ damaged' = damaged \cup {resetting}
  /\ resetting' = None
  /\ UNCHANGED <<files, world, agent>>

\* The agent dies, and New loads what persist has last written.
Crash ==
  /\ bounds.crashes < MaxCrashes /\ Use("crashes")
  /\ state' = stateFile /\ checking' = FALSE
  /\ stage' = [k \in Checker |-> "idle"] /\ index' = [k \in Checker |-> 0]
  /\ local' = [k \in Checker |-> NoLocal]
  /\ damaged' = damaged \cup ({resetting} \ {None})
  /\ UNCHANGED <<files, world, resetting>>

Step(k) ==
  \/ Start(k) \/ Begin(k) \/ FetchFails(k) \/ Fetch(k) \/ Remember(k) \/ LoadPin(k)
  \/ SavePin(k) \/ SavePinFails(k) \/ Journal(k) \/ ReportChange(k) \/ RecordChange(k)
  \/ Persist(k) \/ PersistFails(k)

WatchNext ==
  \/ \E k \in Checker : Step(k)
  \/ Publish \/ Elapse \/ ResetPin \/ ResetState \/ ResetDies \/ Crash

WatchSpec == WatchInit /\ [][WatchNext]_watchVars

\* The ticker ticks, a check goes on, time passes and a reset ends.
FairWatchSpec ==
  /\ WatchSpec /\ WF_watchVars(\E k \in Checker : Step(k)) /\ WF_watchVars(Elapse) /\ WF_watchVars(ResetState)

-----------------------------------------------------------------------------
(* Properties *)

\* Everything stays in its type.
SpecWatchTypeOK ==
  LET Known == [etag : Doc \cup {None}, hash : Good \cup {None}, due : BOOLEAN] \cup {None}
  IN /\ provider \in [Upstream -> Doc] /\ pinFile \in [Upstream -> Good \cup {None}]
     /\ state \in [Upstream -> Known] /\ stateFile \in [Upstream -> Known]
     /\ \A k \in Checker : stage[k] # "idle" => index[k] \in 1 .. Len(Sources) + 1
     /\ checking = (\E k \in Checker : stage[k] # "idle")
     /\ reported \cup unjournaled \subseteq Upstream \X Good \X Good
     /\ documented \in [Upstream -> Seq(Good \X Good)]

PinFor(u) == IF configured[u] # None THEN configured[u] ELSE pinFile[u]

\* A change is in the journal, if it is of a kind that is, unless a write that
\* nobody heard of failed, the journal could not be read, or the cap pushed it out.
Noted(u, p, d) ==
  <<p, d>> \in Additive => <<p, d>> \in Journaled(u) \/ <<u, p, d>> \in unjournaled

\* ... and was handed to the reporter, whatever happened to the journal.
Told(u, p, d) == <<u, p, d>> \in reported /\ Noted(u, p, d)

\* A document is forgotten about (its hash is on disk, so no check looks at it
\* again) only once its difference to the pin has been told, whoever died when.
\* Not so where the pin could not be read, or where the reset or the agent died
\* after the pin was removed and before the entry was: the remembered hash is then
\* older than the new pin.
KnownIsReported ==
  \A u \in Upstream \ damaged :
    (stateFile[u] # None /\ stateFile[u].hash # None /\ PinFor(u) # None) =>
      \/ stateFile[u].hash = PinFor(u)
      \/ Told(u, PinFor(u), stateFile[u].hash)
      \/ resetting = u

\* recordChange finds the entry it dereferences.
EntryIsThere == \A k \in Checker : stage[k] = "record" => state[Of(k)] # None

\* Only ResetPin takes a pin away, and only a missing one is set: a check never
\* moves the baseline to what the provider publishes, unless it could not be read.
PinStays ==
  [][\A u \in Upstream \ damaged' :
       (pinFile[u] # None /\ pinFile'[u] # pinFile[u]) => (pinFile'[u] = None /\ resetting' = u)]_pinFile

\* A provider that stays with a document that differs from the pin is reported.
ChangeIsReported ==
  \A u \in Upstream : \A p, d \in Good :
    (p # d /\ provider[u] = d /\ PinFor(u) = p) ~>
      (<<u, p, d>> \in reported \/ provider[u] # d \/ PinFor(u) # p \/ u \in damaged)

\* After ResetPin (or a pin that could not be saved) the running agent, which
\* knows nothing of it, pins the document again.
ResetTakesHold ==
  \A u \in Upstream :
    (configured[u] = None /\ pinFile[u] = None) ~> (pinFile[u] # None \/ provider[u] \in Broken)

=============================================================================
