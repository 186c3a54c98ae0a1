# pikopod in TLA+

pikopod is a single Go binary with two lives. As an **agent** it is a reverse
proxy between a program and the third-party APIs it calls: it forwards every
exchange, records a sanitised copy, learns what the API's answers look like,
watches the documents their providers publish, and raises an alert when either
changes. As a **sandbox** it is a stateful imitation of such an API, built from
an API description or from recordings, with stored resources, seeds, snapshots,
faults, rules, webhooks, and scenarios that are run or verified against it.

The modules here model the parts of the program in which several goroutines,
the disk, a restart or a long history meet: the hand-over from the proxy to the
recorder, the alerter, the log files, the learned families, the watcher of
provider documents, and on the sandbox's side the stored resources, what is
remembered per scope, the outgoing webhooks and the scenario runner; and the
part in which four readings of one document have to agree: the comparison of
two contracts, the check of recorded traffic against one, the update that
follows from it, and the answers a sandbox makes up. TLC checks each on a small
instance; for the first nine TLAPS proves, for every value of the constants,
every safety property that TLC checks. All line numbers refer to this commit of
the repository.

To repeat a check: `tlc -config MCCapture.cfg MCCaptureQueue`, and so on with
the pairs listed under "Runs". To repeat a proof: `tlapm Recording_proofs.tla`.

## 1. The system

### Parts, their state and their operations

| part (`internal/...`) | state | operations | hard because | module |
|---|---|---|---|---|
| `proxy/proxy.go` | `captures` channel, `queuedBytes`, `closed` under `closeMu`, counters | `forward`, `Close` | one goroutine per request; eviction from a channel others use; close under the senders' feet | `CaptureQueue`, `LossyQueue` |
| `proxy/recorder.go` | one log per stream, sampling counters, delivery index | `Run`, `handle`, `persist`, `Sweep` | logs opened lazily; panics in observers | `CaptureQueue` (receive, release), `Ndjson` (logs) |
| `store/ndjson.go` | `path`, `path.1`, writer, `size`, `genStart` | `OpenNDJSON`, `Append`, `rotateLocked`, `Sweep`, `Close` | every disk call can fail; age is guessed after a restart | `Ndjson` |
| `alert/alert.go` | `states` under `a.mu`, `state.json`, `events.ndjson`, delivery channel, WaitGroup | `Report`, `ReportDeclared`, `ReportObserved`, `emit`, `Ack`, `MaybeDigest`, `deliver`, `Close` | the latch is taken under the lock, all its consequences happen outside it | `Alerter` |
| `agent/agent.go`, `join.go` | baselines, contracts, refiners | `observe`, `persistAll` every 30 s, `accept`, shutdown | order of shutdown; the ticker next to the recorder | the tick in `Ndjson`, `Learner`, `SpecWatch`; the order of `Close` in `Alerter`; `accept` in `Learner` |
| `pathtmpl` | candidates and pins per path position | `Apply`, `MergeKey` | a promotion changes where later paths go | `PathGuard` |
| `baseline` | per family: counts, values, frozen references | `Observe`, freeze, `mergeFamiliesLocked`, `Refreeze`, `Persist`, load | long histories; merges of frozen and unfrozen families | `Learner` |
| `drift` | none | `Diff` | reads a family's reference and its size without the learner's lock | `Learner` |
| `specwatch` | hash, ETag, pin, journal of documented changes | `Check`, `ResetPin` | remembered before it is reported; the pin is removed from another process | `SpecWatch` |
| `sandbox/store.go`, `handler.go`, `seed.go` | SQLite tables, `idem` under `idemMu`, `seeding` under its own lock | create, modify, remove, seed, snapshot, restore, reset | a request is several statements; the control plane clears the table under it | `Sandbox` |
| `sandbox/webhooks.go`, `faults.go` | armed faults with held deliveries, the bounded log, sink queue and its loop | announce, emit, arm, clear, deliver, close | reordering on purpose; a release without the lock; close | `Webhooks` |
| `sandbox/scope.go`, `journal.go`, `faults.go`, `rules.go`, `replay_tier.go` | per scope: windows of faults and rules, recordings served, journal entries | touch, forget, evaluate, match, record, reset | each table has its own lock; a scope is evicted while it is used | `Scopes` |
| `scenario`, `mode` | two virtual clocks, captures, results; the engine's journal | validate, run, verify | verdicts from a bounded journal that the application goes on writing | `Scenario` |
| `agent/divergence.go`, `divergence` | cache of live forks | build, use, expire, close | a fork closed while in use | not modelled |
| `agent/webhooks.go`, `webhooktap` | ids seen in 24 h (FIFO), last time stamp per resource | observe a delivery | bounded tables and wall-clock windows | not modelled |
| `ir`, `specdiff`, `conformance`, `specupdate`, `sandbox/validate.go`, `synthesize.go` | none; the documents | flatten, compare, check, derive and apply changes, make up answers | each reads compositions, references and null in its own code; a history of versions is compared pairwise | `Contracts`, `SpecDiff`, `SpecUpdate`, `SpecEvolution` |
| `volatile`, `sanitize`, `importer`, `docimport`, `behaviour`, `report`, `truth`, `scenario/nl`, ... | none | pure functions of documents | their difficulty is data, not order | not modelled |
| `config`, `mcp`, `bridge`, `llmprovider`, CLI | none, or external | I/O and formatting | | not modelled |

`PROJECT.json` lists every part with its files.

### How they interact

```
 client --> Server.forward --> upstream          provider's document
               | captures (bounded, lossy channel)      ^
               v                                        | Check (a goroutine per tick)
          Recorder.Run --> NDJSON log per stream     spec watcher <-- ResetPin
               | observers, on the recorder's goroutine |   (`sandbox update`,
               v                                        |    another process)
            agent.observe --> guard, learner, drift     |
               | findings                               |
               v                                        v
            Alerter.Report / reportFirst  (any goroutine)
               | events.ndjson, state.json      | delivery channel
               v                                v
              disk                        deliveryLoop --> sinks
 30 s ticker --> persistAll --> Sweep, baselines, MaybeDigest, Check
 operator    --> /ack, /accept --> Alerter, learner

 application --> sandbox: touchScope -> faults -> rules -> recordings or store
                   |  a changed row --> webhooks through faults --> log --> sink
                   +--> journal <-- scenario runner (check, verify)
 control plane --> seed, snapshot, restore, reset, arm, clear, close
```

The parts share little memory and talk by method calls, so each is modelled
under *any* use its callers can make of it: `CaptureQueue` leaves the recorder
free to be slow, stuck or absent; `Alerter` lets any goroutine report any
fingerprint at any time, in particular during `Close`, because `Agent.Run`
closes the alerter with the recorder and the HTTP server still running
(`agent.go:434`); `Ndjson` is called by `Append` and by the ticker's `Sweep` in
any order its lock allows; `Sandbox` lets the control plane interrupt every
request between any two statements; `Scenario` lets the application send
between any two steps of a verification, and within one.

Where two parts share state they are in one module: the guard, the learner and
the comparison in `Learner`, the announcing requests and the sink in
`Webhooks`, the five tables a scope owns in `Scopes`, the runner and its engine
in `Scenario`.

### What makes each part correct

* **Hand-over.** The proxied request must never wait for the recording; the
  byte budget must not leak on any of the paths that give bytes back; nobody
  may send on the closed channel; the counters account for every loss; order
  is kept.
* **Alerter.** A finding is delivered at most once as long as its latch is
  kept, and is on disk before it is delivered; it is in the event log; `Close`
  neither panics nor hangs nor loses what was queued; eviction spares windows
  that are counting.
* **Logs.** Only the oldest records are ever given up; the cap holds through
  failures; a record is kept for the retention age, less what its time stamp
  lags, and gone by twice it.
* **Learner.** A merge of families loses no sample; what a reference was
  learned from is never reported against it; an accepted reference reaches the
  disk.
* **Spec watcher.** A change is never remembered without having been reported,
  nor taken into the pin in silence; a change and a reset both take effect.
* **Sandbox store.** An Idempotency-Key creates once; numbers are not reused;
  no update is lost; the quota is overshot by no more than the racing creates;
  both mutexes come back on every path.
* **Webhooks.** Every change is announced, no delivery is lost on its way to
  the log except on purpose, announcements do not overtake each other, the
  sink's counters add up and `Close` harms no request.
* **Scopes.** A test in its own scope sees a sandbox of its own; an evicted
  scope leaves nothing behind; the journal is honest about what it dropped.
* **Scenario.** A verdict about counts or order is right about what was sent;
  a run that passes has compared something.
* **Contracts.** Differences that are not reported break nobody, however many
  of them follow each other; an update that was applied settles what it was
  made for and takes nothing back; a sandbox answers what its contract promises.

The hazards behind these, each at its line, are in `PROJECT.json`.

## 2. The modules

### `CaptureQueue` and `LossyQueue`

`CaptureQueue` is `Server.forward` from the served request to the capture's
fate, `Server.Close`, and `Recorder.Run` as the channel sees it. `pc[e]` is the
place of exchange `e`'s handler in `forward`; each atomic load, atomic add,
lock operation and channel operation is one step.

| code (`proxy.go`) | action |
|---|---|
| `ServeHTTP` returns, or panics with `ErrAbortHandler` | `Served`, `Aborted` |
| `queuedBytes.Load()+size > maxCaptureBytes`; then `Add` | `CheckBudget`, `Reserve` |
| `closeMu.RLock`, `if s.closed` | `RLock` (a waiting writer holds readers back), `CheckClosed` |
| the non-blocking send | `Enqueue`, `FindsFull` |
| `case evicted := <-s.captures`, its release and count | `Evict`, `CountEvicted`, `NothingToEvict` |
| the retry and its default branch | `Enqueue`, `RetryFails` |
| `dropped()`, `CapturesQueued.Add`, the deferred `RUnlock` | `FinishDropped`, `FinishSent` |
| `Close` | `CloseStart`, `CloseChannel` |
| receive; the deferred `Release` | `Take`, `Handled` |

`fate` is a history variable: what became of each capture. `LossyQueue` is the
promise made to the recorder: a bounded FIFO from which the oldest may vanish,
which accepts nothing once closed. `ImplementsLossyQueue` is the refinement,
with `queue <- captures` and `open <- ~closed`.

### `Alerter`

`at[t]` is the place of goroutine `t` in `emit`, `persist` and `deliver`.
`states` is the map `Alerter.states` as four components: which fingerprints are
tracked, alerted and acked, and their window counts. The critical section of
`Report`/`reportFirst` is one action (`Report`, or `TurnAway` when the map is
saturated); then come `AppendLog`, `CountDelivery` (the digest and the hourly
ceiling), `Snapshot` and `WriteState` (`persist`: copied under the lock,
written outside it), `EnterDeliver` (the `closed` check and `deliveryWG.Add`
under the lock) and `Send` or `Overflow` outside it. `StartSink`/`FinishSink`
are `deliveryLoop`; `CloseFlag`, `CloseDeliveries`, `CloseLog` are `Close`.
`Restart` is a crash, or an end after `Close`, followed by `New`, which loads
`state.json`.

Time is abstracted to choices: a window has expired or not, the delivery hour
has rolled over or not, and which of the acknowledged (else alerted) entries is
the least recently seen. `notified`, `forgotten` and `unlogged` are history
variables: what the sinks got, the latches that were lost (by an eviction, a
failed write of `state.json`, or a snapshot that lands after a newer one), and
the events that were (their append failed, `Close` had closed the log, or the
process died between the latch and the log). The properties are about all other
findings. Left out: texts, occurrence counts and times, the counter of dropped
deliveries, the read-only queries, a second `Close` (which closes the log
again).

### `Ndjson`

Every method runs under `n.mu`, so a method is one action: `AppendRecord`,
`Sweep`, `Restart` (close or crash, then `OpenNDJSON`). The failures of open,
rename and write are choices inside `RotateLocked` and `Write`, in the order
the code meets them; `handle` tells an open file from one whose writes fail for
ever (`"dead"`: a closed file, or the sticky error of `bufio.Writer`) and from
a missing one (`"nil"`). `Lazy` and `MaxLag` tell the two users apart: the
recorder opens a stream's log with its first record and stamps records with
the start of the exchange, a little before; the alerter opens `events.ndjson`
at start, and an event's time is the fingerprint's `first_seen`, which may lie
far back. `MaxLag` is how far a stamp may lie back. A tick of the clock
is the agent's sweep interval. The assumption `Weights \subseteq 1..MaxLogBytes`
excludes a record longer than the cap; what happens then is among the hazards.
`Close` flushes the writer, which is nil after a reopen that failed, and
panics; the disk sees a process that ends, so `Restart` stands for it.

### `PathGuard` and `Learner`

`PathGuard` holds the operators of `pathtmpl`: `Apply` walks a path, counts its
segments at each place and either pins the frequent literals of a place or
turns it into an id once more than `Threshold` were seen. `MergeKey` is `Apply`
of a template. `TemplateOf` is what `Apply` would return if it did not count.
Which segments look like an id at sight is the constant `Placeholder`. The
walks are folds, so that `Learner` stays free of recursion.

| code | `Learner` |
|---|---|
| `Learner.Observe` with `mergeFamiliesLocked`, `absorb`, `freeze` (`baseline.go`) | `Observe`: one action under the lock; on a promotion the families are merged in any order, since Go's maps have none |
| `drift.Diff`: everything but removed fields | `Compare`, which reads the reference |
| `drift.Diff`: presence ratios | `CompareRemoved`, which reads the sizes, later and also without the lock |
| `acceptHandler`, `Refreeze` | `RefreezeReference`, `RefreezeSamples` |
| `Persist`, by the accept and by the tick | `Copy` under the lock; `Write` or `WriteFails` outside it |
| a crash, `load` | `Restart`: the families of the file, a guard that knows nothing |

A family records for each field how many samples had it, their types and, up to
`ValueCap`, their values. `refLearned`, `forgot`, `version`, `pending` and
`last` are history: what a reference was learned from, of which fields a merge
has dropped the values, and which accepts are not on disk yet.

### `SpecWatch`

| code (`watch.go`, `journal.go`) | action |
|---|---|
| the tick's `go Check()`, the `checking` flag | `Start` |
| is the source due | `Begin` |
| the fetch, ETag, hash, parse | `Fetch`, `FetchFails` |
| the entry's new hash and ETag | `Remember` |
| `loadPin`, `savePin` | `LoadPin`, `SavePin`, `SavePinFails` |
| `journalDocumented`: the journal read, extended, cut and written | `Journal` |
| the findings to the reporter | `ReportChange` |
| `recordChange`; `persist` under the file lock | `RecordChange`, `Persist`, `PersistFails` |
| `ResetPin` in the process of `sandbox update` | `ResetPin`, `ResetState`, or `ResetDies` between the two |
| the interval, the provider, the agent's death | `Elapse`, `Publish`, `Crash` |

A document is a value, and two documents differ or do not: what they differ in
is `SpecDiff`'s business. `Additive` says which differences hold one of the four
kinds of change that are journaled; an entry of the journal stands for all the
changes of one pin and one document, and the journal's own test for repetitions
is per entry. A journal that cannot be read is begun anew, one that cannot be
written stays as it was, and the cap drops the oldest entry: `unjournaled` keeps
what is lost in these ways, which the code does not notice. (A single document
whose changes exceed the cap of 5000 alone, so that the cap drops part of an
entry, is left out, and so is a `state.json` that cannot be read at start, which
begins as on the first day.) `SpecWatch` and `Alerter` are proved about in one
module, so what both would name alike is `WatchInit`, `WatchNext`, `FreshEntry`
and so on in the first.

### `Sandbox`

SQLite runs with one connection, so a statement or a transaction is one action
and everything between two of them interleaves.

| code | actions |
|---|---|
| `doCreate` (`handler.go`) | `BeginCreate` (`idemMu`, remembered keys), `AllocateSeq`, `CheckQuota`, `Insert`, `Record` |
| `doModify` | `BeginModify` (read, If-Match), `CheckModifyQuota`, `Update`, `Conflict`, `Reread` |
| `doRemove` | `Remove` |
| `Seed` (`seed.go`) | `Seed`, `SeedNumbered` |
| `Snapshot` | `Serialize`, `KeepSnapshot` |
| `Restore` | `RestoreClear`, `RestoreLoad` |
| `Reset` | `ResetClear`, `ResetTake`, `Reseed`, `ResetForget` |

A stored id `<type>_<n>` is its number `n`; seed items may name any id, also
one that a create will be given later (`SeedKey`). A field's value is who wrote
it last, which is what a lost update is about. `epoch` and `uncounted` are
history variables, and `crossed` says that the row a modify has read was
deleted since.

### `Webhooks`

A thread is a request that has changed a row, a call of `EmitWebhook` or a call
of `ClearFaults`; `step[t]` is its place.

| code (`webhooks.go`, `faults.go`) | action |
|---|---|
| the statement that changes the row | `ChangeRow` |
| `enqueueWebhookFor`: `webhookMu`, the scan of the declared webhooks, the deliveries built | `Enqueue` |
| `EmitWebhook` | `EmitWebhook` |
| `emitThroughFaults` under `faultMu`: duplicate, drop, delay, hold and release | `EmitThroughFaults` |
| `appendDelivery`: the log is read, extended and cut | `LoadLog`, `StoreLog` |
| `appendDelivery`: `sinkClosed`, then the send that does not wait | `CheckSink` and `Send`, or `DropClosed`; `SendOnClosed` panics |
| the deferred unlock | `EndAnnounce` |
| `ArmFault`, `ClearFaults` | `Arm`, `ClearFaults`, after which the clearer appends what it released |
| `sinkLoop`, `deliverToSink`, `Close` | `Receive`, `Post`, `EndLoop`, `Close`, `CloseReturns` |

`ClearFaults` does not take `webhookMu`. That is why an append is two steps and
the look at the sink another: what it releases can overwrite another append and
can be sent on the closed channel. The properties say what holds in spite of
it, and `NothingIsLost` is about the runs in which nothing was released. An event can be
declared more than once (the importer makes one declaration of each method of a
webhook), so its second half counts deliveries per event against declarations
that are due.

### `Scopes`

A request of a client is the steps in which `ServeHTTP` touches what its scope
owns: `Begin` (`touchScope`), when it evicts the oldest scope `ForgetJournal`,
`ForgetFaults`, `ForgetRules`, `ForgetRecordings` (`forgetScope`, a lock each),
then `EvaluateFaults`, `ApplyRules`, `MatchRecording` (`recordedFirst` and
`serveRecording` of `replay_tier.go` over `replay.Set`) and `Record`.
`ResetJournal` and `ResetJournalScope` are the control plane's.

An armed fault or a rule has a window (`times`, per scope or per
Idempotency-Key); a recording matches by its exact key, then by its shape, and
each scope is served the recordings of a key in their order. `history` and
`answers` record what each scope asked and was told; `Alone` replays it
against a fresh sandbox, and that is the specification. `clean` says of a scope
that none of its requests overlapped, which is what a test that runs its
requests one after the other guarantees.

### `Scenario`

In the mode `check` a definition is validated (`Valid` is `ValidateScenario`'s
walk over the variables) and all its steps run against an engine of its own. In
the mode `verify` `Compile` leaves the verifying steps, which run against the
engine that is serving and may not change it (`readOnly`), while the
application sends (`AppSend`, `AppRecord`, `AppAnswer`: a request is recorded
after it was handled and before it is answered), scopes are forgotten
(`ForgetScope`) and the wall clock moves (`Tick`).

Each step type is an action: `SendRequest`, `WaitStep`, `ExpectWebhook`,
`InjectFault`, `ClearFault`, `SeedState`, `AssertState`, `EmitWebhook`, `Note`,
`VerifyRequests` and `VerifySequence`; `Unresolved` is a step whose
interpolation fails. `CountRequests` and `VerifyRequests` are two actions
because the runner reads the journal's count and its last request under two
locks. `Settle` is what `RunWith` does with a step's outcome. What an assertion
about a response compares is data, and its verdict a choice; a count and a
sequence are computed. `read` in a result is a history of what had really been
sent when the step looked.

### `Contracts`, `SpecDiff`, `SpecUpdate`, `SpecEvolution`

The first three are operators over a contract as the importers leave it: a
schema is a tree of records, a value has a class and what that class needs.
They use recursive operators, which the prover does not take, so nothing is
proved about them.

| code | operators |
|---|---|
| `ir.FlattenAllOf` | `Flatten`, `MergeProps` |
| `validateNode` (`sandbox/validate.go`) | `Accepts`, `HasType`, `ServerAssigned` |
| `synthesize`, `derefSchema`, `flattenComposition` | `Synthesized`, `Deref`, `FirstOf`: the set of answers over all seeds |
| `checker.walk` and `checkVariants` (`conformance.go`) | `Violations`, `Conforms` |
| `specdiff.DeriveLevel` | `DeriveLevel`; `Shift` for the changes of what is guaranteed |
| `walkSchema`, `diffEnums`, `diffProperties` (`schema.go`) | `WalkSchema` and the findings it collects |
| `diffParams`, `diffRequestBody`, `diffResponses`, `diffContent`, security (`specdiff.go`) | the operators of the same names, `Diff`, `Breaking` |
| `conformance.Check` | `CheckRecord`, `Keep`, `Check` |
| `DeriveChanges`, `Apply`, `findResponse`, `navigate` (`specupdate`) | `DeriveChanges`, `Updated`, `FindResponse`, `Navigate`, `Amended` |

`SpecEvolution` is what they are for. `published` is the contract in force,
`built` the one a team has built on. `Release` is any other version, `Update`
the version `pikopod agent spec-update` makes of recorded traffic, and both are
compared with the version before. A team that is warned builds anew; one that
is not stays, so its version can be many versions old (`Adopt` is when it likes).
`Compatible` says independently of `specdiff` what a team relies on: each
request that the old contract describes and its sandbox takes is taken by the
new one, and each answer the new one describes conforms to the old one.

The properties name what the code does not see: `BlindSpot` (exchanged members
of a composition, a type given up or settled, an array that begins or ceases to
describe its items), a null at an `allOf`, and an `allOf` whose members share
properties or are not objects (`OneVoice`). Left out: examples, defaults,
formats, number ranges, depth limits, the wording and positions of findings,
non-JSON content, the overlay's admissions other than of a field. The patched
document is not imported again: the contract is patched where the document
would be.

## 3. Runs

Every `.cfg` but the last one's has `CHECK_DEADLOCK FALSE`: in each system all goroutines may be
idle for good (nobody has to report, request or close), and the models' own
counters end.

| run | module, configuration | instance | properties |
|---|---|---|---|
| `capture` | `MCCaptureQueue`, `MCCapture.cfg` | 4 exchanges of different sizes and both kinds, 2 in flight, channel of 2, budget 4 | `BudgetKept` (exact accounting, and an overshoot of at most one body per racing handler), `NoSendAfterClose`, `EveryCaptureCounted`, `ImplementsLossyQueue`, `HandOverGoesOn` (no handler waits for the recorder, `Close` drains) |
| `alert` | `MCAlerter`, `MCAlerter.cfg` | 2 goroutines that report, one of which also acknowledges and sends digests, 3 fingerprints (2 windowed, one of them muted), map of 2, channel of 1, 1 delivery per hour, 4 calls, a restart at any point | `CloseDeliversAll`, `LatchedIsLogged`, `LiveWindowKept`, `OneAlertEach` (the latch is on disk before the sink is called, nothing is delivered twice), `AlerterGoesOn` (`Report` never waits for a sink, `Close` ends unless the process does) |
| `ndjson_log` | `MCNdjson`, `MCNdjsonLog.cfg` | 4 records of length 1 or 2, stamped up to a tick back, cap 4, retention 2 ticks, clock to 5, a restart, disk failures anywhere | `NewestSurvive`, `NothingOverstays` (the cap; swept by twice the age), `KeptForTTL` |
| `ndjson_events` | `MCNdjson`, `MCNdjsonEvents.cfg` | 4 events stamped up to 3 ticks back, retention 2 ticks, 2 restarts, a disk that works | `KeptAsDocumented`, which TLC finds violated |
| `learner` | `MCLearner`, `MCLearner.cfg` | 4 observations of 5 exchanges, one through an id, promotion at the second literal, warm-up of 2, an accept, the tick, a crash | `MergesLoseNothing`, `FindingsAreDrift`, `AcceptReachesDisk` |
| `spec_watch` | `MCSpecWatch`, `MCSpecWatch.cfg` | 2 checkers, 1 provider with 2 documents and a broken one, 2 publications, a journal of one entry, one reset, one crash, one failure | `KnownIsReported`, `ChangeIsReported`, `ResetTakesHold` |
| `sandbox_store` | `MCSandbox`, `MCSandboxStore.cfg` | 2 clients, 1 control-plane goroutine, quota 1, 3 numbers, 1 retry, a seed id that looks like number 2 | `FreshNumbers`, `QuotaOvershoot`, `KeyCreatesOnce`, `NoLostUpdate` |
| `sandbox_answers` | `MCSandbox`, `MCSandboxAnswers.cfg` | 1 client with 2 keys, 2 control-plane goroutines | `EverythingAnswers` |
| `webhooks` | `MCWebhooks`, `MCWebhooks.cfg` | a request that announces 2 events, an emission, a clearer, up to 2 faults of 4 kinds, log of 3, sink queue of 1, `Close` at any point | `NothingIsLost`, `LogInOrder`, `SinkAccounting`, `CloseIsSafe`, `EverythingEnds` |
| `scopes` | `MCScopes`, `MCScopes.cfg` | 2 clients, 2 scopes and the empty one, room for 1 scope, journal of 2, 3 window keys, 3 requests, 1 reset | `AnsweredAsIfAlone`, `NothingLeftBehind`, `JournalHonest` |
| `scenario` | `MCScenario`, `MCScenario.cfg` | `check`: every valid definition of up to 4 of 14 steps; `verify`: each of 7 steps against up to 3 requests, journal of 2 | `EvidenceHonest` (what a count or a sequence says was sent was sent), `ClocksDifferByTimeouts`, `ValidatedResolves`, `VerdictHonest` |
| `spec_evolution` | `MCSpecEvolution`, `MCSpecEvolution.cfg` | one operation, 71 versions of its contract, 9 recordings, an admitted field | `QuietMeansCompatible`, `UpdateTakesHold`, `SandboxHonoursSpec` |

### What the documents promise and the code does not keep

Some promises hold only under a condition, which the properties state and the
hazards explain:

* "Dedupe and acknowledgement are persisted, so restarts do not re-alert."
  (`docs/config-reference.md:347`): a reporter that has copied the state before
  another goroutine latches, or before an `/ack`, can write its older copy after
  the other's (`alert.go:604`). What it takes from `state.json` is `forgotten`,
  and `OneAlertEach` is about the rest.
* "A given structural change notifies once" (`:343`): a finding reported after
  `Alerter.Close` is latched and neither logged nor delivered, and an event is
  also lost when the process dies between the latch and the log while another
  goroutine writes the latch to disk. `unlogged` has these events.
* "A record is kept at least that long" (`:290-292`): after a restart a
  generation is taken for as old as its first record says, which is for
  `events.ndjson` the `first_seen` of a fingerprint, perhaps weeks back, and for
  recordings the start of the exchange. It is rotated early, and the one before
  it goes with it. `ndjson_events` finds it; `KeptForTTL` says that records go
  early by no more than their stamps lag.
* "... and deleted no later than roughly twice that age" (the same place):
  `Sweep` visits only the logs this process has opened. `NothingOverstays` is
  about an open log.
* `spec-diff` passes over the changes of `BlindSpot`: of two compositions of one
  kind only the number of members is compared (`specdiff/schema.go:54-61`), and
  a type that is `unknown` on one side is never a change (`schema.go:116`).
* `spec-update` answers a null at an `allOf` with `nullable` beside it
  (`specupdate/apply.go:145`), where `FlattenAllOf` does not look
  (`ir/flatten.go:26`): the next check finds the null again, and the next update
  skips it as done.
* "a run with nothing evaluable is CONDITION_GENERATED"
  (`scenario/runner_test.go:200`): the assertions of a step whose type never
  looks at them (`WAIT`, `NOTE`, the fault, seed and emit steps,
  `VERIFY_SEQUENCE`) are counted as evaluated, since such a step leaves
  `notEvaluated` at 0 (`runner.go:179-185`). A run of one `WAIT` with one
  assertion says PASSED, "1 assertion(s) passed; 0 not evaluated".
  `VerdictHonest` names these steps (`Credited`), together with those that
  failed closed and may fail.
* "MergeKey should re-templatize old families" (`pathtmpl/pathtmpl_test.go:64`)
  into the templates that requests get from then on. A placeholder that tells
  the kind of an id it takes elsewhere: `{uuid}` is no id at sight, so where a
  place was promoted `MergeKey` takes it for one more literal, while `Apply`
  turns a uuid there into `{uuid}` without looking at the place
  (`pathtmpl.go:105`). `/charges/{uuid}/refunds` is merged into
  `/charges/{id}/refunds`, where no request goes, and its traffic is learned
  from the start again under the old template. `NoOrphans` names these paths
  (`Mistaken`).
* The sandbox takes the first schema of a property that two members of an
  `allOf` share (`sandbox/synthesize.go:266`), the checks the last
  (`ir/flatten.go:67`): what it answers can violate its own contract.

### Bounds, and why they are enough

* `CaptureQueue`: two handlers in flight are the fewest that can both pass the
  budget check, evict each other's capture or take the freed slot. Four
  exchanges fill the channel and leave two that race for it, and a budget of
  four lets those two in beside a full channel. The sizes differ,
  so a release of the wrong capture shows. `MaxInFlight` is also the number of
  racing handlers in `BudgetKept`. The four bodies together weigh no more than its
  bound on the overshoot, so of the two halves of `BudgetKept` the run tests the
  exact accounting; the overshoot is settled by the theorem `BudgetIsKept`. (A
  smaller budget would keep two handlers from racing for a full channel.)
* `Alerter`: `MinOccurrences` 2 gives a window an intermediate count. A map one
  smaller than the number of fingerprints forces eviction and saturation; a channel of one
  forces overflow; one delivery an hour reaches the ceiling note and the silence
  after it. The hour counter saturates above the ceiling. Two goroutines are
  what a send on the closed channel, an older snapshot landing later and an
  acknowledgement beside a report take; the second has the acknowledgements and
  the digest as well, since goroutines differ only in what they call. Four calls
  (`MaxCalls`) fill the map, evict from it and report the evicted finding again,
  before or after the restart. The disk does not fail in the run, which would
  only put more into `forgotten` and `unlogged`; the proofs cover it, and any
  number of calls and restarts.
* `Ndjson`: a retention of two ticks tells "older" from "old", and five ticks are
  more than twice it, so that a record can go through both generations by age; a cap
  of four with lengths 1 and 2 lets rotation happen below, at and across the
  cap; four records of them fill both generations, and one rotated by age is
  dropped by the next. A stamp that lags by one tick is wrong by half the
  retention. The restart happens at any point, and a failure at every disk call.
  `ndjson_events` has stamps older than the retention, and a cap that is never
  reached.
* `Learner`: paths of two places, of which either can be promoted, so that a
  promotion merges families of different templates, also two frozen ones. The
  exchanges differ in a value, in a field, in a status of the same class, in
  a null and in an id at a place that may be promoted, which gives each kind of finding something to be about. Four
  observations are a warm-up of two, a promotion and one that is compared. One
  value per field overflows `ValueCap`.
* `SpecWatch`: one provider, because the check goes through the sources one
  after the other with nothing shared but `state.json`; the proofs are for any
  number. Two checkers show what `checking` is for. Two publications let a
  document go and come back, and one of the three does not parse. A reset in
  between gives a second pair of pin and document, which pushes the first out of
  a journal of one.
* `Sandbox`: two clients for the races between requests, one control plane for
  its races with them. Three numbers allow a create after a create after a
  reset. A single field is enough for lost updates since `NoLostUpdate`
  compares whole rows. `Target` restricts modifies to the resource whose key
  both a seed and a create can have: the one a reset can replace under them.
  `MaxVersion` 1 lets a second modify start from a changed row. The clients
  are symmetric in the safety run; the run with a liveness property uses no
  symmetry. `sandbox_answers` leaves modifies out (`MaxVersion` 0), which hold
  no lock, and has two control planes to contend for both mutexes. One retry of
  the four (`maxModifyRetries`) reaches both outcomes of a conflict.
* `Webhooks`: one request with two events and one emission are two announcers
  that share `webhookMu`, and the first has more than one append to be
  overtaken in. Two armed faults are what a reorder fault behind a duplicate
  takes. A log of three is cut, a queue of one overflows.
* `Scopes`: room for one scope makes each change of scope an eviction; two
  clients put one between any two steps of the other. Three requests are one of
  a scope, one that evicts it and one that brings it back. The fault counts per
  Idempotency-Key, the rule for all, and the recordings are one that matches
  exactly, one that matches by shape and one that failed.
* `Scenario`: the fourteen steps have each type once, and twice where captures,
  `continue_on_failure` or assertions make a difference; a delay of two
  against a wait of one puts a delivery before, at and after an
  `EXPECT_WEBHOOK`. In verify mode one step is enough, since steps that only
  look do not disturb each other; three requests into a journal of two evict.
* `SpecEvolution`: the differ treats operations, media types and places of a
  schema one by one, so versions that differ from the plain one in one place,
  and pairs of them, reach every finding. Each schema stands once in a request
  and once in a response; properties, items and members are one level deep and
  two where a reference or an `allOf` lies between. The values are all classes,
  two strings, and arrays and objects of them. The chains end by themselves:
  what is reported moves `built` along, and what is not is compared through any
  number of versions.

## 4. Fairness

* `CaptureQueue`: weak fairness for each handler once served and for
  `CloseChannel`: the Go scheduler runs a goroutine that can step. Nothing is
  assumed of the client, the upstream or the recorder for the first part of
  `HandOverGoesOn`; that `Close` drains carries `RecorderFair` as an explicit
  premise. That a waiting
  writer of `closeMu` keeps new readers out is part of `RLock`, as in Go's
  `RWMutex`.
* `Alerter`: `ReporterSpec` has weak fairness for the steps after a report;
  nobody has to report, tick, acknowledge or close. That `Close` ends
  assumes `SinksFair`: sink calls end, which their HTTP client's timeout ensures;
  a crash in the meantime ends it too.
* `Sandbox`: weak fairness for a request's next step; strong fairness for the
  control plane's, which compete for `seeding.mu` and `idemMu` with others that
  come back again and again: Go's mutex hands over to a waiter that has waited
  for more than a millisecond. No request has to come.
* `Webhooks`: weak fairness for each thread that has begun, for the loop's
  receive and end, and for `Post`, since the sink's client gives up after five
  seconds. Nobody has to request, clear or close.
* `Learner`: an accept's handler runs to its end. The tick comes every 30
  seconds for as long as the process lives (strong fairness of `Copy`, which
  waits for the lock), and a write succeeds if it is tried for ever: the disk
  does not fail for good. Nothing has to be observed.
* `SpecWatch`: weak fairness for the check as a whole, which includes the tick
  that starts it, for the interval and for a reset that has begun. Nobody has to
  publish, and failures are bounded.
* `Ndjson`: no liveness property; that a sweep happens in every tick is in
  `Tick`'s guard, and "deleted by" is a state predicate. `ndjson_events` runs
  under `FairLogSpec`, in which the agent's ticker does sweep, so that its
  counterexample is not a program that stood still.
* `Scopes`, `Scenario` and `SpecEvolution` have no fairness and no liveness property: a request's steps and a runner's hold no lock from one to
  the next; nobody has to release or adopt anything.

## 5. What is proved

For all values of the constants that the modules' assumptions allow. These ask
for finite sets, natural numbers where a code's constant is one, at least one of
what there is at least one of (`CaptureAssumption`: an exchange, a place for a
handler), and for values of different kinds to differ (`NoticesAssumption`: a
notice is no fingerprint; `RowAssumption` and `ScopesAssumption`: `None` is no
row, no name and no key). `tlapm` checks every step. Hypotheses beyond that are
in the theorems and named below.

**`FoldLemmas`.** Several properties speak of sums over sets and of folds. What
is needed of them is proved once, for any operation, and instantiated: a fold
may set any member (or the last one) apart (`FoldStep`, `FoldLast`), and two
folds of the same values are the same (`FoldCongruence`). Induction over finite
sets and numbers is the absence of a smallest counterexample
(`SubsetInduction`, `NumberInduction`), from well-foundedness in the library.

**`Recording_proofs`**, from the hand-over to the log. *`CaptureQueue`.* The inductive invariant `IInv` adds to the type:
`LockInv` (between `RLock` and `RUnlock` a handler is in `readers`), `FateInv`
(before its send or drop nothing has become of a capture) and `QueueInv` (the
channel holds exactly the waiting captures, none twice). `LockInv` is why
`CloseChannel`, which needs `readers = {}`, cannot run between `CheckClosed`
and the send: `SendsOnlyWhileOpen`. `FateInv` and `QueueInv` are why a send
appends an exchange that is new to the queue, which makes each step one of
`LossyQueue` or a stutter: `RefinesLossyQueue`. `BudgetIsKept`: the check and
the reservation are two atomic operations, so handlers race past the budget;
`CurrentInv` says that `queuedBytes` is the sum of the sizes reserved and not
released, and `BudgetInv` that one of those between check and reservation
checked last, so its check counted all that was reserved and the others add one
body each. `CountersAreComplete` is inductive with `IInv`: every step moves the
two sides of each balance by the same amount.

**`Reporting_proofs`**, of what the agent reports. *`SpecWatch`.* The property `KnownIsReported` speaks of the file; what
keeps it is `MemoryInv`, the same for the entries in memory but for the source
a check is at, `HandInv` (what a checker holds fits the entry it is about to
write or to report) and `OneInv` (the flag lets one check in at a time, without
which what one holds another could have overtaken). `JournalNotes` is why the
journal's own losses disturb nobody else's entry: each outcome of `Journal` keeps
every change noted that was, or names it in `unjournaled`. `ResetInv` is why a pin
that is removed takes the entry along: `persist` throws an entry away whose pin
has gone. From the same invariant: `EntriesAreThere`, that `recordChange` never
dereferences an entry that was dropped, and `PinsStay`, that only `ResetPin`
takes a pin away and a check only sets one that is missing. These are for any
number of providers, checkers, documents, crashes and resets.

*`Alerter`.* `IInv` adds to the type that the three copies of the map
are well formed (`MapsInv`), that a goroutine in `emit` has a fingerprint and
one in `deliver` a message (`JobInv`), and then `WaitGroupExact` and
`CloseDeliversAll` themselves, which need each other: the channel is closed
only at `wg = 0`, and `wg` counts the senders, the queue and the sink call.
`LiveWindowsAreKept` follows from lemmas about `Admit` and `Victims`.
`LatchedChangesAreLogged` rests on `LogInv`: every latch of which there is a copy,
in memory, in a snapshot or on disk, is on record (logged, about to be, or known
to be lost). `EachAlertOnce` rests on `AlertInv`, for each fingerprint whose
latch was not forgotten: what is latched on disk, in a snapshot about to be
written or in somebody's hands is latched in memory (`Latched`), so nobody takes
it up again, and its alert is in one place, with one goroutine, in the queue, or
told (`OnePlace`). Neither has a hypothesis: any number of goroutines reports,
acknowledges and persists, the process dies at any point, the map is of any size
and appends and writes may fail. What they except they name by the step that
causes it, `forgotten` and `unlogged`.

*`Ndjson`* (whose definitions are `LogInit`, `LogNext` and so on, so that one
module can extend both). `LogIInv` says of the log at hand that records are in the
order of their appends, that a file weighs no more than its cap, that a writer
known to be nil has left nothing behind, that each generation spans at most the
retention age and has not outlived it after a sweep that did not fail. Each
operation is proved to keep this for every outcome of every disk call (`RotateKeeps` and its
like), also for the log that a lazy open makes of the files. From it
`NewestRecordsSurvive` and `NothingStaysTooLong`. `RecordsAreKept` adds
`StampInv` (what is in `path.1` is, but for the lag of its stamps, no younger
than the age of the open generation says) and is for any `MaxLag`: the retention
that is kept is `TTL - MaxLag`, which is the documented one for records stamped
at their append and says nothing of an event whose `first_seen` is older than
that.

**`Sandbox_proofs`.** `KeysCreateOnce` from `IdemInv`: a create with a key
holds `idemMu` from its check to its answer, and meanwhile nobody has recorded
that key. `NumbersAreFresh` from `NumberInv`: every key the sandbox knows or
can bring back (`Kept`: stored, a seed item, waiting in a reset, in a snapshot,
in a restore) is below `next_resource_seq` or one a seed item chose, and the
number of a create that has not inserted yet is in none of these places and
with no other create. `Kept` is what the property alone lacks: a restore may
put back what is in a snapshot. `OvershootIsBounded` from `QuotaInv`: rows
counted and creates between count and insert exceed the quota by less than the
number of clients, since one of them counted last. `NoUpdateLost` from
`UpdateInv`: a row that was read and not deleted since (`crossed`) is the row
that was read if and only if its version is, so an update that compares the
version overwrites nothing it has not seen.

**`Webhooks_proofs`.** `IInv` adds to the type (`LogInv`, `SinkInv`,
`ThreadInv`) what the first two properties need. `CloseHarmsNobody` rests on
`LockInv`: a request or an emission holds `webhookMu` from building its
deliveries to the last append, and `Close` needs it to be free, so the sink
that was found open is open at the send; and on `CloseInv`: the loop ends only
on a closed and empty channel with nothing in hand, and stays ended.
`SinkBooksBalance` is inductive with the type: each step that appends also
counts, queues or drops. `LogKeepsOrder` from `OrderInv`: what is built is newer
than everything about (`BuiltOrder`), and what is appended is the newest there
is, unless a reorder fault has held it (`EmitOrder`). `NothingGetsLost` has two
halves. `Account`: as long as `ClearFaults` has released nothing, the log an
append has loaded is the log, no two deliveries share a number, and the numbers
given are divided among the log, those trimmed, dropped and held, and those on
the way of whoever holds `webhookMu`. `Calls`, as long as in addition no fault
was armed and the log trimmed nothing: between the declarations that a call
announces and its deliveries, built, on the way or logged, there is a bijection
that keeps the event; when the call is done, all of them are in the log.
The half of a release is not there to be proved: it appends without the lock.

**`Scopes_proofs`.** One invariant for three properties: `Honest` (the journal's
entries have rising numbers, and without an eviction all unscoped entries are
there), `Gone` (a scope that is not registered has no request under way and is
forgotten in each of its four tables, or someone is on the way to forget it
there), `Single` (a scope that is registered and `clean` is forgotten by
nobody and serves one request at a time) and
`Undisturbed`, which is what `ScopesAreIsolated` needs: what such a scope has in
the four tables is what its own requests alone would have left there, or will be
when the request under way has taken its remaining steps (`Rest`). Other
requests touch no entry of the scope, and its own follow `Rest`.
`EvictedScopesAreForgotten` is `Gone` when nobody is forgetting;
`JournalIsHonest` is `Honest` with what the journal keeps of a scope (`Keeps`).

**`Learner_proofs`**, for any traffic, guard, warm-up and cap of the values.
*`DriftIsReal`.* `IInv` says of each family, in memory, on disk and in every copy
still to be written, that it is `Good`: its statistics know the exchanges folded
into it (`Knows`: status, fields, types and, but for forgotten fields, values),
and for each field those that have it and the exchanges that lack it are
together no more than the samples (`Within`), and the same of its reference and what
that was learned from. Each operation keeps this: `FoldGood`, `ReferenceGood`,
`SamplesGood`, `AbsorbGood`, and `MergeFamiliesGood` for every order in which Go
may visit the map. The number of samples belongs to the reference (`Settled`)
except in the families of a template whose accept is between its two writes.
`RecorderInv` carries what the comparison's first part has read to its second,
as long as no accept came between (`raced`). Whether a field is lacking is
decided by the exchanges, so the claim is the stronger one that no exchange is
counted as having what it lacks.

*`MergesAreHarmless`*, with `MergeInv` beside `IInv`. Its first half is a sum:
each family's status codes add up to its samples (`Tallied`, of every copy and
the file too), one family put in another's place changes the total by the
difference (`PutTotal`), and a merge in any order adds each family's samples once
(`MergeFamiliesTotal`). Its second half is about templates: a merge applies the
guard to the templates that its families have, and the family a path goes to from
then on is found by applying it to the path. That both end at the same template is
`Reread`, and it rests on an invariant of the guard that the code nowhere states:
a value on the way to a place has been counted at least as often as the place has
values, and `PinCount` times if the place was promoted (`Backed`). So whatever
leads to a promoted place is frequent enough to be pinned when a place further up
is promoted (`Stable`), and no promotion moves a place that was promoted before.
`Backed` is the only use of `PinCount <= Threshold + 1` (3 and 32 in the code).
Without it the property is false: with a threshold of 2 and a pin count of 6, TLC
finds a promotion that leaves an orphan behind. `ApplyFacts` carries it through a whole
path by way of `Ahead`: the counts before the segment at hand are one ahead.
`MistakenPath` and `StillHome` say that a path which is not mistaken now never
was, so that the property's exception is that of the present guard.

**`Scenario_proofs`.** For any menu of steps whose parts have their types
(`StepAssumption`), any application and any journal. `IInv` adds to the type
(`DefinitionInv`: the definition comes from the menu and, in the mode `check`,
was found `Valid`; one result per step that is done) what each property needs:

* `JournalInv` for `EvidenceIsHonest`. The journal's entries tell of requests
  that were sent, in the order in which they were finished (`EntriesInv`), and
  without an eviction or a forgotten scope they are all of them
  (`CompleteInv`). `CountedInv` bounds what was counted by what had been seen
  and begun when it was counted, so that the second read of `VERIFY_REQUESTS`,
  which comes later, is compared with the right moment. Most of the work is
  `Match`, a fold over the matchers: `ScanSound` turns a scan that found all
  of them into a choice of requests in order and within the gaps, and
  `ScanComplete` shows that a scan that takes the first hit each time finds a
  choice if there is one, which is why "never" is right. Both are by induction
  over the number of matchers. `EvidenceInv` keeps the verdicts: a
  journal that grows, evicts or forgets takes nothing back of what a step said.
* `CaptureInv` (a result's captures are in the runner's) for
  `ValidatedRunsResolve`: a variable that `Valid` found captured before is in
  `captures` unless the step that captures it did not.
* `VerdictInv` for `VerdictIsHonest`: what `RunWith` counts of each step
  relates to what was compared (`Sound`), and the steps behind a hard failure
  are the skipped ones.
* `ClocksAgree` is inductive with the type, as `lag` is set to 0 whenever the
  engine's clock is set.

The proof of `VerdictIsHonest` found two things that TLC's small menu had not.
`RunStatus` was a `CASE` whose guards overlap, which says less than the
`switch`'s order. And the property was wrong for a step that carries an
assertion which its type never looks at (`Unread`): `RunWith` counts it as
evaluated (see the promises that are not kept, above). The property now names such steps
(`Credited`) and the menu has one.

Type invariants are theorems of their own (`TypeCorrect`) for `CaptureQueue`,
`Alerter`, `Webhooks`, `SpecWatch` (`WatchTypeCorrect`) and `Scenario`; in `Ndjson`, `Sandbox`,
`Scopes` and `Learner` the
types are conjuncts of the invariants above. Every invariant was first checked
by TLC as an invariant of the component's run.

**Only model-checked.** Liveness (`HandOverGoesOn`, `AlerterGoesOn`,
`EverythingAnswers`, `EverythingEnds`, `AcceptReachesDisk`,
`ChangeIsReported`, `ResetTakesHold`), which the prover does not reach. The
operators over contracts are `RECURSIVE`, which keeps `SpecEvolution` with TLC.

## 6. What is not modelled

* Pure functions of text: volatility patterns, sanitising, importers,
  rendering, and of the sandbox's answers the conventions, formats and ids.
  Their difficulty is in data: whether a YAML reference is
  resolved or a name is masked is settled by examples, and a model would be a
  second implementation.
* The operating system's part: the file locks that keep a second agent out of
  the data directory are why the models have one process. `pikopod ack`, which
  rewrites `state.json` beside a running agent, is among the hazards.
* A partial line after a failed write, and the temporary file that all writers
  of `WriteFileAtomic` share: hazards.
* The cache of live forks (`agent/divergence.go`): its entries are sandbox
  engines and what it exchanges with them is HTTP in process. That a fork can
  be closed under an observation that uses it, or built after the last close,
  is among the hazards. The order and duplicates of inbound webhooks
  (`agent/webhooks.go`): two bounded tables used by one goroutine.
* In the sandbox: byte quotas (the count stands for them), recorded ids, the
  wire faults and latencies, what a rule compares and sets, and reads. The
  announcement after a write is `Webhooks`' own, since a request's place in
  `Sandbox` ends with its row.
* In the agent: sampling and exclusion of captures, contracts and refiners.
* Where two steps of the code are one of the model: the receive of an eviction
  and its release (`CaptureQueue`); the number and the insert of a seed item
  without an id (`seed.go:103,114`), and the copy of the snapshot with the clear
  (`SeedNumbered`, `RestoreClear`); a reset of the journal, which takes its lock
  twice (`journal.go:233-237`); the two reads of a family's reference and of its
  status codes at the beginning of a comparison (`drift.go:91,102`); and
  `ClearFaults`, which clears all faults here and can clear some. What may come
  between, or stay armed, is left out.
* Single outcomes: a rule's `set_state`, which writes a row without comparing
  its version (`rules.go:519-523`), so that `NoLostUpdate` is about the updates
  that requests make; a delivery that cannot be marshalled and is not built; a
  seed step of a scenario that the quota refuses; a template that walks into a
  property of a captured value, or meets a null (`template.go:79-84`), which
  validation accepts by its base name (`validate.go:131`).
* How traffic earns an admission to the overlay (`contract`), bridge, MCP, pull requests, configuration and
  the command line: sequential drivers and formatting.

## 7. What could come next

* `AnswersOfOne`: an abstract sandbox with one client per scope that `Scopes`
  refines, of which `AnsweredAsIfAlone` is the state predicate.
* `AtomicFile`: two writers of one path with one temporary file, and a crash
  between the rename of one and the write of the other.
* `AgentRun`: ticker, recorder, watcher and shutdown over abstract parts
  (`CaptureQueue` through `LossyQueue`), what a stop may lose, and the offline
  `ack` as a second process.
* `ForkCache` and the tables of the delivery observer.
* A composition of `Sandbox` with `Webhooks`: announcements of one resource by
  racing updates, and what a reset in between makes of them.
