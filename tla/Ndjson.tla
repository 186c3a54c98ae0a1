------------------------------- MODULE Ndjson -------------------------------
(***************************************************************************)
(* internal/store/ndjson.go: an append-only log of at most two generations,  *)
(* path and path.1, that rotates by size and by age, under disk failures and *)
(* restarts.  Every method runs under n.mu, so a method is one step.         *)
(*                                                                           *)
(* The two users differ in two constants.  The recorder opens a stream's log *)
(* when the first record for it arrives (Lazy) and writes the time of the    *)
(* exchange; the alerter opens events.ndjson in New, and the time of an      *)
(* event is the fingerprint's first_seen, which may lie far back (MaxLag).   *)
(***************************************************************************)
EXTENDS Integers, Sequences, SequencesExt, Functions

CONSTANTS
  TTL,           \* NDJSON.ttl, in ticks of the agent's 30-second sweep
  MaxLogBytes,   \* NDJSON.maxBytes, in the unit of Weights
  Weights,       \* the lengths of the records
  MaxLag,        \* how far a record's time stamp may lie before its Append
  Lazy,          \* is the log opened by the first Append?
  DiskMayFail,   \* may an open, a rename or a write fail?
  MaxRecords,    \* model bound: how many records are appended
  MaxNow,        \* model bound: the last tick
  MaxStarts,     \* model bound: how often the process is started again
  NoTime         \* the zero time.Time

ASSUME NdjsonAssumption ==
  /\ TTL \in Nat \ {0} /\ MaxLogBytes \in Nat \ {0}
  /\ Weights \subseteq 1..MaxLogBytes
  /\ MaxLag \in Nat
  /\ Lazy \in BOOLEAN /\ DiskMayFail \in BOOLEAN
  /\ MaxRecords \in Nat /\ MaxNow \in Nat /\ MaxStarts \in Nat
  /\ NoTime \notin Int

VARIABLES
  main,      \* the records in path, oldest first
  prev,      \* the records in path.1, <<>> when there is no such file
  handle,    \* n.f and n.w: "closed" (not opened yet), "open", "dead" (every
             \* write fails from now on: a closed file, or the error a
             \* bufio.Writer remembers) or "nil"
  size,      \* n.size
  genStart,  \* n.genStart
  now,       \* the clock
  swept,     \* Sweep has run in this tick, after the log was opened (model only)
  appended,  \* the records appended so far (model only)
  failed,    \* the disk has failed once (model only)
  starts     \* restarts so far (model only)

log == <<main, prev, handle, size, genStart>>
logVars == <<log, now, swept, appended, failed, starts>>

LogRecord == [id : Nat, ts : Int, born : Nat, weight : Weights]

Weight(records) == FoldFunction(LAMBDA r, sum : r.weight + sum, 0, records)

\* Mutant of FirstRecordTime: the first record is not read.
FirstRecordTimeUnread == NoTime

\* The first record's time; the log is created when it is opened.
FirstRecordTime == IF main = <<>> THEN NoTime ELSE main[1].ts

\* OpenNDJSON: the size and the age of what an earlier process left.
Opened == [main |-> main, prev |-> prev, handle |-> "open",
           size |-> Weight(main), genStart |-> FirstRecordTime, err |-> FALSE]

LogInit ==
  /\ main = <<>> /\ prev = <<>>
  /\ handle = IF Lazy THEN "closed" ELSE "open"
  /\ size = 0 /\ genStart = NoTime
  /\ now = 0 /\ swept = FALSE /\ appended = 0 /\ failed = FALSE /\ starts = 0

Expired(g) == g # NoTime /\ now - g > TTL

-----------------------------------------------------------------------------
(* rotateLocked *)

\* Mutant of Rotated: a path.1 that is already there is kept.
RotatedKeepsPrev(l) ==
  [l EXCEPT !.main = <<>>, !.prev = IF @ = <<>> THEN l.main ELSE @, !.size = 0, !.genStart = NoTime]

Rotated(l) == [l EXCEPT !.main = <<>>, !.prev = l.main, !.size = 0, !.genStart = NoTime]

\* path.1 is already gone when the rename fails; path goes on, reopened or not.
NotRenamed(l, h) == [l EXCEPT !.prev = <<>>, !.handle = h, !.err = TRUE]

\* The rename is done and the new path cannot be opened.
NotReopened(l) == [Rotated(l) EXCEPT !.handle = "nil", !.err = TRUE]

RotateLocked(l) ==
  {[Rotated(l) EXCEPT !.handle = "open"]}
    \cup IF DiskMayFail
         THEN {NotRenamed(l, h) : h \in {"open", "dead"}} \cup {NotReopened(l)}
         ELSE {}

Set(l) ==
  /\ main' = l.main /\ prev' = l.prev /\ handle' = l.handle
  /\ size' = l.size /\ genStart' = l.genStart

-----------------------------------------------------------------------------
(* Append *)

Current == [main |-> main, prev |-> prev, handle |-> handle,
            size |-> size, genStart |-> genStart, err |-> FALSE]

\* A log that is opened by its first Append is opened here (Recorder.persist).
AtHand == IF handle = "closed" THEN Opened ELSE Current

NeedRotate(l, w) ==
  \/ l.size + w > MaxLogBytes
  \/ Expired(l.genStart) /\ l.size > 0

Started(l) == IF l.genStart = NoTime THEN [l EXCEPT !.genStart = now] ELSE l

Written(l, r) == [l EXCEPT !.main = Append(@, r), !.size = @ + r.weight]

\* The write fails; the record's length may have been counted before it does.
NotWritten(l, r) ==
  {[l EXCEPT !.handle = "dead", !.size = @ + counted, !.err = TRUE] : counted \in {0, r.weight}}

Write(l, r) ==
  IF l.handle = "dead" THEN NotWritten(l, r)
  ELSE {Written(l, r)} \cup IF DiskMayFail THEN NotWritten(l, r) ELSE {}

\* A log that lost its file in a rotation tries to open a new one first.
Reopened(l) ==
  IF l.handle # "nil" THEN {l}
  ELSE {[l EXCEPT !.handle = "open", !.size = 0], [l EXCEPT !.err = TRUE]}

Appends(r) ==
  LET l == AtHand
      rotated == IF NeedRotate(l, r.weight) THEN RotateLocked(l) ELSE {l}
      ready == UNION {IF k.err THEN {k} ELSE Reopened(k) : k \in rotated}
  IN  UNION {IF k.err THEN {k} ELSE Write(Started(k), r) : k \in ready}

AppendRecord(w, lag) ==
  /\ appended < MaxRecords
  /\ \E l \in Appends([id |-> appended + 1, ts |-> now - lag, born |-> now, weight |-> w]) :
       /\ Set(l)
       /\ appended' = IF l.err THEN appended ELSE appended + 1
       /\ failed' = (failed \/ l.err)
  /\ swept' = (swept /\ handle # "closed")
  /\ UNCHANGED <<now, starts>>

-----------------------------------------------------------------------------
(* Sweep, every 30 seconds from the agent's persistAll *)

\* Mutant of Age: the age of path.1 is that of its first record.
AgeOfFirst(l) == now - l.prev[1].born

\* path.1's modification time is that of the last write to it.
Age(l) == now - Last(l.prev).born

RemoveAged(l) == IF l.prev # <<>> /\ Age(l) > TTL THEN [l EXCEPT !.prev = <<>>] ELSE l

\* A log that no Append has opened is not in Recorder.files.
Sweeps ==
  IF handle = "closed" THEN {Current}
  ELSE {IF l.err THEN l ELSE RemoveAged(l) :
          l \in IF Expired(genStart) /\ size > 0 THEN RotateLocked(Current) ELSE {Current}}

Sweep ==
  /\ ~swept
  /\ \E l \in Sweeps : Set(l) /\ failed' = (failed \/ l.err)
  /\ swept' = TRUE
  /\ UNCHANGED <<now, appended, starts>>

\* The agent sweeps in every tick.
Tick ==
  /\ swept
  /\ now < MaxNow
  /\ now' = now + 1
  /\ swept' = FALSE
  /\ UNCHANGED <<log, appended, failed, starts>>

-----------------------------------------------------------------------------
\* The process ends, by Close or a crash, and the next one opens the log at once
\* or when a record arrives.  Every Append is flushed, so Close adds nothing to
\* the file.  Of a log that could not be opened again (handle "nil") Close flushes
\* a nil writer and panics, which to the disk is one more crash.
Restart ==
  /\ starts < MaxStarts
  /\ starts' = starts + 1
  /\ Set(IF Lazy THEN [Opened EXCEPT !.handle = "closed", !.size = 0, !.genStart = NoTime]
         ELSE Opened)
  /\ UNCHANGED <<now, swept, appended, failed>>

LogNext ==
  \/ \E w \in Weights, lag \in 0..MaxLag : AppendRecord(w, lag)
  \/ Sweep
  \/ Tick
  \/ Restart

LogSpec == LogInit /\ [][LogNext]_logVars

\* The agent's ticker sweeps in every tick.
FairLogSpec == LogSpec /\ WF_logVars(Sweep)

-----------------------------------------------------------------------------
(* Properties *)

Stored == prev \o main

\* The two generations hold the newest records, in order and without a gap:
\* whatever fails, only the oldest are ever given up.
NewestSurvive ==
  \A i \in DOMAIN Stored : Stored[i].id = appended - Len(Stored) + i

\* Neither generation outgrows the cap, whatever fails and restarts.
DiskBounded == Weight(main) <= MaxLogBytes /\ Weight(prev) <= MaxLogBytes

SizeRotation == \E w \in Weights : AtHand.size + w > MaxLogBytes

\* In a step of a log that is not at its size cap, only records older than d
\* leave the disk.
OnlyOlderLeave(d) ==
  \A i \in DOMAIN Stored :
    \/ now - Stored[i].born > d
    \/ SizeRotation
    \/ \E j \in DOMAIN Stored' : Stored'[j] = Stored[i]

\* A record that leaves the disk is older than the retention age, but for what
\* the time stamps lag: a generation that a restart has found is as old as its
\* first record says it is.
KeptForTTL == [][OnlyOlderLeave(TTL - MaxLag)]_logVars

\* docs/config-reference.md: "A record is kept at least that long".  The lag of
\* an event's first_seen has no bound, and a restart takes it for the age of the
\* generation.
KeptAsDocumented == [][OnlyOlderLeave(TTL)]_logVars

\* After a sweep of an open log whose disk works, nothing is older than twice
\* the retention age.
SweptByTwiceTTL ==
  swept /\ ~failed /\ handle # "closed" =>
    \A i \in DOMAIN Stored : now - Stored[i].born <= 2 * TTL

\* What is on the disk is bounded in size, and in age as far as sweeps reach.
NothingOverstays == DiskBounded /\ SweptByTwiceTTL
=============================================================================
