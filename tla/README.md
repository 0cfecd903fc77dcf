# iriq, specified

TLA+ models of iriq's Rust implementation (`rust/iriq/src`), the TLC runs that
check them and the TLAPS proofs about them.  Paths below are relative to the
repository; `corpus.rs`, `main.rs` and so on are files of `rust/iriq/src`.

## The system

iriq parses identifiers (URLs, URNs, hosts, paths) and learns from them.  A
*corpus* accumulates what it observed: host and cluster counts, per-position and
per-parameter value statistics, a log of every observation, and recognizers for
token prefixes it has learned and activated.  A command line streams text
through it.  Several processes may share one corpus file.

| Component | State | Operations | Hard behaviour |
|---|---|---|---|
| Corpus (`corpus.rs`) over SQLite (`storage_sqlite.rs`, `storage.rs`) | log, views, activated recognizers; per connection: batch depth, remembered `data_version`, classifier, TEMP views | `observe`, `batch`, `observe_all`, `reinfer`, `activate_proposal`, close, reopen | processes interleave at every lock; nested batches; failed reads, writes and COMMITs; lock timeouts; crashes; a rebuild that starts over |
| Value slots (`storage_sqlite.rs` `value_counts`, `position_stats.rs`) | counts per distinct value, at most `max_values_per_position`; a remembered cardinality per slot and connection | observe a value, commit, roll back, rebuild | the remembered count going stale |
| Memory and JSON storage (`storage_memory.rs`, `storage_json.rs`) | the same corpus in memory | the same, with no transaction | a rebuild in place that starts over finds its own record |
| JSON file (`storage_json.rs`, `main.rs` `--reset`) | the file, temp files, a write counter per process | open, save through a temp file, reset | concurrent saves, crashes mid-save, a reset between steps |
| Streaming command line (`main.rs`) | the reader's buffer, the line, what is rendered and printed | read, chunk, print, save | input that pauses mid-line, a reader that leaves, kills, another process waiting for the lock |
| Lock turns (`storage_sqlite.rs` `wait_for_lock`, `turn_over`, `end_turn`; `corpus.rs` `observe_all`) | lock, turn clock | poll, take a turn, pause | starvation of a poller by a long writer |
| SQLite open (`storage_sqlite.rs` `open`) | journal mode, tables, schema version, recorded cap | check, convert, create, record | processes and builds creating one file, deaths half way, a reset meanwhile |
| Rows and views (`storage_sqlite.rs`, `storage_memory.rs`, `cluster.rs`, `storage_json.rs`) | thirteen tables, or maps and lists in memory; a JSON dump of them | write an event, read back, rebuild, export, load | one promise kept by three representations: caps, orders and totals worked out in SQL, in memory and on load |
| Parameter types (`position_stats.rs`, `cluster.rs` `param_type_for`, `storage_json.rs` `load_counts`) | per parameter: counts of values and types, numeric range | observe a value; read the type off the counts; reread the counts from SQLite | rungs that overlap, thresholds, values past the cap, two rules for one range |
| Evidence and proposals (`corpus.rs` `annotate_segments`, `recognizer_proposal.rs`, `hints.rs`) | none; reads the views | classify and render a segment, propose recognizers | thresholds at few observations; ties in hash order; evidence of before an activation |
| Classifier (`classifier.rs`, `synthesized_recognizer.rs`) | registered recognizers, a memo cache behind a mutex; one shared by the library, one by corpora, one per corpus with activations | register, classify | an answer cached late, or by another corpus's recognizers |
| Parser, identifiers, shapes (`parser.rs`, `identifier.rs`, `normalizer.rs`, `trace.rs`, `clusterer.rs`, `cross_host_shape.rs`, `registrable_domain.rs`) | none | parse, canonical form, normalize, trace, explain, cluster key, shapes across hosts | two renderers that must agree; a canonical form that is logged and parsed again |
| Command line (`main.rs`) | options, the corpus it opened, the exit status | parse options, choose the corpus and the command, observe, activate, report, reset, save, flush | failures at every step and which of them the exit status tells; other runs, other builds, a reset meanwhile |
| Text extraction, inflector (`extractor.rs`, `inflector.rs`) | none | string algorithms | none that is stateful |
| Ruby implementation (`lib/iriq`) | the same | the same | kept equal by shared fixtures |

How they meet: the command line opens a corpus through `open_storage` (memory,
JSON or SQLite by file name), streams identifiers into it inside
`Corpus::batch`, renders each from the corpus as it then stands, and saves on
exit.  The corpus calls its storage for every read and write; the storage calls
back nothing.  Processes meet only in the file: on SQLite through the write
lock, `data_version` and committed rows, on JSON through `rename`.  Threads of
one process meet in the JSON write counter and in the default classifiers, one
shared by the library's functions and one by the corpora without activations.

What makes each correct:

* *Corpus on SQLite*: batches, activations and rebuilds of all processes
  serialize; the views are always the log replayed with the stored recognizers;
  no observation is lost, half counted or counted twice; a rebuild asked for ends.
* *Value slots*: never more than the cap, never fewer than there is room for,
  the same as memory would keep.
* *Memory and JSON*: every call ends with views, recognizers and classifier in
  step; no prefix is stored twice.
* *Evidence*: a corpus that has seen little changes nothing; what was activated is
  not proposed again.
* *Parameter types*: a verdict is vouched for by every value observed, an enum is
  not lost to more of the same, and all backends read the same counts.
* *JSON file*: always whole; no save disturbs another; a corpus alone on its
  file loses nothing.
* *Streaming*: nothing printed is lost from the corpus; the lock is not held
  while waiting for input; lines keep their order; what arrives gets printed.
* *Rows and views*: whatever the tables answer is what memory would; an export
  loads back as the corpus it came from.
* *Identifiers*: a canonical form parses to the identifier it came from; a trace
  shows what normalize renders; shapes across hosts are those of the log.
* *Classifier*: every answer is what a new classifier would give that caller.
* *Opening*: whoever opened has every table and a version; the first version and
  cap recorded stay.
* *Command line*: the exit status tells what was done and is kept; an activation
  is reported by one run.
* *Lock turns*: turns and waits end in time; a writer that used a whole turn
  leaves the lock free; a writer beside one that takes whole turns never times out.

## Modules

| Module | Models | State and actions against the code |
|---|---|---|
| `AtomicCorpus` | what a shared corpus promises | one atomic step per committed batch, activation or rebuild |
| `Corpus` | `corpus.rs` over `storage_sqlite.rs` | `db` is the committed file, `work[p]` the file as `p`'s transaction sees it, `depth` is `SqliteStorage.depth`, `moved` the connections whose remembered `data_version` is out of date, `activations` what `use_activations` built the classifier from, `job` the locals of `rebuild` with the TEMP views. One action per step between which another process can run: `BEGIN`, each observation, `COMMIT`, each replay pass, install, and every failure of theirs |
| `ValueCap` | one position's or parameter's slot and `value_counts` | the batches and rebuilds of `Corpus` with the slot in place of the views; `cache` is the remembered cardinality |
| `InPlaceCorpus` | `corpus.rs` over `storage_memory.rs` (JSON uses the same) | the same rebuild loop where `batch_*` do nothing and a rebuild writes the live views |
| `Evidence` (extends `InPlaceCorpus`) | `classify_segment`, `corpus_token`, `hint_for`, `propose_recognizers` | no state of its own: operators over `views`. `At(position)` is a `PositionEvidence`, a set of observed segments; `Informed` and `Mechanical` are a segment's rendering with and without a corpus; `MayPropose` whether a prefix can be proposed, whichever way ties fall |
| `ParamTypes` | `PositionStats::observe`, `Cluster::param_type_for`, `load_counts` | `stats` is one parameter's `PositionStats`, `seen` every value observed whether tracked or not, `sample` the values the parameter happens to take; `ParamType` is the ladder, one operator per rung; `Reread` is `load_counts` |
| `JsonFile` | `storage_json.rs`, `cmd_reset` | `temps` is the directory's temp files; `CreateTemp`, `WriteTemp`, `Rename` are the three system calls of `dump_memory_to_json` |
| `Stream` | `main.rs` `stream_per_iri_sections`, `LineInput`, `Rendered`, `run`, `finish` | `buffer` is the BufReader's, `line` the line being read, `rendered` the output not printed yet; the pipe, its writer, the output's reader and another process are the environment |
| `LockTurns` | `wait_for_lock`, `turn_over`, `end_turn`, `batch_begin`'s sleep, `observe_all` | `held` is the age of `locked_at`, `pause` what is left until `next_turn`, `waited` the time since the busy handler's first retry; `Tick` lets time pass unless some process is as late as it can be |
| `Identifiers` | `parser.rs`, `identifier.rs`, `normalizer.rs`, `trace.rs`, `explanation.rs`, `shape.rs`, `clusterer.rs`, `registrable_domain.rs`, `events_for_iri` | no state: operators on texts, which are sequences of words and marks. `Parse` gives an `Identifier` record or `Error`; `Events` is what one observation records |
| `MemoryViews` | `storage_memory.rs`, `Cluster`, the JSON dump and load | `views` is `MemoryStorage`, with clusters and positions in the order they were first seen; `Dump` and `Load` are `memory_to_value` and `load_memory_from_json` |
| `SqliteViews` | the row code of `storage_sqlite.rs`, `mirror_into_memory`, `cross_host_shapes` | `db` has one function per table, from its primary key; one operator per statement or group of upserts; `LoadPositions`, `LoadClusters` and `MirrorIntoMemory` read back |
| `Classifier` | `classifier.rs`, `synthesized_recognizer.rs`, `use_activations` | `classifiers` is each `SegmentClassifier`'s recognizers and cache; `Ask` and `Insert` are the two holds of the mutex in `classify`, with the computation between them; `UseActivations` is a corpus changing its classifier |
| `Opening` | `SqliteStorage::open`, `enable_wal`, `stored_schema_version` | `files` is every file there ever was and `path` the one at the corpus's path, so a process keeps the file it opened after a reset; one action per statement, as each commits on its own |
| `CommandLine` (extends `Opening`) | `main.rs` `run` and what it calls, `resolve_corpus_path`, `parse_options`, `cmd_*`, `finish` | `run[p]` is a run's locals; `at` names the stage of `run()` it is at; `fresh` is what it reports as newly activated and `failed` what went wrong, kept to compare with the exit status |
| `MC*` | | instances for TLC |
| `Keyed` | | maps and tables as functions, which `MemoryViews` and `SqliteViews` share |
| `FoldSteps` | | no state: induction along two folds, instanced by the proofs with the folds' steps and what relates them |
| `*_proofs` | | theorems: `Corpus_proofs`, `ValueCap_proofs`, `CommandLine_proofs` (with `Opening`), `Evidence_proofs` (with `InPlaceCorpus`), `Stream_proofs` (with `LockTurns`), `Types_proofs` (`Classifier` and `ParamTypes`), `Storage_proofs` (`SqliteViews`, its identifiers, and `JsonFile`) |

Two modules are shown to implement an abstract one, which they instantiate with
a refinement mapping.  `Corpus` implements `AtomicCorpus`: `SerializesToAtomic` is
`Atomic!Spec` with the committed file for its state.  `SqliteViews` implements
`MemoryViews`: `ReadsAsMemory` is `Memory!Spec`, where `Memory` is `MemoryViews` with
`views <- MirrorIntoMemory`, the tables as a reader puts them together.

`ValueCap`, `InPlaceCorpus` and `Stream` are separate because each
looks closely at what `Corpus` abstracts: `Stream` takes from it that a batch is
atomic and that rollback leaves nothing; `ValueCap` keeps its control and adds
the slot.  `SqliteViews` and `MemoryViews` are what one observation's events do to
the views, which `Corpus` keeps whole; `Classifier` is the cache `Corpus` takes to
be exact; `CommandLine` composes `Opening` with whole runs.

### Abstractions

* In `Corpus` the views are the sequence of observations counted in them, each
  with the list of recognizers it was classified with.  Counts, examples, capped
  values and cluster order are functions of that sequence, so equality of
  sequences is the strongest statement about them.
* A failed statement is an action of its own wherever the code has an error path
  of its own.  What a partly executed observation or install leaves in an open
  transaction is written out (`ObserveFails`, `InstallFails`, `Halfway`).
* SQLite is modelled by what the code relies on: one writer, snapshots, rollback
  of an open transaction on death, TEMP tables private to a connection,
  `data_version` moved by other connections' commits that wrote.
* In `ValueCap` a rebuild may stop replaying after any entry, rather than after
  a pass that catches up, which allows more behaviours.
* In `Stream` a line is a first piece and perhaps an ending one, holding one
  identifier, none, or bytes that are not UTF-8.
* `Evidence` takes the built-in type of a value, its canonical form, its prefix and
  the singular of a word from constants: patterns and inflection are external.
  Its counts are those of a position below the value cap.  The thresholds 20, 5,
  3... are constants, so that small logs reach both sides of each.
* `ParamTypes` compares shares exactly where the code divides floats.  The two can
  differ in `IsMixedNumber` only, which adds two quotients: 0.7 + 0.1 is a
  little less than 0.8.  Enum thresholds are the code's own values.
* `Identifiers` writes a text as words and marks (`/`, `?`, `:`, `.` ...), so that
  parsing splits and joins for real while what a word looks like (its type, its
  singular, its canonical form, a port's number) comes from constants.
* In `SqliteViews` and `MemoryViews` an observation or an activation is one step and
  no one else writes: failures half way, transactions and remembered counts are
  `Corpus`, `ValueCap` and `InPlaceCorpus`.  Numeric ranges are `ParamTypes`.
* `Classifier` takes from constants which regular expressions a segment matches and
  which looked-up parts hold; the segments and their types are those of
  `spec/fixtures/classifier.json` and `canonical_date.json`, the property's
  reference is the type those fixtures document.
* `Opening` lets the wait for a lock end by the lock or by a timeout, and lets an
  open file outlive its name, as POSIX does.
* `CommandLine` keeps what was observed as a set of (run, input) pairs.  A file that is
  no text is taken to be bad from its first line on.  A JSON save is one step
  (`JsonFile` has its own), and what two JSON runs lose to each other is theirs.
* Time is left out of every module but `LockTurns`: elsewhere a lock wait ends by
  the lock or by a timeout, at any moment.  `LockTurns` in turn leaves out what
  transactions do.  Its clocks are whole numbers and stop counting where nothing
  depends on them any more.

### Constants that stand for what callers and faults may do

* `NestedActivation`: whether a caller activates a proposal inside `batch`.  The
  command line never does; the library permits it.
* `ReadFaults`: whether reading the stored activations back may fail.
* `MaxSwallowed`: how many times a batch goes on after an observation in it failed.

* `MaxFaults`, `MaxRuns`, `MaxFiles`, `MaxRetries`: bounds of `CommandLine` and `Opening` on
  failures, runs, files created at the path, and retries of the WAL conversion.
* `Common`: the segments that may be asked about together in `Classifier`; the others
  are asked about alone, since they differ only in what their type is.
* `Inputs` and `Readable`: what may be observed, and what is only parsed, rendered and
  traced, which depends on nothing stored.

`Corpus`'s strongest properties hold with the first two FALSE; what each of them
breaks is listed under "Disagreements".

## What the runs check

| Run | Instance | Shows |
|---|---|---|
| `corpus_agrees` | 2 connections, 2 prefixes, log of 2 | the views match the log, classifiers are current, activations are reported truly, committed states follow `AtomicCorpus`, and a rebuild ends once the stored activations stay put |
| `corpus_faults` | 2 connections, every fault allowed | each observation counted once; rebuilds track the log; no committed log entry is lost |
| `value_cap` | 2 connections, 3 values, cap 2, log of 3, 1 failure swallowed | the slot is what memory would keep; the cap holds; remembered counts stay exact even when a caller swallows a failure |
| `in_place` | 6 IRIs of literals, tokens, opaque and stable ids over 2 hosts, 1 prefix, 2 types, log of 4 | every call settles; a position with little evidence renders mechanically; an activated prefix is not proposed again |
| `param_types` | 3 samples of up to 5 values, cap 4, 21 observations | a year or a status code is in range whatever was seen; an enum outlives more of its members |
| `param_reread` | the same samples | **violated**: a compact date is in the range SQLite reads back, not in memory's |
| `json_saves` | 3 corpora in 2 processes, 2 open at once, 2 saves per process life | the file is whole, saves stay apart, temp files are accounted for, a corpus alone loses nothing |
| `stream` | 3 lines of up to 2 pieces, a buffer of 2 pieces, SQLite and JSON, lines and array | printed lines are committed, no waiting with the lock held, order, saving, and that whole lines get printed |
| `lock_turns` | 2 processes; LOCK_WAIT 8, LOCK_TURN 3, TURN_PAUSE 4, polls, work, COMMITs and lateness of 1 | turns and waits end in time; the lock is left free after a whole turn; a writer beside one that observes in turns gives up only after a turn given back early, or a death |
| `views` | 7 inputs that collide in every table, 20 more only read, log of 3, value and example caps of 2, one recognizer | the tables read back as what memory holds; an export loads; canonical forms reparse; traces agree with normalize; shapes across hosts match the log |
| `classifier` | 2 threads, 2 corpora, 36 segments of every type, 3 lists of activations, cache of 1 | answers are current; the cache is bounded |
| `command_line` | an older and a newer build, 22 command lines, 2 runs, 1 fault | an opened corpus is usable; the first record stays; the exit status tells; an activation is told once |

`param_reread` ends in a violation; it is a finding in `PROJECT.json` with the
sentence of the code's own documentation it contradicts.

### Disagreements

Where the code and what is written about it part, besides that run.  The first
three are stated in the modules; to see one, add the property to a copy of a
configuration with the constants given.

* *An activation nested in a batch can commit without its reinfer.*  `rebuild` plans
  the stored activations with the new one last (`corpus.rs:184`) and compares that
  with storage's list in order of prefix (`:237`, `storage_sqlite.rs:860`), so a
  prefix that sorts before a stored one is stale at first.  In a batch the rollback
  that follows is an inner one and undoes nothing, and the second round finds the
  recognizer stored and returns without installing (`corpus.rs:231-233`).
  `corpus.rs:269-270` says "On SQLite the activation and its reinfer commit together
  or not at all."  `ActivationWithReinfer` fails on `MCCorpus` with one connection, one
  IRI, one type, `TokenPrefixes = {1, 2}`, `MaxLog = 1`, `NestedActivation = TRUE`,
  `ReadFaults = FALSE`.
* *After a failed reread the next batch is out of date.*  `batch_begin` remembers
  `data_version` (`storage_sqlite.rs:916`) before the activations are reread; when
  that read fails, the next batch sees no change.  `corpus.rs:485-486` says "A batch
  classifies with every recognizer activated before it began, including those
  another process activated."  `BatchKnowsActivated` fails with two connections,
  `NestedActivation = FALSE`, `ReadFaults = TRUE`.
* *One new value can take an established enum away.*  Its members must cover 0.9 of
  all observations, the new one included (`cluster.rs:386`): 18 of 20 become 18 of
  21.  `cluster.rs:24-25` says "a single brand-new value can't knock an established
  enum down", and so does `CHANGELOG.md:121`.  `EnumSurvivesNewValue` fails with the
  constants of `MCParamTypes.cfg`; `EnumHolds` speaks of the established members
  only.
* A COMMIT that fails after an activation nested in its batch returns without
  rebuilding the classifier (`corpus.rs:502`), which then holds a recognizer
  storage does not, until the stored activations are next reread.
* `end_turn` counts the pause from before the COMMIT (`storage_sqlite.rs:925`), so
  the lock is left free for TURN_PAUSE less that COMMIT; `LeavesLockFree` states
  what does hold.
* On a memory or JSON corpus, activating a prefix stored under another type would
  store it and answer that it was already held (`corpus.rs:231-239`).  A proposal's
  type is fixed by its prefix, so no caller of the public API can do it.
* `https://h.com:443:443` has the canonical form `https://h.com:443`, which parses to
  another host: dropping the default port uncovers a second one.  `tests/properties.rs:6`
  says "canonical is idempotent for parseable inputs".  A canonical form
  that ends in a blank does not parse back either; the property test of canonical
  forms leaves that one out (`spec/iriq/property_spec.rb:154-171`).
  `CanonicalReparses` excepts both.
* For a URN whose value is kept verbatim, the trace's rows still show typed
  placeholders where normalize keeps the text.  `TraceAgrees` excepts it.
* A path shows an address as `{ip}` where position locators and URN shapes show
  `{ipv4}`.
* `--reset` exits 0, saying there is no corpus to reset, when the file could not be
  deleted.  `ExitTells` excepts it.
* The version is compared once, before the other statements of the open
  (`storage_sqlite.rs:97`).  An older build that got past it while the file was fresh
  goes on to write a corpus a newer build has recorded its version in meanwhile;
  `OpenedUsable` speaks of what was recorded when the open began.
* A process that loses the race to initialise keeps its own cap for that session
  (`storage_sqlite.rs:140-144`), and a file whose maker died between the two inserts
  of `meta` never gets a recorded cap: each process uses its own.

### The bounds, and why they are enough

Two connections are what a race needs: one that reads, one that commits in
between. A log of 2 lets a rebuild catch up with one entry and still find
another at install time; where liveness is not checked the log has 3. Two
prefixes are needed for the stored list's order to differ from the planned one
(the stale round). Replacing an activation's type takes two types: `in_place`
has them, and on SQLite the proofs cover any set of types.

A log of 4 with inference at 3 observations reaches every verdict but
`popular_outlier`'s, which needs a longer log, and a proposal from two
positions; ties between dominant types occur, though none of them decides a
proposal at that length. 21 observations are one past the 20 an enum needs, so
that every verdict at 20 has a successor; the three samples mix an enum with
dates and numbers, years with dates that parse as numbers, and years with an
integer too long for a finite number, each with more values than the cap of 4
holds.

The seven observed inputs of `views` share a registrable domain across schemes and
subdomains, a shape across hosts, a parameter's name across types, and a value
that a recognizer retypes, so that every upsert meets both a new row and an old
one, three observations fill both caps and are refused by them, and a replay gives
other rows than the live ones had.  The
inputs only read are the parser's edges: default, doubled, oversized and missing
ports, blanks, dot segments, repeated and empty parameters, bare hosts, URNs.
The log is empty when they are read, since nothing stored matters to them.

A cache of one answer is full at once; two threads can both find room; two
corpora, with or without activations, share a classifier or do not.  Fixture
segments reach every recognizer and rung of the ladder, looked-up and refused.
Two builds, two runs and one fault are what `command_line`'s races need: a run
that opens, commits or resets between two statements of another, a killed maker
and the process that finds what it left.  `OpenedUsable` needs three facts at once
(a death, a newer record, an older open) which two runs give.

Cap 2 with three values has a slot with room, one exactly full and one refusing.
Three lines over a buffer of two pieces give chunks of two lines, a line split
between reads, and a chunk after another. Two corpora of one process share a
write counter; the third is in another process; two saves per process life
separate the first write from a later one, and a crash restarts the counter, so
a reused pid meets its own leftover temp file. `LockTurns`'s times keep the
order of the code's (poll < pause < turn < wait) at the smallest numbers that
leave a poll, a COMMIT and an overrun their unit each. The proofs remove the
bounds on connections, corpora, processes, IRIs, recognizers, values, lines,
buffer capacity, log length and times for everything listed below.

`ParamTypes` and `SqliteViews` are checked without deadlock checking because they stop
at their bounds on observations, `CommandLine` because it stops when the runs it may
make have ended, and `Stream` because it may really stop: once the process has ended and
the input, the output's reader and the other process are done, nothing is left
to happen.  Every other run checks for deadlock.

### Fairness

* `Corpus`: weak fairness of `Proceed(p)`, the steps a connection takes by itself
  once called.  The code never waits for anything but the write lock, and that
  wait is bounded by `LOCK_WAIT` (a timeout is part of `Proceed`).  Callers need
  not call, observe or crash.  `RebuildReturns` is conditional on the stored
  activations eventually staying put: the rebuild loop has no limit of its own,
  and another process that keeps activating keeps it going.
* `Stream`: weak fairness of `Progress`, the process's own steps.  Nobody has to
  write, close the input, read the output or release the lock; a held lock ends
  in `LockTimeout`.  Failures and kills are outside fairness.

* `SqliteViews`, `Classifier` and `CommandLine` state no fairness: what they promise is
  safety, and nothing in them waits but for a lock, which `LockTurns` bounds.
* `LockTurns` states no fairness: its deadlines are safety properties of clocks
  that stop time from passing a process that is as late as it can be.  How late
  that is, is what the code leaves to the system: `Late`, `WorkMax`, `CommitMax`.

`WholeTurnsServe` needs two things of those times, named in `PauseOutlastsPoll`: a
COMMIT and a late poll fit in the pause, and a turn fits in the wait.  Both are the
code's own margins (20ms to 1ms; 10s to 1s).  Callers may come back at once: a batch
shorter than a turn leaves no pause (`next_turn` stays unset), and the chunks of a
busy stream (`main.rs:1112`) run back to back.  Beside those nothing keeps a writer
from waiting until LOCK_WAIT; the property says that without one, and without a
death, it never does.  `short` is a history variable that records whether a waiter
has seen either; no guard reads it.

## What is proved

All proofs are checked by TLAPS for every value of the constants under the named
assumptions of each module (bounds are naturals, `None` is not a value,
`Values` is finite, prefixes are integers).

**`Corpus`** (`Corpus_proofs`).
Three invariants, each containing the one before:

* `Shape`: types, how deep a batch can be at each place, what a plan can hold,
  and that a connection with an open batch is the lock's holder.  Gives `TypeOK`.
* `Kept`: each open transaction's log extends the committed one and, unless it is
  about to be rolled back, its views count each log entry once; a rebuild is the
  log's replay through its mark.  The extension is what makes `COMMIT` harmless
  to others: only the lock's holder has a transaction, and it began from `db`.
  Gives `EveryObservationCounted`, `RebuildTracksLog`, `LogKept`, with every
  fault allowed.
* `Agreed`: the open transactions' views also match their log under the stored
  recognizers, a connection that no one has outrun classifies with what is
  stored, a batch changes no activation and a rebuild of its own at most one.
  Gives `ViewsMatchLog`, `ClassifierCurrent`, `ActivationReported` and the
  refinement `SerializesToAtomic`, assuming `~NestedActivation /\ ~ReadFaults`:
  the first two disagreements above show that neither assumption can be dropped.

**`ValueCap`** (`ValueCap_proofs`).

* `Counting` says of every slot a connection may write that the remembered count,
  when there is one, is exact, and of every connection not in `moved` that its
  count of the committed slot is.  The second half is what `COMMIT` and the next
  `BEGIN` need.  Gives `TypeOK`, `CapKept`, `CacheExact`, whatever callers swallow.
* `Following` adds, as long as no failure was swallowed, that the committed slot
  and every slot in an open transaction are memory's for the log they stand
  beside, that such a log extends the committed one, and that what a rebuild has
  replayed is memory's for that much of the log.  Only with `Counting` is it kept:
  whether a value is let in is decided by the remembered count.  Memory's slot is
  stated without a fold (`MemorySlot`: a value is kept when it is one of the first
  `MaxValues` to appear, and then every appearance counts).  `MemorySlotIsReplayed`:
  for every log that is what folding `PositionStats::observe` over it gives, since
  after each entry the counts agree with the statement for the log so far
  (`AgreesSoFar`).  Gives `SlotMatchesMemory`.

**`ParamTypes`** (`Types_proofs`).  `Ranging`: each number seen lies in
the range kept, within the cap or past it; no type is counted more often than all
are, and once anything is observed some type is.  The ladder's other rungs must
not answer a year, a status or an enum by themselves (`OwnRung`): most of them answer
a name of their own or the dominant type, and that is one the classifier gave, since
the first by name of the types counted most is counted.  Gives `RangeVouched`.
`EnumHolds` needs what an enum's members cover, a sum: `SumGrows` folds the counts of
before and after side by side, and they differ by one from the member's turn on.

**`InPlaceCorpus` and `Evidence`** (`Evidence_proofs`).  `Held` adds to `Settled` what a
rebuild has done at each place: at `install` the views are the log under the
plan, and a recognizer found stored was stored by this call's earlier round, so
the plan is the stored list.  Gives `TypeOK`,
`Settled`, and `OnePerPrefix`, that no prefix is stored twice.

What the evidence of settled views can be is then a matter of counting.
`FewObservationsMechanical`: with fewer observations than `min_total` every verdict that
would change a rendering lacks that threshold.  `ActivatedNotProposed`: in settled
views everything with a recognized prefix is of that recognizer's type
(`SettledTypes`).  A position a proposal may come from has an opaque type among its
most counted (`SomeDominant`), so at each of them no more is of the recognizer's type
than of that one; added up over the positions, the prefix covers at most half of what
was observed there (`HalfAtMost`, cardinalities compared through `Fits`), and a
proposal needs 70%.

**`SqliteViews` implements `MemoryViews`** (`Storage_proofs`).  `Mirrors` relates the
thirteen tables to memory's maps and lists: the rows under a key are the entry
with that key, and the numbers rows carry are positions in memory's lists.
Every loop of the code is a fold, once into tables and once into memory, and the
two are related step by step:

* a segment's position (`PositionStep`), a parameter (`ParamStep`), a cluster's
  segments and examples (`SegmentsStep`, `ExampleStep`), each within its cap;
* from these a cluster (`ClusterStep`), one observation (`ApplyStep`), and a replayed
  log under any recognizers (`ReplayedMirrors`), which is what an activation leaves.

`TablesMirrored`, that the tables mirror what is read back from them and that the log
holds readable identifiers, is inductive, and tables that mirror read back as what
they mirror, in the order it was first seen (`ReadsBack`).  Gives the refinement
`ReadsAsMemory`.  A dump of what was read back loads as it (`ExportLoads`): no two of
its entries share a key (`PositionsApart`, `ClustersApart`), so the load inserts each
of them.

`ClustersCounted`: a cluster's count and hosts are those of the log's entries with
its key, and no entry goes without a cluster.  Summed over the hosts of a shape
(`CountsSum`) gives `CrossHostMatchesLog`.

**`FoldSteps`** is what these inductions rest on.  An induction theorem of the library
takes a predicate as a parameter, which the provers cannot be given; here the steps
and the relation are constant operators, and each proof gives its own by INSTANCE.
Two facts about numbers and finite sets (`WellOrdered`, `Counted`) are premises of
its lemmas, and proved from the library's theorems at each instance.

**Identifiers** (`Storage_proofs`).  Normalisation and the trace render segments and
parameters with code of their own; each pair is shown equal for any entry, hints
and classifier (`RowsAgree`), hence `TraceAgrees` for every identifier, not only the
runs' inputs.  `CanonicalReparses`, its two exceptions apart, holds of every text, too.  A text split at a
mark has as its pieces what lies between the mark's occurrences, in their order
(`CutsRanked`, `SplitMore`), so a path joined from its segments is split into them
again (`PathAgain`).  Each part the parser reads contains none of the marks it ends
at (`UrlFit`), so scheme, host, port, path, query and fragment, written one after
the other, are each cut at their own first mark (`Cut`, `AuthorityAgain`, `UrlAgain`).

**`Classifier`** (`Types_proofs`).  `Current`: the registry gives every corpus a
classifier of its own activations, every cached answer is the right one for the
classifier whose cache it is in, and a thread between the two holds of the mutex
computes with the recognizers of the classifier it will insert into.  That last
part is what a late insert needs.  Gives `AnswersCurrent`.  `Roomy`: an entry more
in a cache is one computation less, so cached and outstanding answers together
stay within the limit and one for each further thread.  Gives `CacheBounded`.

**`JsonFile`** (`Storage_proofs`).  `Separate` says that the temp names of saves
in progress were numbered by their own process below its counter, hence differ,
that a written temp file holds its save's dump, and that a corpus alone on its
file holds what the file holds.  Gives `FileWhole`, `SavesOwnDump`,
`TempsAccountedFor`, `NothingLostAlone`.

**`Stream`** (`Stream_proofs`).

* `Locking`: a chunk reads on only with a line end buffered, and the lock is held
  just within a chunk.  Gives `NeverWaitsHoldingLock`.
* `Committed`: within a chunk the corpus this process sees extends the committed
  one and holds what is rendered; outside one the committed corpus does.  Gives
  `PrintedWasCommitted`.
* `Contiguous` and `Placed`: what is in the line being read, the buffer and the pipe
  is every piece not yet observed, in order, and the line being read is the first
  of them, complete exactly where the code takes it to be.
* `Kept`: the corpus holds each line before that one, once, and no other of this
  process's.  With the former gives `SavesWhatItRead`.
* `Ordered`: what is printed and then what is rendered names rising lines, those
  observed.  Gives `InOrderOnce`.

**`LockTurns`** (`Stream_proofs`).  `Clocks` ties the age of the lock and of
each wait to how long the process has been where it is: an observation in
progress began before the turn was over, a nap began before the deadline.
`Pauses` adds that what is left of a pause and what the lock has been left free
make up the pause less the COMMIT.  `Turns` adds, for a waiter beside one process
that observes in turns and has not given a turn back early, that it has waited no
longer than the holder has held, and that with the lock free the other comes back
only after the waiter's next poll.  Gives `ClocksOK`, `TurnBounded`, `WaitBounded`,
`LeavesLockFree` for any number of processes, and `WholeTurnsServe` for two.

**`Opening`, as `CommandLine` runs it** (`CommandLine_proofs`).  `OpeningOrder`: every
file is whole, and an open in progress has, at each of its statements, what the
earlier ones wrote, whoever wrote it.  It is kept by others' steps because of
`Growing`, which every step of every process satisfies: none takes back WAL mode, a
table, the version or the cap of any file, one unlinked by `--reset` included.  Gives
`OpenedUsable` and `FirstRecordStays` for any processes, builds and caps.

**`CommandLine`** (`CommandLine_proofs`).  `Told` has three parts.  `RunTold`: at each
stage a run has done what the earlier ones do, and what went wrong is recorded in
`failed`.  `Backed`: what a run has done is in its transaction, in the file it opened or
in the JSON corpus it saved, wherever it is by then.  `FreshApart`: two runs that
opened the same file report different activations, because a run reports only
what its own transaction added to what was committed.  With `OpeningOrder` gives
`ExitTells` and `ActivationsTold`.

### What the proofs assume

Besides types and bounds:

* `Classifier`: `SegmentsAssumption`, that the built-in recognizers give a segment the
  type its fixture documents and none of the patterns claims a segment with
  an activatable prefix; `ActivationsAssumption`, that every activation has a prefix
  and a type.  TLC evaluates both on the fixtures' segments.
* `Evidence`: `PathsAssumption`, that every segment of a path has a built-in type;
  `TypesAssumption`, that only dates and currencies have a canonical form and that no
  recognizer takes the name of a built-in type; `ThresholdsAssumption`, that the
  thresholds are positive.
* `Identifiers`: `TokensAssumption`, that scheme words and decimals are no marks, and
  `WordsAssumption`: lower case has no other lower case and keeps a scheme a scheme,
  digits and marks have none, and the decimal of a port is read as that port.
* `SqliteViews`: `InputsAssumption`, that what is observed or read is a text.
* `ParamTypes`: `ConstantsOK`, that a value's type is one the classifier gives, and that
  neither these nor a name's hint is `year`, `http_status` or `enum`, which only a
  parameter can be.
* `Corpus`'s strongest properties: `~NestedActivation /\ ~ReadFaults`.
* `WholeTurnsServe`: `PauseOutlastsPoll`, which the property itself states.

### Only model-checked

Liveness: `RebuildReturns` of `Corpus` and `LinePrinted` of `Stream`.  Both rest on weak
fairness, hence on when an action is ENABLED, which the provers do not reason
about.  Every other property of the passing runs is a theorem.

`Stream`'s `TypeOK` is stated for the reader: TLC finds it true with the constants of
`MCStream.cfg`, though no run lists it.  It bounds the corpus by the input's length
and `MaxOther`, which rests on a recursive `SelectSeq`; the proofs above need only
the types their invariants hold.

## Not modelled

* Swallowed failures of nested calls in `Corpus` (they are in `ValueCap`).
* The text algorithms of extraction and inflection, the recognizers' regular
  expressions, and the list of public suffixes: pure, tested by shared fixtures.
* The layout of reports, tables, JSON output and completions.
* The sum and average of numbers, confidences, entropies: floating point.
* Which member of a tie a Rust hash map visits first: `Evidence` allows either.
* How a corpus's evidence on a parameter is rendered in a query: the type it is
  rendered by is `ParamTypes`, the mechanical rendering `Identifiers`.
* A stream without a corpus, which is `Stream` without its chunks' transaction.
* Two containers with equal pids sharing a volume (temp names would meet).
* A killed JSON stream saves nothing; the README says so of the JSON backend.
* SQLite itself, and what it does when `--reset` deletes a WAL in use.
* The Ruby implementation.

## Plan

Done: every component above but those under "Not modelled", and theorems for every
safety property and refinement the passing runs check.  What is open is under
"Only model-checked" and, of the hazards in `PROJECT.json`, those with a note
instead of a property.
