----------------------------- MODULE CommandLine -----------------------------
(***************************************************************************)
(* Runs of `iriq`, from the arguments to the exit status: several at once, *)
(* of different builds, on one SQLite corpus and one JSON corpus, some     *)
(* deleting it.  Statements fail, output fails, processes are killed.      *)
(*                                                                         *)
(* Abstracted: what observing, rebuilding and rendering compute (Corpus,   *)
(* SqliteViews), the chunks of a streamed input (Stream), the turns of the *)
(* lock (LockTurns) and the temp files of a JSON save (JsonFile).  What is *)
(* observed is the set of its observers and inputs.                        *)
(***************************************************************************)
EXTENDS Opening, SequencesExt

CONSTANTS
    Invocations,  \* what may be run: [argv, piped, text, env]
    InputFiles,   \* the identifiers in each readable file
    BadFiles,     \* files that are no text
    PathLike,     \* arguments that start like a path and name no identifier
    Parseable,    \* arguments that are identifiers
    Flags,        \* the field each letter and each flag's name sets
    ValueOf,      \* by option that takes a value: what each argument stands for
    DbPath,       \* the path of the SQLite corpus, the default one
    Candidates,   \* prefixes the observations propose
    MaxFaults,    \* bound: failures of the disk, the input and the output
    MaxRuns       \* bound: runs

IsSeq(s) == s \in Seq(Range(s))

ASSUME InputsAssumption ==
    /\ \A i \in Invocations : i.text = None \/ IsSeq(i.text)
    /\ \A f \in DOMAIN InputFiles : IsSeq(InputFiles[f])
ASSUME CandidatesAssumption == IsFiniteSet(Candidates)
ASSUME NoneAssumption == None \notin {"db", "json", "no_corpus", "parse", "read"}

VARIABLES
    json,    \* the JSON corpus, or None
    run,     \* each process's run
    faults,  \* failures so far
    runs     \* runs so far

vars == <<path, files, conn, json, run, faults, runs>>

-----------------------------------------------------------------------------
(* Options.  An argument is a word, a bundle <<"-", "n", "C">> of letters,   *)
(* an option <<"--", name>>, one with its value <<"--", name, word>>, or     *)
(* <<"--">>, which ends the options.                                         *)

Opts == [set |-> {}, value |-> [o \in {} |-> 0]]
Parsing == [opts |-> Opts, args |-> <<>>, error |-> FALSE, wants |-> None, ended |-> FALSE]

SetFlags(acc, flags) ==
    IF flags \subseteq DOMAIN Flags
    THEN [acc EXCEPT !.opts.set = @ \union {Flags[f] : f \in flags}]
    ELSE [acc EXCEPT !.error = TRUE]

SetValue(acc, option, given) ==
    IF option \in DOMAIN ValueOf /\ given \in DOMAIN ValueOf[option]
    THEN [acc EXCEPT !.wants = None, !.opts.value = (option :> ValueOf[option][given]) @@ @]
    ELSE [acc EXCEPT !.error = TRUE]

\* The argument after an option that takes a value is its value, whatever it
\* looks like.
ParseArgument(acc, a) ==
    CASE acc.error -> acc
      [] ~acc.error /\ acc.ended -> [acc EXCEPT !.args = Append(@, a[1])]
      [] ~acc.error /\ ~acc.ended /\ acc.wants # None -> SetValue(acc, acc.wants, a)
      [] OTHER ->
            CASE a = <<"--">> -> [acc EXCEPT !.ended = TRUE]
              [] a[1] = "--" /\ Len(a) = 3 -> SetValue(acc, a[2], <<a[3]>>)
              [] a[1] = "--" /\ Len(a) = 2 ->
                    IF a[2] \in DOMAIN ValueOf THEN [acc EXCEPT !.wants = a[2]]
                    ELSE SetFlags(acc, {a[2]})
              [] a[1] = "-" /\ Len(a) > 1 -> SetFlags(acc, Range(Tail(a)))
              [] OTHER -> [acc EXCEPT !.args = Append(@, a[1])]

ParseOptions(argv) ==
    LET acc == FoldLeft(ParseArgument, Parsing, argv)
    IN  [acc EXCEPT !.error = @ \/ acc.wants # None]

-----------------------------------------------------------------------------
(* What a run is about. *)

Given(r, flag) == flag \in r.opts.set
Value(r, option, default) ==
    IF option \in DOMAIN r.opts.value THEN r.opts.value[option] ELSE default

\* --corpus, unless it is empty, then the opt-outs, the environment, the default.
CorpusPath(r) ==
    LET asked == Value(r, "corpus", "")
    IN  CASE asked # "" -> asked
          [] asked = "" /\ (Given(r, "no_corpus") \/ r.env.no_corpus) -> None
          [] OTHER -> IF r.env.corpus # "" THEN r.env.corpus ELSE DbPath

\* A reset names a stored file whatever opts out of using one.
ResetPath(r) ==
    LET asked == Value(r, "corpus", "")
    IN  CASE asked # "" -> asked
          [] asked = "" /\ r.env.corpus # "" -> r.env.corpus
          [] OTHER -> DbPath

\* `cluster` comes before the positional it reads.
Explicit(r) == r.args # <<>> /\ r.args[1] = "cluster"
Positional(r) == IF Explicit(r) THEN Tail(r.args) ELSE r.args

IsFile(name) == name \in (DOMAIN InputFiles) \union BadFiles
Batch(r) ==
    LET args == Positional(r)
    IN  Explicit(r) \/ (args # <<>> /\ IsFile(args[1])) \/ (args = <<>> /\ r.piped)

MissingInput(r) ==
    LET args == Positional(r)
    IN  /\ args # <<>> /\ args[1] # "-" /\ ~IsFile(args[1])
        /\ Explicit(r) \/ args[1] \in PathLike

Reports == {"reinfer", "propose", "cross_host_shapes"}
Usage(r) == Positional(r) = <<>> /\ ~Batch(r) /\ r.opts.set \intersect Reports = {}

\* Which command runs: the first that applies.
Command(r) ==
    CASE Given(r, "reinfer") -> "reinfer"
      [] ~Given(r, "reinfer") /\ Given(r, "propose") -> "propose"
      [] r.opts.set \intersect {"reinfer", "propose"} = {} /\ Given(r, "cross_host_shapes") ->
            "report"
      [] r.opts.set \intersect Reports = {} /\ Batch(r) -> "batch"
      [] r.opts.set \intersect Reports = {} /\ ~Batch(r) /\ Given(r, "stats") -> "report"
      [] OTHER -> "summary"

\* The text a batch reads: standard input, or a file.
Source(r) ==
    LET args == Positional(r)
    IN  IF args = <<>> \/ args[1] = "-" THEN r.text
        ELSE IF args[1] \in BadFiles THEN None ELSE InputFiles[args[1]]

-----------------------------------------------------------------------------
(* Runs. *)

NoStore == [log |-> {}, acts |-> {}]
NoRun == [at |-> "none", opts |-> Opts, args |-> <<>>, piped |-> FALSE, text |-> <<>>,
          env |-> None, id |-> 0, corpus |-> None, failed |-> {}, exit |-> None,
          store |-> NoStore, saved |-> NoStore, todo |-> <<>>, asked |-> {}, fresh |-> {}]

Init ==
    /\ OpeningInit
    /\ json = None
    /\ run = [p \in Processes |-> NoRun]
    /\ faults = 0
    /\ runs = 0

Is(p, at) == run[p].at = at
Update(p, r) == run' = [run EXCEPT ![p] = r]

\* A failure is remembered here to say what the exit status must tell of.
Failed(r, what, at) == [r EXCEPT !.failed = @ \union {what}, !.at = at]
CanFail == faults < MaxFaults
FaultUnless(ok) == IF ok THEN UNCHANGED faults ELSE CanFail /\ faults' = faults + 1

Start(p) ==
    /\ run[p].at \in {"none", "exited", "dead"}
    /\ runs < MaxRuns
    /\ \E i \in Invocations :
          LET parsed == ParseOptions(i.argv)
              r == [NoRun EXCEPT !.at = "routing", !.opts = parsed.opts, !.args = parsed.args,
                                 !.piped = i.piped, !.text = i.text, !.env = i.env, !.id = runs + 1]
          IN  Update(p, IF parsed.error THEN Failed(r, "option", "leaving") ELSE r)
    /\ conn' = [conn EXCEPT ![p] = Closed]
    /\ runs' = runs + 1
    /\ UNCHANGED <<path, files, json, faults>>

Shell(r) == IF Len(r.args) > 1 THEN r.args[2] ELSE r.env.shell

\* The order of the checks that need no corpus.
Early(r) ==
    CASE r.opts.set \intersect {"help", "version"} # {} -> "text"
      [] r.opts.set \intersect {"help", "version"} = {} /\ r.args # <<>>
             /\ r.args[1] = "completion" ->
            IF Shell(r) \in {"bash", "zsh"} THEN "text" ELSE "shell"
      [] OTHER -> CASE Given(r, "reset") -> "reset"
                    [] ~Given(r, "reset") /\ MissingInput(r) -> "missing"
                    [] OTHER -> IF Usage(r) THEN "text" ELSE "none"

ShowText(p) ==
    /\ Is(p, "routing") /\ Early(run[p]) = "text"
    /\ Update(p, [run[p] EXCEPT !.at = "flushing"])
    /\ UNCHANGED <<path, files, conn, json, faults, runs>>

Refuse(p) ==
    /\ Is(p, "routing") /\ Early(run[p]) \in {"missing", "shell"}
    /\ Update(p, Failed(run[p], Early(run[p]), "leaving"))
    /\ UNCHANGED <<path, files, conn, json, faults, runs>>

\* `--reset` exits 0 also when nothing could be deleted.
Reset(p) ==
    /\ Is(p, "routing") /\ Early(run[p]) = "reset"
    /\ \E ok \in BOOLEAN :
          LET db == ResetPath(run[p]) = DbPath
          IN  /\ FaultUnless(ok)
              /\ path' = IF ok /\ db THEN None ELSE path
              /\ json' = IF ok /\ ~db THEN None ELSE json
              /\ Update(p, IF ok THEN [run[p] EXCEPT !.at = "leaving"]
                           ELSE Failed(run[p], "delete", "leaving"))
    /\ UNCHANGED <<files, conn, runs>>

\* The work a command will do, given the corpus it opened: its inputs one by
\* one, a rebuild, or the activation of every proposal it read.
Work(r, acts) ==
    CASE Command(r) = "summary" -> <<r.args[1]>>
      [] Command(r) = "batch" -> Source(r)
      [] Command(r) = "propose" /\ Value(r, "activate_above", 0) > 0 -> SetToSeq(Candidates \ acts)
      [] Command(r) = "reinfer" -> <<"rebuild">>
      [] OTHER -> <<>>

\* Commands stop before any work without a corpus to report on, at an argument
\* that is no identifier, and at input that is no text.
Stops(r) ==
    CASE r.corpus = None /\ Command(r) \in {"reinfer", "propose", "report"} -> "no_corpus"
      [] Command(r) = "summary" /\ r.args[1] \notin Parseable -> "parse"
      [] Command(r) = "batch" /\ Source(r) = None -> "read"
      [] OTHER -> None

Begin(r, acts) ==
    IF Stops(r) # None THEN Failed(r, Stops(r), "saving")
    ELSE [r EXCEPT !.at = IF Work(r, acts) = <<>> THEN "printing" ELSE "working",
                   !.todo = Work(r, acts), !.asked = Range(Work(r, acts))]

\* Without a corpus a run works on one of its own.
OpenNone(p) ==
    /\ Is(p, "routing") /\ Early(run[p]) = "none" /\ CorpusPath(run[p]) = None
    /\ Update(p, Begin(run[p], {}))
    /\ UNCHANGED <<path, files, conn, json, faults, runs>>

OpenJson(p) ==
    /\ Is(p, "routing") /\ Early(run[p]) = "none" /\ CorpusPath(run[p]) \notin {None, DbPath}
    /\ \E ok \in BOOLEAN :
          LET stored == IF json = None THEN NoStore ELSE json
              r == [run[p] EXCEPT !.corpus = "json", !.store = stored]
          IN  /\ FaultUnless(ok)
              /\ Update(p, IF ok THEN Begin(r, stored.acts) ELSE Failed(run[p], "corpus", "leaving"))
    /\ UNCHANGED <<path, files, conn, json, runs>>

OpenSqlite(p) ==
    /\ Is(p, "routing") /\ Early(run[p]) = "none" /\ CorpusPath(run[p]) = DbPath
    /\ Connect(p)
    /\ Update(p, [run[p] EXCEPT !.at = "opening", !.corpus = "db"])
    /\ UNCHANGED <<json, faults, runs>>

OpenFurther(p) ==
    /\ Is(p, "opening")
    /\ OpenStep(p)
    /\ UNCHANGED <<json, run, faults, runs>>

\* Any statement of the open may fail, on a full disk for one.
OpenFails(p) ==
    /\ Is(p, "opening") /\ conn[p].at \notin {"open", "failed"}
    /\ FaultUnless(FALSE)
    /\ Goto(p, "failed")
    /\ UNCHANGED <<path, files, json, run, runs>>

Opened(p) ==
    /\ Is(p, "opening")
    /\ \/ At(p, "open") /\ Update(p, Begin(run[p], FileOf(p).acts))
       \/ At(p, "failed") /\ Update(p, Failed(run[p], "corpus", "leaving"))
    /\ UNCHANGED <<path, files, conn, json, faults, runs>>

-----------------------------------------------------------------------------
(* Working: on SQLite a transaction after another, elsewhere in memory. *)

Activates(r) == Command(r) = "propose"

\* With sections asked for, a batch prints each turn's output before the next.
Streams(r) == Command(r) = "batch" /\ Given(r, "sections")

\* What the first `k` of the work left to do make of a store.
Done(p, store, k) ==
    LET units == {run[p].todo[i] : i \in 1..k}
    IN  CASE Activates(run[p]) -> [store EXCEPT !.acts = @ \union units]
          [] Command(run[p]) = "reinfer" -> store
          [] OTHER -> [store EXCEPT !.log = @ \union {<<run[p].id, u>> : u \in units}]

After(p, k) == SubSeq(run[p].todo, k + 1, Len(run[p].todo))

\* Mutant: a proposal is reported whoever stored it first.
AdvanceToldTwice(p, store, k) ==
    [run[p] EXCEPT !.todo = After(p, k),
                   !.at = IF After(p, k) = <<>> \/ Streams(run[p]) THEN "printing" ELSE "working",
                   !.fresh = @ \union {run[p].todo[i] : i \in 1..k}]

\* An activation that another process was first to store is not a new one.
Advance(p, store, k) ==
    [run[p] EXCEPT !.todo = After(p, k),
                   !.at = IF After(p, k) = <<>> \/ Streams(run[p]) THEN "printing" ELSE "working",
                   !.fresh = IF Activates(run[p])
                             THEN @ \union ({run[p].todo[i] : i \in 1..k} \ store.acts) ELSE @]

WorkInMemory(p) ==
    /\ Is(p, "working") /\ run[p].corpus # "db"
    /\ \E k \in IF Streams(run[p]) THEN 1..Len(run[p].todo) ELSE {Len(run[p].todo)} :
          Update(p, [Advance(p, run[p].store, k) EXCEPT !.store = Done(p, @, k)])
    /\ UNCHANGED <<path, files, conn, json, faults, runs>>

TakeLock(p) ==
    /\ Is(p, "working") /\ run[p].corpus = "db"
    /\ FileOf(p).holder = None
    /\ Written(p, [FileOf(p) EXCEPT !.holder = p])
    /\ UNCHANGED <<path, conn, json, run, faults, runs>>

\* Observations commit a turn at a time, activations one by one.
Commit(p) ==
    /\ Is(p, "working") /\ run[p].corpus = "db" /\ FileOf(p).holder = p
    /\ \E k \in 1..(IF Activates(run[p]) THEN 1 ELSE Len(run[p].todo)) :
          /\ Written(p, [Done(p, FileOf(p), k) EXCEPT !.holder = None])
          /\ Update(p, Advance(p, FileOf(p), k))
    /\ UNCHANGED <<path, conn, json, faults, runs>>

\* A transaction fails, or the wait for the lock runs out: what committed stays.
WorkFails(p) ==
    /\ Is(p, "working") /\ run[p].corpus = "db"
    /\ FaultUnless(FileOf(p).holder \notin {None, p})
    /\ Written(p, [FileOf(p) EXCEPT !.holder = IF @ = p THEN None ELSE @])
    /\ Update(p, Failed(run[p], "corpus", "saving"))
    /\ UNCHANGED <<path, conn, json, runs>>

-----------------------------------------------------------------------------
(* Printing, saving, leaving. *)

\* The reader goes away, or standard output fails; what a stream has not read
\* by then stays unread.
PrintOut(p) ==
    /\ Is(p, "printing")
    /\ \E outcome \in {"ok", "gone", "stdout"} :
          /\ FaultUnless(outcome = "ok")
          /\ Update(p, IF outcome # "ok" THEN Failed(run[p], outcome, "saving")
                       ELSE [run[p] EXCEPT !.at = IF run[p].todo = <<>> THEN "saving" ELSE "working"])
    /\ UNCHANGED <<path, files, conn, json, runs>>

\* Mutant: nothing is saved once output failed.
SavesUnlessOutputFailed(r) == r.corpus = "json" /\ r.failed = {}

\* A JSON corpus is written whatever failed before.
Saves(r) == r.corpus = "json"

Save(p) ==
    /\ Is(p, "saving")
    /\ \E ok \in IF Saves(run[p]) THEN BOOLEAN ELSE {TRUE} :
          /\ FaultUnless(ok)
          /\ json' = IF ok /\ Saves(run[p]) THEN run[p].store ELSE json
          /\ Update(p, IF ~ok THEN Failed(run[p], "save", "leaving")
                       ELSE [run[p] EXCEPT !.at = "flushing",
                                           !.saved = IF Saves(run[p]) THEN run[p].store ELSE @])
    /\ UNCHANGED <<path, files, conn, runs>>

\* `finish` flushes only what nothing failed for.
Flush(p) ==
    /\ Is(p, "flushing")
    /\ \E outcome \in {"ok", "gone", "stdout"} :
          /\ outcome # "ok" => run[p].failed = {}
          /\ FaultUnless(outcome = "ok")
          /\ Update(p, IF outcome = "ok" THEN [run[p] EXCEPT !.at = "leaving"]
                       ELSE Failed(run[p], outcome, "leaving"))
    /\ UNCHANGED <<path, files, conn, json, runs>>

\* A corpus that cannot be saved outweighs what the command answered.
Status(r) ==
    CASE "save" \in r.failed -> 1
      [] "save" \notin r.failed /\ "gone" \in r.failed -> 141
      [] "save" \notin r.failed /\ "parse" \in r.failed -> 2
      [] OTHER -> IF r.failed \subseteq {"delete"} THEN 0 ELSE 1

Leave(p) ==
    /\ Is(p, "leaving")
    /\ Update(p, [run[p] EXCEPT !.at = "exited", !.exit = Status(run[p])])
    /\ Goto(p, "left")
    /\ UNCHANGED <<path, files, json, faults, runs>>

\* Killed: its transaction is rolled back and its lock freed.
Crash(p) ==
    /\ run[p].at \notin {"none", "exited", "dead"}
    /\ FaultUnless(FALSE)
    /\ files' = [f \in DOMAIN files |->
                    [files[f] EXCEPT !.holder = IF @ = p THEN None ELSE @]]
    /\ conn' = [conn EXCEPT ![p] = Closed]
    /\ Update(p, [run[p] EXCEPT !.at = "dead"])
    /\ UNCHANGED <<path, json, runs>>

Next ==
    \E p \in Processes :
        \/ Start(p) \/ ShowText(p) \/ Refuse(p) \/ Reset(p)
        \/ OpenNone(p) \/ OpenJson(p) \/ OpenSqlite(p)
        \/ OpenFurther(p) \/ OpenFails(p) \/ Opened(p)
        \/ WorkInMemory(p) \/ TakeLock(p) \/ Commit(p) \/ WorkFails(p)
        \/ PrintOut(p) \/ Save(p) \/ Flush(p) \/ Leave(p)
        \/ Crash(p)

Spec == Init /\ [][Next]_vars

-----------------------------------------------------------------------------
(* Properties. *)

\* The corpus a run used, as the run leaves it.
Kept(p) == IF run[p].corpus = "db" THEN FileOf(p) ELSE run[p].saved

\* What a run did of what it was asked is in the corpus.
Keeps(p) ==
    LET done == run[p].asked \ Range(run[p].todo)
    IN  CASE run[p].corpus = None \/ Command(run[p]) = "reinfer" -> TRUE
          [] run[p].corpus # None /\ Activates(run[p]) -> done \subseteq Kept(p).acts
          [] OTHER -> {<<run[p].id, u>> : u \in done} \subseteq Kept(p).log

\* The exit status tells what happened: 0, that all that was asked was done and
\* is in the corpus; 141, that only the reader went away, and the corpus has all
\* that was read.  A run refused for its arguments opened no corpus.  README.md
\* "Exit", main.rs:228 "so a typo doesn't create one", :288 "Saved even when
\* stdout failed".  A reset that deletes nothing still exits 0.
ExitTells ==
    \A p \in Processes : run[p].at = "exited" =>
        /\ run[p].exit = 0 => run[p].failed \subseteq {"delete"} /\ run[p].todo = <<>>
        /\ run[p].exit = 141 => run[p].failed = {"gone"}
        /\ run[p].exit = 2 => run[p].failed = {"parse"}
        /\ run[p].exit \in {0, 141} => Keeps(p)
        /\ run[p].failed \intersect {"option", "missing", "shell"} # {} => run[p].corpus = None

\* Activating is safe to repeat and to race: a run that exits 0 leaves stored
\* every proposal it selected, also those an earlier run had stored when it
\* failed half way, and no activation is reported by two runs: corpus.rs:300
\* "returning the proposals newly activated".
ActivationsTold ==
    /\ \A p \in Processes : run[p].exit = 0 /\ Activates(run[p]) /\ run[p].asked # {} =>
          (run[p].corpus = "db" => Candidates \subseteq FileOf(p).acts)
    /\ \A p, q \in Processes :
          /\ p # q /\ conn[p].file = conn[q].file /\ conn[p].file # None
          => run[p].fresh \intersect run[q].fresh = {}
=============================================================================
