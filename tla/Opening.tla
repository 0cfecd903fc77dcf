------------------------------- MODULE Opening -------------------------------
(***************************************************************************)
(* Processes opening one SQLite corpus: the file may be missing, empty,    *)
(* half initialised by a process that died, or written by another build.   *)
(* What the open file is then used for is CommandLine.                     *)
(*                                                                         *)
(* Each statement is one step, as SQLite commits each on its own.  A       *)
(* process keeps the file it opened even after a reset deleted its name.   *)
(***************************************************************************)
EXTENDS Integers, Sequences, FiniteSets

CONSTANTS
    Processes,
    Version,     \* SCHEMA_VERSION of each process's build
    Cap,         \* and its DEFAULT_MAX_VALUES_PER_POSITION
    MaxFiles,    \* bound: files created at the path
    MaxRetries,  \* bound: retries of the WAL conversion before LOCK_WAIT is over
    None

ASSUME BuildsAssumption ==
    /\ Version \in [Processes -> Nat]
    /\ Cap \in [Processes -> Nat \ {0}]
    /\ None \notin Nat

VARIABLES
    path,   \* the file at the corpus's path, or None
    files,  \* every file there ever was
    conn    \* where each process's open is

openingVars == <<path, files, conn>>

Tables == {"meta", "views"}

\* Version and cap are the rows of `meta`; the log and the activations stand
\* for all that observing writes.
EmptyFile == [wal |-> FALSE, tables |-> {}, version |-> None, cap |-> None,
              holder |-> None, log |-> {}, acts |-> {}]

\* Also what is left of a connection: a killed process's is gone at once.
Closed == [at |-> "closed", file |-> None, began |-> None, retries |-> 0, cap |-> None]

OpeningInit ==
    /\ path = None
    /\ files = <<>>
    /\ conn = [p \in Processes |-> Closed]

FileOf(p) == files[conn[p].file]

At(p, at) == conn[p].at = at
Goto(p, at) == conn' = [conn EXCEPT ![p].at = at]
Written(p, file) == files' = [files EXCEPT ![conn[p].file] = file]

\* A statement that writes waits until no other process is in a transaction.
Unlocked(p) == FileOf(p).holder \in {None, p}

-----------------------------------------------------------------------------
\* Connecting creates a missing file, still empty.
Connect(p) ==
    /\ At(p, "closed")
    /\ path = None => Len(files) < MaxFiles
    /\ LET file == IF path = None THEN Len(files) + 1 ELSE path
       IN  /\ path' = file
           /\ files' = IF path = None THEN Append(files, EmptyFile) ELSE files
           /\ conn' = [conn EXCEPT ![p] = [at |-> "checking", file |-> file,
                                  began |-> files'[file].version, retries |-> 0, cap |-> None]]

\* Mutant: the version is never compared.
AnyVersion(p) == FALSE

\* Before anything writes: the version a file records, if it has a meta table yet.
Newer(p) == FileOf(p).version # None /\ FileOf(p).version > Version[p]

CheckVersion(p) ==
    /\ At(p, "checking")
    /\ Goto(p, IF Newer(p) THEN "failed" ELSE "converting")
    /\ UNCHANGED <<path, files>>

EnableWal(p) ==
    /\ At(p, "converting")
    /\ FileOf(p).wal \/ Unlocked(p)
    /\ Written(p, [FileOf(p) EXCEPT !.wal = TRUE])
    /\ Goto(p, "creating_meta")
    /\ UNCHANGED path

InUse(q, file) == conn[q].file = file /\ conn[q].at \notin {"failed", "left"}

\* SQLite refuses the conversion at once while another connection uses the file;
\* it is retried until the deadline.
WalBusy(p) ==
    /\ At(p, "converting")
    /\ ~FileOf(p).wal
    /\ \E q \in Processes \ {p} : InUse(q, conn[p].file)
    /\ conn' = IF conn[p].retries < MaxRetries
               THEN [conn EXCEPT ![p].retries = @ + 1]
               ELSE [conn EXCEPT ![p].at = "failed"]
    /\ UNCHANGED <<path, files>>

\* CREATE TABLE IF NOT EXISTS, table after table.
CreateTable(p, from, table, to) ==
    /\ At(p, from)
    /\ table \in FileOf(p).tables \/ Unlocked(p)
    /\ Written(p, [FileOf(p) EXCEPT !.tables = @ \union {table}])
    /\ Goto(p, to)
    /\ UNCHANGED path

ReadVersion(p) ==
    /\ At(p, "reading_version")
    /\ Goto(p, IF FileOf(p).version = None THEN "recording_version" ELSE "reading_cap")
    /\ UNCHANGED <<path, files>>

\* Mutant: INSERT OR REPLACE.
ReplaceVersion(p) ==
    /\ At(p, "recording_version")
    /\ Unlocked(p)
    /\ Written(p, [FileOf(p) EXCEPT !.version = Version[p]])
    /\ Goto(p, "recording_cap")
    /\ UNCHANGED path

\* INSERT OR IGNORE: another process may have recorded its own meanwhile.
RecordVersion(p) ==
    /\ At(p, "recording_version")
    /\ Unlocked(p)
    /\ Written(p, [FileOf(p) EXCEPT !.version = IF @ = None THEN Version[p] ELSE @])
    /\ Goto(p, "recording_cap")
    /\ UNCHANGED path

RecordCap(p) ==
    /\ At(p, "recording_cap")
    /\ Unlocked(p)
    /\ Written(p, [FileOf(p) EXCEPT !.cap = IF @ = None THEN Cap[p] ELSE @])
    /\ conn' = [conn EXCEPT ![p] = [@ EXCEPT !.at = "open", !.cap = Cap[p]]]
    /\ UNCHANGED path

\* A file whose maker died before recording a cap is read with one's own.
ReadCap(p) ==
    /\ At(p, "reading_cap")
    /\ LET cap == IF FileOf(p).cap = None THEN Cap[p] ELSE FileOf(p).cap
       IN  conn' = [conn EXCEPT ![p] = [@ EXCEPT !.at = "open", !.cap = cap]]
    /\ UNCHANGED <<path, files>>

Waits(p) ==
    \/ At(p, "creating_meta") /\ "meta" \notin FileOf(p).tables
    \/ At(p, "creating_views") /\ "views" \notin FileOf(p).tables
    \/ conn[p].at \in {"recording_version", "recording_cap"}

\* The wait for another process's lock runs out.
GiveUp(p) ==
    /\ Waits(p) /\ ~Unlocked(p)
    /\ Goto(p, "failed")
    /\ UNCHANGED <<path, files>>

OpenStep(p) ==
    \/ CheckVersion(p)
    \/ EnableWal(p)
    \/ WalBusy(p)
    \/ CreateTable(p, "creating_meta", "meta", "creating_views")
    \/ CreateTable(p, "creating_views", "views", "reading_version")
    \/ ReadVersion(p)
    \/ RecordVersion(p)
    \/ RecordCap(p)
    \/ ReadCap(p)
    \/ GiveUp(p)

-----------------------------------------------------------------------------
(* Properties. *)

\* Whoever opened the corpus, however many opened it at once or died half way,
\* has it in WAL mode with every table and a recorded version, and no build
\* opens what a newer one had recorded when it began: README.md "iriq refuses a
\* corpus file it can't safely use", storage_sqlite.rs `open`.
OpenedUsable ==
    \A p \in Processes : At(p, "open") =>
        /\ FileOf(p).wal /\ FileOf(p).tables = Tables /\ FileOf(p).version # None
        /\ conn[p].began # None => conn[p].began <= Version[p]

\* Processes that find no version at once all record their own, and the first
\* stays: storage_sqlite.rs:126 "two processes can race to initialize a fresh
\* corpus", whatever builds and caps they have.
FirstRecordStays ==
    [][\A f \in DOMAIN files :
          /\ files[f].version # None => files'[f].version = files[f].version
          /\ files[f].cap # None => files'[f].cap = files[f].cap]_openingVars
=============================================================================
