------------------------------ MODULE JsonFile ------------------------------
(***************************************************************************)
(* A JSON corpus file: read when a corpus opens, written whole by a save   *)
(* that fills a temp file and renames it over the corpus.  Several threads *)
(* of several processes open, observe and save at once; saves fail and     *)
(* processes die between steps; `--reset` deletes the file and the temp    *)
(* files it finds.  A corpus is abstracted to the set of what it observed. *)
(***************************************************************************)
EXTENDS Integers, FiniteSets, Functions

CONSTANTS
    Handles,    \* corpora open on the file, each in a thread
    Pids,       \* processes
    Pid,        \* the process of each handle
    Iris,       \* what a corpus observes
    MaxOpen,    \* bound: corpora open at once
    MaxWrites,  \* bound: saves a process starts
    NoName

ASSUME PidAssumption == Pid \in [Handles -> Pids]
ASSUME MaxWritesAssumption == MaxWrites \in Nat

VARIABLES
    file,     \* the corpus file
    temps,    \* the temp files, by name
    writes,   \* each process's WRITES counter
    mem,      \* what each open corpus holds
    at,       \* where each handle is
    saving,   \* the temp file and the dump of each handle's save
    reset,    \* whether a reset has begun, and what it has yet to delete
    crashed,  \* processes that died with a corpus open
    alone     \* open corpora whose file no one else wrote since they opened it

fileVars == <<file, temps, writes, mem, at, saving, reset, crashed, alone>>

-----------------------------------------------------------------------------
(* Opening and observing. *)

\* A file: missing, being written, or a whole dump.
Content == [state : {"none", "partial", "whole"}, iris : SUBSET Iris]

NoFile == [state |-> "none", iris |-> {}]
Partial == [state |-> "partial", iris |-> {}]
Whole(iris) == [state |-> "whole", iris |-> iris]

TempName == [pid : Pids, n : Nat]

Name(pid, n) == [pid |-> pid, n |-> n]

NoSave == [name |-> NoName, dump |-> {}]

OpenAnew(h) == {}
OpenFile(h) == file.iris

\* A file that is not whole is refused.
Open(h) ==
    /\ at[h] = "closed"
    /\ Cardinality({g \in Handles : at[g] # "closed"}) < MaxOpen
    /\ file.state # "partial"
    /\ mem' = [mem EXCEPT ![h] = OpenFile(h)]
    /\ at' = [at EXCEPT ![h] = "open"]
    /\ alone' = alone \union {h}
    /\ UNCHANGED <<file, temps, writes, saving, reset, crashed>>

ObserveIri(h, iri) ==
    /\ at[h] = "open"
    /\ mem' = [mem EXCEPT ![h] = @ \union {iri}]
    /\ UNCHANGED <<file, temps, writes, at, saving, reset, crashed, alone>>

Close(h) ==
    /\ at[h] = "open"
    /\ at' = [at EXCEPT ![h] = "closed"]
    /\ mem' = [mem EXCEPT ![h] = {}]
    /\ alone' = alone \ {h}
    /\ UNCHANGED <<file, temps, writes, saving, reset, crashed>>

-----------------------------------------------------------------------------
(* Saving: a temp file of this write's own, created, written, renamed. *)

SharedName(h) == Name(Pid[h], 0)
UniqueName(h) == Name(Pid[h], writes[Pid[h]])

Without(name) == Restrict(temps, DOMAIN temps \ {name})

PutTemp(name, content) ==
    [n \in DOMAIN temps \union {name} |-> IF n = name THEN content ELSE temps[n]]

CreateTemp(h) ==
    /\ at[h] = "open"
    /\ writes[Pid[h]] < MaxWrites
    /\ writes' = [writes EXCEPT ![Pid[h]] = @ + 1]
    /\ saving' = [saving EXCEPT ![h] = [name |-> UniqueName(h), dump |-> mem[h]]]
    /\ temps' = PutTemp(UniqueName(h), Partial)
    /\ at' = [at EXCEPT ![h] = "writing"]
    /\ UNCHANGED <<file, mem, reset, crashed, alone>>

\* A temp file a reset deleted meanwhile is written all the same, nameless.
WriteTemp(h) ==
    /\ at[h] = "writing"
    /\ temps' = IF saving[h].name \in DOMAIN temps
                THEN PutTemp(saving[h].name, Whole(saving[h].dump))
                ELSE temps
    /\ at' = [at EXCEPT ![h] = "renaming"]
    /\ UNCHANGED <<file, writes, mem, saving, reset, crashed, alone>>

\* Renaming fails when the temp file is gone.
Rename(h) ==
    /\ at[h] = "renaming"
    /\ IF saving[h].name \in DOMAIN temps
       THEN /\ file' = temps[saving[h].name]
            /\ temps' = Without(saving[h].name)
            /\ alone' = {h}
       ELSE UNCHANGED <<file, temps, alone>>
    /\ at' = [at EXCEPT ![h] = "open"]
    /\ saving' = [saving EXCEPT ![h] = NoSave]
    /\ UNCHANGED <<writes, mem, reset, crashed>>

SaveFailsLeavingTemp(h) ==
    /\ at[h] \in {"writing", "renaming"}
    /\ at' = [at EXCEPT ![h] = "open"]
    /\ saving' = [saving EXCEPT ![h] = NoSave]
    /\ UNCHANGED <<file, temps, writes, mem, reset, crashed, alone>>

\* A write or the rename fails: the temp file is deleted, the error returned.
SaveFails(h) ==
    /\ at[h] \in {"writing", "renaming"}
    /\ temps' = Without(saving[h].name)
    /\ at' = [at EXCEPT ![h] = "open"]
    /\ saving' = [saving EXCEPT ![h] = NoSave]
    /\ UNCHANGED <<file, writes, mem, reset, crashed, alone>>

-----------------------------------------------------------------------------
(* A process dies, and its pid may come back; a reset. *)

Crash(pid) ==
    LET dead == {h \in Handles : Pid[h] = pid}
    IN  /\ \E h \in dead : at[h] # "closed"
        /\ at' = [h \in Handles |-> IF h \in dead THEN "closed" ELSE at[h]]
        /\ mem' = [h \in Handles |-> IF h \in dead THEN {} ELSE mem[h]]
        /\ saving' = [h \in Handles |-> IF h \in dead THEN NoSave ELSE saving[h]]
        /\ writes' = [writes EXCEPT ![pid] = 0]
        /\ crashed' = crashed \union {pid}
        /\ alone' = alone \ dead
        /\ UNCHANGED <<file, temps, reset>>

\* The temp files are listed first, then deleted one by one after the corpus.
ResetBegins ==
    /\ reset.names = {}
    /\ reset' = [begun |-> TRUE, names |-> DOMAIN temps]
    /\ file' = NoFile
    /\ alone' = {}
    /\ UNCHANGED <<temps, writes, mem, at, saving, crashed>>

ResetDeletes ==
    /\ \E name \in reset.names :
        /\ reset' = [reset EXCEPT !.names = @ \ {name}]
        /\ temps' = Without(name)
    /\ UNCHANGED <<file, writes, mem, at, saving, crashed, alone>>

FileInit ==
    /\ file = NoFile
    /\ temps = [n \in {} |-> Partial]
    /\ writes = [pid \in Pids |-> 0]
    /\ mem = [h \in Handles |-> {}]
    /\ at = [h \in Handles |-> "closed"]
    /\ saving = [h \in Handles |-> NoSave]
    /\ reset = [begun |-> FALSE, names |-> {}]
    /\ crashed = {}
    /\ alone = {}

FileNext ==
    \/ \E h \in Handles :
        \/ Open(h) \/ Close(h) \/ \E iri \in Iris : ObserveIri(h, iri)
        \/ CreateTemp(h) \/ WriteTemp(h) \/ Rename(h) \/ SaveFails(h)
    \/ \E pid \in Pids : Crash(pid)
    \/ ResetBegins \/ ResetDeletes

FileSpec == FileInit /\ [][FileNext]_fileVars

-----------------------------------------------------------------------------
(* Properties. *)

Places == {"closed", "open", "writing", "renaming"}

\* Every variable has its type (storage_json.rs `JsonStorage`).
TypeOK ==
    /\ file \in Content
    /\ DOMAIN temps \subseteq TempName
    /\ temps \in [DOMAIN temps -> Content]
    /\ writes \in [Pids -> 0..MaxWrites]
    /\ mem \in [Handles -> SUBSET Iris]
    /\ at \in [Handles -> Places]
    /\ saving \in [Handles -> [name : TempName \union {NoName}, dump : SUBSET Iris]]
    /\ reset \in [begun : BOOLEAN, names : SUBSET TempName]
    /\ crashed \subseteq Pids
    /\ alone \subseteq Handles

\* The corpus file is never seen half written, however many saves run and
\* wherever they fail or die (storage_json.rs `dump_memory_to_json`).
FileWhole == file.state # "partial"

\* When a save renames its temp file, that file holds its own dump; only a reset
\* can have deleted it, so without one concurrent saves all succeed.
SavesOwnDump ==
    \A h \in Handles : at[h] = "renaming" =>
        /\ saving[h].name \in DOMAIN temps => temps[saving[h].name] = Whole(saving[h].dump)
        /\ saving[h].name \in DOMAIN temps \/ reset.begun

\* A temp file belongs to a save in progress, unless its process died (main.rs
\* `json_temp_files`).
TempsAccountedFor ==
    \A name \in DOMAIN temps :
        \/ \E h \in Handles : at[h] \in {"writing", "renaming"} /\ saving[h].name = name
        \/ name.pid \in crashed

\* The last save wins, but a corpus whose file no one else wrote since it was
\* opened saves everything the file held (storage_json.rs `JsonStorage::open`).
Renamed(h) == at[h] = "renaming" /\ at'[h] = "open" /\ file' # file

NothingLostAlone ==
    [][\A h \in Handles : Renamed(h) /\ h \in alone => file.iris \subseteq file'.iris]_fileVars

=============================================================================
