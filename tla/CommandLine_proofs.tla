------------------------- MODULE CommandLine_proofs -------------------------
(***************************************************************************)
(* Any number of processes, of any builds, may open one SQLite corpus at   *)
(* once, use it, delete it or die at any step: whoever has it open finds   *)
(* it whole, and the version and cap first recorded stay.  And what each   *)
(* run, of one corpus or the other, then says by its exit status and of    *)
(* its activations is what it did and what the corpus keeps.               *)
(***************************************************************************)
EXTENDS CommandLine, FiniteSetTheorems, SequenceTheorems, TLAPS

-----------------------------------------------------------------------------
(* The files.  What the log and the activations hold is of no matter here. *)

File(wal, tables, version, cap, holder, l, acts) ==
    [wal |-> wal, tables |-> tables, version |-> version, cap |-> cap,
     holder |-> holder, log |-> l, acts |-> acts]

Fields(f) == f = File(f.wal, f.tables, f.version, f.cap, f.holder, f.log, f.acts)

FileRecord(f) ==
    /\ Fields(f)
    /\ f.wal \in BOOLEAN
    /\ f.tables \subseteq Tables
    /\ f.version \in Nat \union {None}
    /\ f.cap \in Nat \union {None}

\* What of a file may change into what.
Grown(f, g) ==
    /\ f.wal => g.wal
    /\ f.tables \subseteq g.tables
    /\ f.version # None => g.version = f.version
    /\ f.cap # None => g.cap = f.cap
    /\ f.log \subseteq g.log
    /\ f.acts \subseteq g.acts

FilesWhole ==
    /\ files = [i \in DOMAIN files |-> files[i]]
    /\ \E n \in Nat : DOMAIN files = 1..n
    /\ \A i \in DOMAIN files : FileRecord(files[i])
    /\ path \in DOMAIN files \union {None}

\* A step that keeps every file, and makes at most one more.
Growing ==
    /\ FilesWhole'
    /\ DOMAIN files \subseteq DOMAIN files'
    /\ \A i \in DOMAIN files : Grown(files[i], files'[i])

LEMMA FilesSequence ==
    FilesWhole => files \in Seq(Range(files)) /\ DOMAIN files = 1..Len(files)
<1> SUFFICES ASSUME FilesWhole PROVE files \in Seq(Range(files)) /\ DOMAIN files = 1..Len(files)
  OBVIOUS
<1>1. PICK n \in Nat : DOMAIN files = 1..n
  BY DEF FilesWhole
<1>2. files \in [1..n -> Range(files)]
  BY <1>1 DEF FilesWhole, Range
<1>3. files \in Seq(Range(files))
  BY <1>2, SeqDef
<1>4. QED BY <1>3, LenProperties

LEMMA EmptyFileRecord == FileRecord(EmptyFile)
BY DEF FileRecord, Fields, File, EmptyFile

\* Writing one field leaves the others.
LEMMA Edited ==
    ASSUME NEW f, Fields(f), NEW v
    PROVE  /\ [f EXCEPT !.wal = v] = File(v, f.tables, f.version, f.cap, f.holder, f.log, f.acts)
           /\ [f EXCEPT !.tables = v] = File(f.wal, v, f.version, f.cap, f.holder, f.log, f.acts)
           /\ [f EXCEPT !.version = v] = File(f.wal, f.tables, v, f.cap, f.holder, f.log, f.acts)
           /\ [f EXCEPT !.cap = v] = File(f.wal, f.tables, f.version, v, f.holder, f.log, f.acts)
           /\ [f EXCEPT !.holder = v] = File(f.wal, f.tables, f.version, f.cap, v, f.log, f.acts)
           /\ [f EXCEPT !.log = v] = File(f.wal, f.tables, f.version, f.cap, f.holder, v, f.acts)
           /\ [f EXCEPT !.acts = v] = File(f.wal, f.tables, f.version, f.cap, f.holder, f.log, v)
BY DEF Fields, File

\* A statement writes the file its process has open.
LEMMA WriteGrows ==
    ASSUME FilesWhole, NEW p, NEW g, Written(p, g), path' \in {path, None},
           conn[p].file \in DOMAIN files => FileRecord(g) /\ Grown(FileOf(p), g)
    PROVE  Growing
<1>1. files' = [i \in DOMAIN files |-> IF i = conn[p].file THEN g ELSE files[i]]
  BY DEF FilesWhole, Written
<1>2. DOMAIN files' = DOMAIN files
  BY <1>1
<1>3. \A i \in DOMAIN files : FileRecord(files'[i]) /\ Grown(files[i], files'[i])
  BY <1>1 DEF FilesWhole, FileOf, Grown
<1>4. FilesWhole'
  BY <1>1, <1>2, <1>3 DEF FilesWhole
<1>5. QED BY <1>2, <1>3, <1>4 DEF Growing

LEMMA SameGrows == ASSUME FilesWhole, UNCHANGED files, path' \in {path, None} PROVE Growing
<1>1. FilesWhole'
  BY DEF FilesWhole, FileRecord, Fields
<1>2. QED BY <1>1 DEF Growing, Grown

\* Connecting makes a file at a path that has none.
LEMMA AppendGrows ==
    ASSUME FilesWhole, files' = Append(files, EmptyFile), path' = Len(files) + 1
    PROVE  Growing /\ Len(files) + 1 \in DOMAIN files' /\ files'[Len(files) + 1] = EmptyFile
<1>1. files \in Seq(Range(files) \union {EmptyFile}) /\ DOMAIN files = 1..Len(files)
  <2>1. files \in Seq(Range(files)) /\ DOMAIN files = 1..Len(files)
    BY FilesSequence
  <2>2. QED BY <2>1
<1>2. Len(files) \in Nat
  BY <1>1, LenProperties
<1>3. /\ files' \in Seq(Range(files) \union {EmptyFile})
      /\ Len(files') = Len(files) + 1
      /\ \A i \in 1..Len(files) : files'[i] = files[i]
      /\ files'[Len(files) + 1] = EmptyFile
  BY <1>1, AppendProperties
<1>4. DOMAIN files' = 1..(Len(files) + 1) /\ files' = [i \in DOMAIN files' |-> files'[i]]
  BY <1>3, LenProperties, SeqDef
<1>5. \A i \in DOMAIN files' : FileRecord(files'[i])
  BY <1>1, <1>2, <1>3, <1>4, EmptyFileRecord DEF FilesWhole
<1>6. FilesWhole'
  BY <1>2, <1>4, <1>5 DEF FilesWhole
<1>7. \A i \in DOMAIN files : Grown(files[i], files'[i])
  BY <1>1, <1>3 DEF Grown
<1>8. QED BY <1>1, <1>2, <1>3, <1>4, <1>6, <1>7 DEF Growing

-----------------------------------------------------------------------------
(* Where each open is, and what of its file it has seen done. *)

Places == {"closed", "checking", "converting", "creating_meta", "creating_views",
           "reading_version", "recording_version", "recording_cap", "reading_cap", "open",
           "failed", "left"}

Connection == [at : Places, file : Nat \union {None}, began : Nat \union {None},
               retries : Nat, cap : Nat \union {None}]

AfterMeta == {"creating_views", "reading_version", "recording_version", "recording_cap",
              "reading_cap", "open"}
AfterTables == AfterMeta \ {"creating_views"}
AfterVersion == {"recording_cap", "reading_cap", "open"}
AfterCheck == AfterMeta \union {"converting", "creating_meta"}

Reached(p) ==
    /\ conn[p].at \in AfterCheck \union {"checking"} =>
          /\ conn[p].file \in DOMAIN files
          /\ conn[p].began # None => FileOf(p).version = conn[p].began
    /\ conn[p].at \in AfterCheck /\ conn[p].began # None => conn[p].began <= Version[p]
    /\ conn[p].at \in AfterCheck \ {"converting"} => FileOf(p).wal
    /\ conn[p].at \in AfterMeta => "meta" \in FileOf(p).tables
    /\ conn[p].at \in AfterTables => "views" \in FileOf(p).tables
    /\ conn[p].at \in AfterVersion => FileOf(p).version # None

OpeningOrder ==
    /\ FilesWhole
    /\ conn \in [Processes -> Connection]
    /\ \A p \in Processes : Reached(p)

\* What one process reached, another's step does not undo.
LEMMA ReachedStays ==
    ASSUME OpeningOrder, Growing, NEW p \in Processes, conn'[p] = conn[p]
    PROVE  Reached(p)'
<1>1. conn[p].at \in AfterCheck \union {"checking"} =>
        Grown(FileOf(p), FileOf(p)') /\ conn[p].file \in DOMAIN files'
  BY DEF OpeningOrder, Reached, Growing, FileOf
<1>2. QED BY <1>1 DEF OpeningOrder, Reached, Grown, AfterCheck, AfterMeta, AfterTables, AfterVersion

\* A step of one process's connection.
LEMMA OrderStep ==
    ASSUME OpeningOrder, Growing, NEW p \in Processes, NEW c \in Connection,
           conn' = [conn EXCEPT ![p] = c], Reached(p)'
    PROVE  OpeningOrder'
<1>1. conn' \in [Processes -> Connection]
  BY DEF OpeningOrder
<1>2. \A q \in Processes \ {p} : Reached(q)'
  BY ReachedStays DEF OpeningOrder
<1>3. QED BY <1>1, <1>2 DEF OpeningOrder, Growing

LEMMA OrderSame ==
    ASSUME OpeningOrder, Growing, UNCHANGED conn
    PROVE  OpeningOrder'
<1>1. \A q \in Processes : Reached(q)'
  BY ReachedStays
<1>2. QED BY <1>1 DEF OpeningOrder, Growing

-----------------------------------------------------------------------------
(* The steps of an open. *)

OrderKept == OpeningOrder' /\ Growing

LEMMA Assumed ==
    /\ \A p \in Processes : Version[p] \in Nat /\ Cap[p] \in Nat
    /\ None \notin Nat
BY BuildsAssumption

LEMMA OrderGrows == OpeningOrder => FilesWhole /\ conn \in [Processes -> Connection]
BY DEF OpeningOrder

\* A process that fails, leaves or starts again needs nothing of its file.
LEMMA OutsideKept ==
    ASSUME OpeningOrder, Growing, NEW p \in Processes, NEW c \in Connection,
           c.at \notin AfterCheck \union {"checking"}, conn' = [conn EXCEPT ![p] = c]
    PROVE  OrderKept
<1>1. conn'[p] = c
  BY DEF OpeningOrder
<1>2. Reached(p)'
  BY <1>1 DEF Reached, AfterCheck, AfterMeta, AfterTables, AfterVersion
<1>3. QED BY <1>2, OrderStep DEF OrderKept

\* The version a connection met is read off the file, and no other.
LEMMA ConnectKept == ASSUME OpeningOrder, NEW p \in Processes, Connect(p) PROVE OrderKept
<1> DEFINE file == IF path = None THEN Len(files) + 1 ELSE path
           c == [at |-> "checking", file |-> file, began |-> files'[file].version,
                 retries |-> 0, cap |-> None]
<1>1. conn' = [conn EXCEPT ![p] = c] /\ path' = file
  BY DEF Connect
<1>2. FilesWhole /\ conn \in [Processes -> Connection]
  BY OrderGrows
<1>3. Growing /\ file \in DOMAIN files'
  <2>1. CASE path = None
    BY <1>1, <1>2, <2>1, AppendGrows DEF Connect
  <2>2. CASE path # None
    BY <1>1, <1>2, <2>2, SameGrows DEF Connect, FilesWhole
  <2>3. QED BY <2>1, <2>2
<1>4. file \in Nat /\ files'[file].version \in Nat \union {None}
  BY <1>3 DEF Growing, FilesWhole, FileRecord
<1>5. c \in Connection /\ c.at = "checking" /\ c.file = file /\ c.began = files'[file].version
  BY <1>4 DEF Connection, Places
<1>6. conn'[p] = c
  BY <1>1, <1>2
<1>7. Reached(p)'
  BY <1>3, <1>5, <1>6 DEF Reached, FileOf, AfterCheck, AfterMeta, AfterTables, AfterVersion
<1>8. QED BY <1>1, <1>3, <1>5, <1>7, OrderStep DEF OrderKept

\* A process goes on to the next statement.
LEMMA GotoStep ==
    ASSUME OpeningOrder, NEW p \in Processes, NEW at \in Places, Goto(p, at)
    PROVE  /\ [conn[p] EXCEPT !.at = at] \in Connection
           /\ [conn[p] EXCEPT !.at = at].at = at
           /\ conn' = [conn EXCEPT ![p] = [conn[p] EXCEPT !.at = at]]
           /\ conn'[p].at = at /\ conn'[p].file = conn[p].file /\ conn'[p].began = conn[p].began
BY OrderGrows DEF Goto, Connection

LEMMA GotoOutsideKept ==
    ASSUME OpeningOrder, Growing, NEW p \in Processes, NEW at \in {"failed", "left"}, Goto(p, at)
    PROVE  OrderKept
<1> DEFINE c == [conn[p] EXCEPT !.at = at]
<1>1. at \in Places /\ at \notin AfterCheck \union {"checking"}
  BY DEF AfterCheck, AfterMeta, Places
<1>2. c \in Connection /\ c.at = at /\ conn' = [conn EXCEPT ![p] = c]
  BY <1>1, GotoStep
<1> HIDE DEF c
<1>3. QED BY <1>1, <1>2, OutsideKept

LEMMA CheckVersionKept == ASSUME OpeningOrder, NEW p \in Processes, CheckVersion(p) PROVE OrderKept
<1>1. Growing
  BY SameGrows, OrderGrows DEF CheckVersion
<1>2. CASE Newer(p)
  BY <1>1, <1>2, GotoOutsideKept DEF CheckVersion
<1>3. CASE ~Newer(p)
  <2>1. Goto(p, "converting")
    BY <1>3 DEF CheckVersion
  <2>2. conn[p].file \in DOMAIN files /\ (conn[p].began # None => FileOf(p).version = conn[p].began)
    BY DEF OpeningOrder, Reached, CheckVersion, At
  <2>3. FileOf(p).version \in Nat \union {None}
    BY <2>2, OrderGrows DEF FilesWhole, FileRecord, FileOf
  <2>4. conn[p].began # None => conn[p].began <= Version[p]
    BY <1>3, <2>2, <2>3, Assumed DEF Newer
  <2>5. files' = files
    BY DEF CheckVersion
  <2>6. Reached(p)'
    BY <2>1, <2>2, <2>4, <2>5, GotoStep
       DEF Reached, FileOf, AfterCheck, AfterMeta, AfterTables, AfterVersion, Places
  <2>7. QED BY <1>1, <2>1, <2>6, GotoStep, OrderStep DEF OrderKept, Places
<1>4. QED BY <1>2, <1>3

\* A statement that succeeds: its process goes on, having reached what it wrote.
LEMMA StatementKept ==
    ASSUME OpeningOrder, NEW p \in Processes, NEW g, NEW at \in Places,
           conn[p].at \in AfterCheck \union {"checking"},
           Goto(p, at), Written(p, g), UNCHANGED path,
           FileRecord(g), Grown(FileOf(p), g),
           conn[p].file \in DOMAIN files /\ FileOf(p)' = g => Reached(p)'
    PROVE  OrderKept
<1>1. Growing
  BY WriteGrows, OrderGrows
<1>2. conn[p].file \in DOMAIN files
  BY DEF OpeningOrder, Reached
<1>3. FileOf(p)' = g
  BY <1>2, GotoStep DEF Written, FileOf
<1>4. QED BY <1>1, <1>2, <1>3, GotoStep, OrderStep DEF OrderKept

LEMMA FileOpen ==
    ASSUME OpeningOrder, NEW p \in Processes, conn[p].at \in AfterCheck \union {"checking"}
    PROVE  conn[p].file \in DOMAIN files /\ FileRecord(FileOf(p))
BY DEF OpeningOrder, Reached, FilesWhole, FileOf

LEMMA EnableWalKept == ASSUME OpeningOrder, NEW p \in Processes, EnableWal(p) PROVE OrderKept
<1> DEFINE g == [FileOf(p) EXCEPT !.wal = TRUE]
<1>1. conn[p].at = "converting" /\ Goto(p, "creating_meta") /\ Written(p, g) /\ UNCHANGED path
  BY DEF EnableWal, At
<1>2. FileRecord(FileOf(p)) /\ Reached(p)
  BY <1>1, FileOpen DEF OpeningOrder, AfterCheck
<1>3. FileRecord(g) /\ Grown(FileOf(p), g) /\ g.wal /\ g.version = FileOf(p).version
  <2>1. g = File(TRUE, FileOf(p).tables, FileOf(p).version, FileOf(p).cap, FileOf(p).holder,
                 FileOf(p).log, FileOf(p).acts)
    BY <1>2, Edited DEF FileRecord
  <2> HIDE DEF g
  <2>2. QED BY <1>2, <2>1 DEF FileRecord, Fields, File, Grown
<1>4. ASSUME conn[p].file \in DOMAIN files, FileOf(p)' = g PROVE Reached(p)'
  <2>1. conn'[p].file \in DOMAIN files'
    BY <1>1, <1>4, GotoStep DEF Written, Places
  <2>2. QED
    BY <1>1, <1>2, <1>3, <1>4, <2>1, GotoStep
       DEF Reached, AfterCheck, AfterMeta, AfterTables, AfterVersion, Places
<1>5. QED BY <1>1, <1>3, <1>4, StatementKept DEF AfterCheck, Places

LEMMA CreateTableKept ==
    ASSUME OpeningOrder, NEW p \in Processes, NEW from, NEW table, NEW to,
           CreateTable(p, from, table, to),
           <<from, table, to>> \in {<<"creating_meta", "meta", "creating_views">>,
                                    <<"creating_views", "views", "reading_version">>}
    PROVE  OrderKept
<1> DEFINE g == [FileOf(p) EXCEPT !.tables = @ \union {table}]
<1>1. \/ from = "creating_meta" /\ table = "meta" /\ to = "creating_views"
      \/ from = "creating_views" /\ table = "views" /\ to = "reading_version"
  OBVIOUS
<1>2. conn[p].at = from /\ Goto(p, to) /\ Written(p, g) /\ UNCHANGED path
  BY DEF CreateTable, At
<1>3. FileRecord(FileOf(p)) /\ Reached(p)
  BY <1>1, <1>2, FileOpen DEF OpeningOrder, AfterCheck, AfterMeta
<1>4. /\ FileRecord(g) /\ Grown(FileOf(p), g) /\ g.version = FileOf(p).version
      /\ g.wal = FileOf(p).wal /\ g.tables = FileOf(p).tables \union {table}
  <2>1. g = File(FileOf(p).wal, FileOf(p).tables \union {table}, FileOf(p).version,
                 FileOf(p).cap, FileOf(p).holder, FileOf(p).log, FileOf(p).acts)
    BY <1>3, Edited DEF FileRecord
  <2> HIDE DEF g
  <2>2. table \in Tables
    BY <1>1 DEF Tables
  <2>3. QED BY <1>3, <2>1, <2>2 DEF FileRecord, Fields, File, Grown
<1> HIDE DEF g
<1>5. to \in Places
  BY <1>1 DEF Places
<1>6. ASSUME conn[p].file \in DOMAIN files, FileOf(p)' = g PROVE Reached(p)'
  <2>1. conn'[p].file \in DOMAIN files' /\ conn'[p].at = to /\ conn'[p].began = conn[p].began
    BY <1>2, <1>5, <1>6, GotoStep DEF Written
  <2>2. QED
    BY <1>1, <1>2, <1>3, <1>4, <1>6, <2>1
       DEF Reached, AfterCheck, AfterMeta, AfterTables, AfterVersion
<1>7. conn[p].at \in AfterCheck
  BY <1>1, <1>2 DEF AfterCheck, AfterMeta
<1>8. QED BY <1>2, <1>4, <1>5, <1>6, <1>7, StatementKept

LEMMA ReadVersionKept == ASSUME OpeningOrder, NEW p \in Processes, ReadVersion(p) PROVE OrderKept
<1> DEFINE to == IF FileOf(p).version = None THEN "recording_version" ELSE "reading_cap"
<1>1. conn[p].at = "reading_version" /\ Goto(p, to) /\ files' = files /\ path' = path
  BY DEF ReadVersion, At
<1>2. Growing
  BY <1>1, SameGrows, OrderGrows
<1>3. to \in Places
  BY DEF Places
<1>4. Reached(p)'
  <2>1. Reached(p)
    BY DEF OpeningOrder
  <2>2. conn'[p].at = to /\ conn'[p].file = conn[p].file /\ conn'[p].began = conn[p].began
    BY <1>1, <1>3, GotoStep
  <2>3. FileOf(p)' = FileOf(p)
    BY <1>1, <2>2 DEF FileOf
  <2>4. QED
    BY <1>1, <2>1, <2>2, <2>3 DEF Reached, AfterCheck, AfterMeta, AfterTables, AfterVersion
<1> HIDE DEF to
<1>5. QED BY <1>1, <1>2, <1>3, <1>4, GotoStep, OrderStep DEF OrderKept

\* The first version recorded stays: a later process's INSERT is ignored.
LEMMA RecordVersionKept ==
    ASSUME OpeningOrder, NEW p \in Processes, RecordVersion(p) PROVE OrderKept
<1> DEFINE v == IF FileOf(p).version = None THEN Version[p] ELSE FileOf(p).version
           g == [FileOf(p) EXCEPT !.version = v]
<1>1. conn[p].at = "recording_version" /\ Goto(p, "recording_cap") /\ Written(p, g) /\ path' = path
  BY DEF RecordVersion, At
<1>2. FileRecord(FileOf(p)) /\ Reached(p)
  BY <1>1, FileOpen DEF OpeningOrder, AfterCheck, AfterMeta
<1>3. v \in Nat \union {None} /\ v # None /\ (FileOf(p).version # None => v = FileOf(p).version)
  BY <1>2, Assumed DEF FileRecord
<1>4. g = File(FileOf(p).wal, FileOf(p).tables, v, FileOf(p).cap, FileOf(p).holder,
               FileOf(p).log, FileOf(p).acts)
  BY <1>2, Edited DEF FileRecord
<1> HIDE DEF g, v
<1>5. /\ FileRecord(g) /\ Grown(FileOf(p), g) /\ g.version = v
      /\ g.wal = FileOf(p).wal /\ g.tables = FileOf(p).tables
  BY <1>2, <1>3, <1>4 DEF FileRecord, Fields, File, Grown
<1>6. ASSUME conn[p].file \in DOMAIN files, FileOf(p)' = g PROVE Reached(p)'
  <2>1. /\ conn'[p].file \in DOMAIN files' /\ conn'[p].at = "recording_cap"
        /\ conn'[p].began = conn[p].began
    BY <1>1, <1>6, GotoStep DEF Written, Places
  <2>2. QED
    BY <1>1, <1>2, <1>3, <1>5, <1>6, <2>1
       DEF Reached, AfterCheck, AfterMeta, AfterTables, AfterVersion
<1>7. QED BY <1>1, <1>5, <1>6, StatementKept DEF AfterCheck, AfterMeta, Places

\* The last step of an open also settles the cap.
LEMMA CapRecord ==
    ASSUME NEW c \in Connection, NEW cap \in Nat
    PROVE  LET e == [c EXCEPT !.at = "open", !.cap = cap]
           IN  e \in Connection /\ e.at = "open" /\ e.file = c.file /\ e.began = c.began
<1> DEFINE d == [c EXCEPT !.at = "open"]
           e == [d EXCEPT !.cap = cap]
<1>1. d \in Connection /\ d.at = "open" /\ d.file = c.file /\ d.began = c.began
  BY DEF Connection, Places
<1>2. [c EXCEPT !.at = "open", !.cap = cap] = e
  OBVIOUS
<1> HIDE DEF d
<1>3. e \in Connection /\ e.at = d.at /\ e.file = d.file /\ e.began = d.began
  BY <1>1 DEF Connection
<1> HIDE DEF e
<1>4. QED BY <1>1, <1>2, <1>3

LEMMA CapStep ==
    ASSUME OpeningOrder, NEW p \in Processes, NEW cap \in Nat,
           conn' = [conn EXCEPT ![p] = [@ EXCEPT !.at = "open", !.cap = cap]]
    PROVE  \E c \in Connection :
              /\ conn' = [conn EXCEPT ![p] = c] /\ conn'[p] = c
              /\ c.at = "open" /\ c.file = conn[p].file /\ c.began = conn[p].began
<1> DEFINE c == [conn[p] EXCEPT !.at = "open", !.cap = cap]
<1>1. conn[p] \in Connection /\ conn \in [Processes -> Connection]
  BY OrderGrows
<1>2. c \in Connection /\ c.at = "open" /\ c.file = conn[p].file /\ c.began = conn[p].began
  BY <1>1, CapRecord
<1>3. conn' = [conn EXCEPT ![p] = c]
  OBVIOUS
<1> HIDE DEF c
<1>4. QED BY <1>1, <1>2, <1>3

LEMMA RecordCapKept == ASSUME OpeningOrder, NEW p \in Processes, RecordCap(p) PROVE OrderKept
<1> DEFINE v == IF FileOf(p).cap = None THEN Cap[p] ELSE FileOf(p).cap
           g == [FileOf(p) EXCEPT !.cap = v]
<1>1. conn[p].at = "recording_cap" /\ Written(p, g) /\ path' = path
  BY DEF RecordCap, At
<1>2. FileRecord(FileOf(p)) /\ Reached(p) /\ conn[p].file \in DOMAIN files
  BY <1>1, FileOpen DEF OpeningOrder, AfterCheck, AfterMeta
<1>3. v \in Nat \union {None} /\ (FileOf(p).cap # None => v = FileOf(p).cap)
  BY <1>2, Assumed DEF FileRecord
<1>4. g = File(FileOf(p).wal, FileOf(p).tables, FileOf(p).version, v, FileOf(p).holder,
               FileOf(p).log, FileOf(p).acts)
  BY <1>2, Edited DEF FileRecord
<1> HIDE DEF g, v
<1>5. /\ FileRecord(g) /\ Grown(FileOf(p), g) /\ g.version = FileOf(p).version
      /\ g.wal = FileOf(p).wal /\ g.tables = FileOf(p).tables
  BY <1>2, <1>3, <1>4 DEF FileRecord, Fields, File, Grown
<1>6. Growing
  BY <1>1, <1>5, WriteGrows, OrderGrows
<1>7. PICK c \in Connection :
         /\ conn' = [conn EXCEPT ![p] = c] /\ conn'[p] = c
         /\ c.at = "open" /\ c.file = conn[p].file /\ c.began = conn[p].began
  BY CapStep, Assumed DEF RecordCap
<1>8. FileOf(p)' = g /\ conn[p].file \in DOMAIN files'
  BY <1>1, <1>2, <1>7 DEF Written, FileOf
<1>9. Reached(p)'
  BY <1>1, <1>2, <1>5, <1>7, <1>8 DEF Reached, AfterCheck, AfterMeta, AfterTables, AfterVersion
<1>10. QED BY <1>6, <1>7, <1>9, OrderStep DEF OrderKept

LEMMA ReadCapKept == ASSUME OpeningOrder, NEW p \in Processes, ReadCap(p) PROVE OrderKept
<1> DEFINE v == IF FileOf(p).cap = None THEN Cap[p] ELSE FileOf(p).cap
<1>1. conn[p].at = "reading_cap" /\ files' = files /\ path' = path
  BY DEF ReadCap, At
<1>2. FileRecord(FileOf(p)) /\ Reached(p)
  BY <1>1, FileOpen DEF OpeningOrder, AfterCheck, AfterMeta
<1>3. v \in Nat
  BY <1>2, Assumed DEF FileRecord
<1>4. conn' = [conn EXCEPT ![p] = [@ EXCEPT !.at = "open", !.cap = v]]
  BY DEF ReadCap
<1> HIDE DEF v
<1>5. PICK c \in Connection :
         /\ conn' = [conn EXCEPT ![p] = c] /\ conn'[p] = c
         /\ c.at = "open" /\ c.file = conn[p].file /\ c.began = conn[p].began
  BY <1>3, <1>4, CapStep
<1>6. Growing
  BY <1>1, SameGrows, OrderGrows
<1>7. Reached(p)'
  BY <1>1, <1>2, <1>5 DEF Reached, FileOf, AfterCheck, AfterMeta, AfterTables, AfterVersion
<1>8. QED BY <1>5, <1>6, <1>7, OrderStep DEF OrderKept

LEMMA WalBusyKept == ASSUME OpeningOrder, NEW p \in Processes, WalBusy(p) PROVE OrderKept
<1>1. conn[p].at = "converting" /\ files' = files /\ path' = path
  BY DEF WalBusy, At
<1>2. Growing
  BY <1>1, SameGrows, OrderGrows
<1>3. CASE conn' = [conn EXCEPT ![p].at = "failed"]
  <2>1. Goto(p, "failed")
    BY <1>3 DEF Goto
  <2>2. QED BY <1>2, <2>1, GotoOutsideKept
<1>4. CASE conn' = [conn EXCEPT ![p].retries = @ + 1]
  <2> DEFINE c == [conn[p] EXCEPT !.retries = conn[p].retries + 1]
  <2>1. /\ c \in Connection
        /\ c.at = conn[p].at /\ c.file = conn[p].file /\ c.began = conn[p].began
    BY OrderGrows DEF Connection
  <2>2. conn' = [conn EXCEPT ![p] = c]
    BY <1>4
  <2> HIDE DEF c
  <2>3. conn'[p] = c
    BY <2>2, OrderGrows
  <2>4. Reached(p)
    BY DEF OpeningOrder
  <2>5. Reached(p)'
    BY <1>1, <2>1, <2>3, <2>4
       DEF Reached, FileOf, AfterCheck, AfterMeta, AfterTables, AfterVersion
  <2>6. QED BY <1>2, <2>1, <2>2, <2>5, OrderStep DEF OrderKept
<1>5. QED BY <1>3, <1>4 DEF WalBusy

LEMMA OpenStepKept == ASSUME OpeningOrder, NEW p \in Processes, OpenStep(p) PROVE OrderKept
<1>1. CASE CreateTable(p, "creating_meta", "meta", "creating_views")
  BY <1>1, CreateTableKept
<1>2. CASE CreateTable(p, "creating_views", "views", "reading_version")
  BY <1>2, CreateTableKept
<1>3. CASE GiveUp(p)
  BY <1>3, SameGrows, OrderGrows, GotoOutsideKept DEF GiveUp
<1>4. QED
  BY <1>1, <1>2, <1>3, CheckVersionKept, EnableWalKept, WalBusyKept, ReadVersionKept,
     RecordVersionKept, RecordCapKept, ReadCapKept DEF OpenStep

-----------------------------------------------------------------------------
(* The steps of a run. *)

LEMMA ClosedConnection == Closed \in Connection /\ Closed.at = "closed"
BY DEF Closed, Connection, Places

LEMMA ClosedKept ==
    ASSUME OpeningOrder, Growing, NEW p \in Processes, conn' = [conn EXCEPT ![p] = Closed]
    PROVE  OrderKept
BY ClosedConnection, OutsideKept DEF AfterCheck, AfterMeta

\* What a run writes into an open file is its holder, the log and the activations.
LEMMA LockWriteKept ==
    ASSUME OpeningOrder, NEW p, NEW g, Written(p, g), UNCHANGED <<path, conn>>,
           FileRecord(FileOf(p)) =>
              \E h, l, a : /\ g = File(FileOf(p).wal, FileOf(p).tables, FileOf(p).version,
                                       FileOf(p).cap, h, l, a)
                           /\ FileOf(p).log \subseteq l /\ FileOf(p).acts \subseteq a
    PROVE  OrderKept
<1>1. ASSUME conn[p].file \in DOMAIN files PROVE FileRecord(g) /\ Grown(FileOf(p), g)
  <2>1. FileRecord(FileOf(p))
    BY <1>1, OrderGrows DEF FilesWhole, FileOf
  <2>2. PICK h, l, a : /\ g = File(FileOf(p).wal, FileOf(p).tables, FileOf(p).version,
                                   FileOf(p).cap, h, l, a)
                       /\ FileOf(p).log \subseteq l /\ FileOf(p).acts \subseteq a
    BY <2>1
  <2>3. QED BY <2>1, <2>2 DEF FileRecord, Fields, File, Grown
<1>2. Growing
  BY <1>1, WriteGrows, OrderGrows
<1>3. QED BY <1>2, OrderSame DEF OrderKept

LEMMA TakeLockKept == ASSUME OpeningOrder, NEW p \in Processes, TakeLock(p) PROVE OrderKept
<1> DEFINE g == [FileOf(p) EXCEPT !.holder = p]
<1>1. Written(p, g) /\ UNCHANGED <<path, conn>>
  BY DEF TakeLock
<1>2. FileRecord(FileOf(p)) =>
        g = File(FileOf(p).wal, FileOf(p).tables, FileOf(p).version, FileOf(p).cap, p,
                 FileOf(p).log, FileOf(p).acts)
  BY Edited DEF FileRecord
<1> HIDE DEF g
<1>3. QED BY <1>1, <1>2, LockWriteKept

LEMMA WorkFailsKept == ASSUME OpeningOrder, NEW p \in Processes, WorkFails(p) PROVE OrderKept
<1> DEFINE h == IF FileOf(p).holder = p THEN None ELSE FileOf(p).holder
           g == [FileOf(p) EXCEPT !.holder = h]
<1>1. Written(p, g) /\ UNCHANGED <<path, conn>>
  BY DEF WorkFails
<1>2. FileRecord(FileOf(p)) =>
        g = File(FileOf(p).wal, FileOf(p).tables, FileOf(p).version, FileOf(p).cap, h,
                 FileOf(p).log, FileOf(p).acts)
  BY Edited DEF FileRecord
<1> HIDE DEF g, h
<1>3. QED BY <1>1, <1>2, LockWriteKept

LEMMA CommitKept == ASSUME OpeningOrder, NEW p \in Processes, Commit(p) PROVE OrderKept
<1>1. PICK k : Written(p, [Done(p, FileOf(p), k) EXCEPT !.holder = None])
  BY DEF Commit
<1> DEFINE f == FileOf(p)
           d == Done(p, f, k)
           g == [d EXCEPT !.holder = None]
<1>2. ASSUME FileRecord(f)
      PROVE  \E l, a : /\ d = File(f.wal, f.tables, f.version, f.cap, f.holder, l, a)
                       /\ f.log \subseteq l /\ f.acts \subseteq a
  <2> HIDE DEF f
  <2>1. \A v : /\ [f EXCEPT !.log = v] = File(f.wal, f.tables, f.version, f.cap, f.holder, v, f.acts)
               /\ [f EXCEPT !.acts = v] = File(f.wal, f.tables, f.version, f.cap, f.holder, f.log, v)
    BY <1>2, Edited DEF FileRecord
  <2>2. f = File(f.wal, f.tables, f.version, f.cap, f.holder, f.log, f.acts)
    BY <1>2 DEF FileRecord, Fields
  <2>3. \/ d = f
        \/ \E v : d = [f EXCEPT !.log = v] /\ f.log \subseteq v
        \/ \E v : d = [f EXCEPT !.acts = v] /\ f.acts \subseteq v
    <3> DEFINE units == {run[p].todo[i] : i \in 1..k}
    <3>1. CASE Activates(run[p])
      <4>1. d = [f EXCEPT !.acts = f.acts \union units]
        BY <3>1 DEF Done, Activates
      <4>2. QED BY <4>1
    <3>2. CASE ~Activates(run[p]) /\ Command(run[p]) = "reinfer"
      BY <3>2 DEF Done
    <3>3. CASE ~Activates(run[p]) /\ Command(run[p]) # "reinfer"
      <4>1. d = [f EXCEPT !.log = f.log \union {<<run[p].id, u>> : u \in units}]
        BY <3>3 DEF Done
      <4>2. QED BY <4>1
    <3>4. QED BY <3>1, <3>2, <3>3
  <2> HIDE DEF d
  <2>4. QED BY <2>1, <2>2, <2>3
<1>3. ASSUME FileRecord(f)
      PROVE  \E h, l, a : /\ g = File(f.wal, f.tables, f.version, f.cap, h, l, a)
                          /\ f.log \subseteq l /\ f.acts \subseteq a
  <2>1. PICK l, a : /\ d = File(f.wal, f.tables, f.version, f.cap, f.holder, l, a)
                    /\ f.log \subseteq l /\ f.acts \subseteq a
    BY <1>2, <1>3
  <2> HIDE DEF d, f
  <2>2. Fields(d) /\ d.wal = f.wal /\ d.tables = f.tables /\ d.version = f.version
        /\ d.cap = f.cap /\ d.log = l /\ d.acts = a
    BY <2>1 DEF Fields, File
  <2>3. g = File(d.wal, d.tables, d.version, d.cap, None, d.log, d.acts)
    BY <2>2, Edited
  <2>4. QED BY <2>1, <2>2, <2>3
<1>4. Written(p, g) /\ UNCHANGED <<path, conn>>
  BY <1>1 DEF Commit
<1> HIDE DEF g, d
<1>5. QED BY <1>3, <1>4, LockWriteKept

\* A death frees the lock of every file its process held.
LEMMA CrashKept == ASSUME OpeningOrder, NEW p \in Processes, Crash(p) PROVE OrderKept
<1> DEFINE h(f) == IF files[f].holder = p THEN None ELSE files[f].holder
           g(f) == [files[f] EXCEPT !.holder = h(f)]
<1>1. files' = [f \in DOMAIN files |-> g(f)] /\ path' = path
      /\ conn' = [conn EXCEPT ![p] = Closed]
  BY DEF Crash
<1>2. ASSUME NEW f \in DOMAIN files PROVE FileRecord(g(f)) /\ Grown(files[f], g(f))
  <2>1. FileRecord(files[f])
    BY OrderGrows DEF FilesWhole
  <2>2. g(f) = File(files[f].wal, files[f].tables, files[f].version, files[f].cap, h(f),
                    files[f].log, files[f].acts)
    BY <2>1, Edited DEF FileRecord
  <2> HIDE DEF g, h
  <2>3. QED BY <2>1, <2>2 DEF FileRecord, Fields, File, Grown
<1> HIDE DEF g
<1>3. DOMAIN files' = DOMAIN files /\ \A f \in DOMAIN files : files'[f] = g(f)
  BY <1>1
<1>4. FilesWhole'
  BY <1>1, <1>2, <1>3, OrderGrows DEF FilesWhole
<1>5. Growing
  BY <1>2, <1>3, <1>4 DEF Growing
<1>6. QED BY <1>1, <1>5, ClosedKept

LEMMA ElsewhereKept ==
    ASSUME OpeningOrder, UNCHANGED <<files, conn>>, path' \in {path, None}
    PROVE  OrderKept
BY SameGrows, OrderSame, OrderGrows DEF OrderKept

LEMMA NextKept == OpeningOrder /\ [Next]_vars => OrderKept
<1> SUFFICES ASSUME OpeningOrder, [Next]_vars PROVE OrderKept
  OBVIOUS
<1>1. CASE UNCHANGED vars
  BY <1>1, ElsewhereKept DEF vars
<1>2. ASSUME NEW p \in Processes,
             ShowText(p) \/ Refuse(p) \/ Reset(p) \/ OpenNone(p) \/ OpenJson(p) \/ Opened(p)
             \/ WorkInMemory(p) \/ PrintOut(p) \/ Save(p) \/ Flush(p)
      PROVE  OrderKept
  <2>1. UNCHANGED <<files, conn>> /\ path' \in {path, None}
    BY <1>2 DEF ShowText, Refuse, Reset, OpenNone, OpenJson, Opened, WorkInMemory, PrintOut,
                Save, Flush
  <2>2. QED BY <2>1, ElsewhereKept
<1>3. ASSUME NEW p \in Processes, Start(p) PROVE OrderKept
  BY <1>3, SameGrows, OrderGrows, ClosedKept DEF Start
<1>4. ASSUME NEW p \in Processes, OpenSqlite(p) PROVE OrderKept
  BY <1>4, ConnectKept DEF OpenSqlite
<1>5. ASSUME NEW p \in Processes, OpenFurther(p) PROVE OrderKept
  BY <1>5, OpenStepKept DEF OpenFurther
<1>6. ASSUME NEW p \in Processes, OpenFails(p) PROVE OrderKept
  BY <1>6, SameGrows, OrderGrows, GotoOutsideKept DEF OpenFails
<1>7. ASSUME NEW p \in Processes, Leave(p) PROVE OrderKept
  BY <1>7, SameGrows, OrderGrows, GotoOutsideKept DEF Leave
<1>8. QED
  BY <1>1, <1>2, <1>3, <1>4, <1>5, <1>6, <1>7, TakeLockKept, CommitKept, WorkFailsKept, CrashKept
     DEF Next

LEMMA OrderInit == Init => OpeningOrder
<1> SUFFICES ASSUME Init PROVE OpeningOrder
  OBVIOUS
<1>1. files = <<>> /\ conn = [p \in Processes |-> Closed] /\ path = None
  BY DEF Init, OpeningInit
<1>2. DOMAIN files = 1..0 /\ files = [i \in DOMAIN files |-> files[i]]
  BY <1>1
<1>3. FilesWhole
  BY <1>1, <1>2 DEF FilesWhole
<1>4. conn \in [Processes -> Connection] /\ \A p \in Processes : Reached(p)
  BY <1>1, ClosedConnection DEF Reached, AfterCheck, AfterMeta, AfterTables, AfterVersion
<1>5. QED BY <1>3, <1>4 DEF OpeningOrder

LEMMA OrderAlways == Spec => []OpeningOrder
<1>1. OpeningOrder /\ [Next]_vars => OpeningOrder'
  BY NextKept DEF OrderKept
<1>2. QED BY <1>1, OrderInit, PTL DEF Spec

-----------------------------------------------------------------------------
(* What a run did: what of it holds whatever others do. *)

Ahead == {"routing", "opening", "working", "printing"}
Behind == {"saving", "flushing", "leaving", "exited"}

RunFields ==
    {"at", "opts", "args", "piped", "text", "env", "id", "corpus", "failed", "exit",
     "store", "saved", "todo", "asked", "fresh"}

RunTold(r) ==
    /\ DOMAIN r = RunFields
    /\ IsSeq(r.todo) /\ (r.text = None \/ IsSeq(r.text))
    /\ r.corpus \in {None, "db", "json"}
    /\ DOMAIN r.store = {"log", "acts"}
    /\ r.at = "routing" => r.corpus = None
    /\ r.at \in {"routing", "opening"} => r.todo = <<>> /\ r.asked = {} /\ r.fresh = {}
    /\ r.at = "opening" => r.corpus = "db" /\ Early(r) = "none"
    /\ r.at = "working" => r.todo # <<>>
    /\ r.at \in Ahead => r.failed = {}
    /\ "save" \in r.failed \/ \E what : r.failed \subseteq {what}
    /\ r.failed \intersect {"option", "missing", "shell"} # {} => r.corpus = None
    /\ r.at \in Behind /\ r.failed \subseteq {"delete"} => r.todo = <<>>
    /\ r.at = "exited" => r.exit = Status(r)
    /\ r.at # "exited" => r.exit = None

\* What of it depends on the corpus it opened, and on those who share it.
Where(r, file) ==
    CASE r.corpus = "db" -> file
      [] r.corpus # "db" /\ r.at \in Ahead \union {"saving"} -> r.store
      [] OTHER -> r.saved

\* What the run did is in `corpus`.
DoneIn(r, corpus) ==
    LET done == r.asked \ Range(r.todo)
    IN  CASE Command(r) = "reinfer" -> TRUE
          [] Activates(r) -> done \subseteq corpus.acts
          [] OTHER -> {<<r.id, u>> : u \in done} \subseteq corpus.log

Backed(p) ==
    LET r == run[p]
        file == conn[p].file
    IN  /\ file # None => r.corpus = "db" /\ file \in DOMAIN files /\ r.fresh \subseteq FileOf(p).acts
        /\ r.corpus = "db" /\ r.at # "dead" => file # None
        /\ r.corpus # None /\ r.at # "dead" /\ "save" \notin r.failed => DoneIn(r, Where(r, FileOf(p)))
        /\ r.corpus = "db" /\ r.at # "dead" /\ Activates(r) /\ r.asked # {} =>
              Candidates \subseteq FileOf(p).acts \union r.asked

\* No activation is two runs' news.
FreshApart ==
    \A p, q \in Processes :
        p # q /\ conn[p].file = conn[q].file /\ conn[p].file # None =>
            run[p].fresh \intersect run[q].fresh = {}

Told ==
    /\ run = [p \in Processes |-> run[p]]
    /\ \A p \in Processes : RunTold(run[p]) /\ Backed(p)
    /\ FreshApart
    /\ json = None \/ DOMAIN json = {"log", "acts"}

-----------------------------------------------------------------------------
(* Sequences of work. *)

LEMMA SetInSeq ==
    ASSUME NEW S, IsFiniteSet(S)
    PROVE  IsSeq(SetToSeq(S)) /\ Range(SetToSeq(S)) = S
<1> DEFINE n == Cardinality(S)
           f == SetToSeq(S)
<1>1. n \in Nat /\ ExistsBijection(1..n, S)
  BY FS_CardinalityType
<1>2. PICK g \in Bijection(1..n, S) : TRUE
  BY <1>1 DEF ExistsBijection
<1>3. g \in [1..n -> S] /\ IsInjective(g)
  BY <1>2 DEF Bijection, Injection
<1>4. f \in [1..n -> S] /\ IsInjective(f)
  BY <1>3 DEF SetToSeq
<1> HIDE DEF f
<1>5. f \in Injection(1..n, S)
  BY <1>4 DEF Injection
<1>6. Cardinality(1..n) = n
  BY <1>1, FS_Interval
<1> HIDE DEF n
<1>7. f \in Surjection(1..n, S)
  BY <1>5, <1>6, FS_Injection DEF n
<1>8. Range(f) = S
  <2>1. \A s \in S : \E i \in 1..n : f[i] = s
    BY <1>7 DEF Surjection
  <2>2. QED BY <1>4, <2>1 DEF Range
<1>9. f \in Seq(S)
  BY <1>1, <1>4, SeqDef DEF n
<1>10. QED BY <1>8, <1>9 DEF IsSeq, f

LEMMA ShortSeqs == IsSeq(<<>>) /\ Range(<<>>) = {} /\ \A x : IsSeq(<<x>>)
<1>1. <<>> \in Seq({}) /\ Range(<<>>) = {}
  BY DEF Range
<1>2. ASSUME NEW x PROVE IsSeq(<<x>>)
  <2>1. <<x>> \in Seq({x})
    OBVIOUS
  <2>2. QED BY <2>1, SeqOfRange DEF IsSeq
<1>3. QED BY <1>1, <1>2 DEF IsSeq

\* What is taken of the work and what is left make up the work.
LEMMA Taking ==
    ASSUME NEW s, IsSeq(s), NEW k \in 0..Len(s)
    PROVE  LET rest == SubSeq(s, k + 1, Len(s))
           IN  /\ IsSeq(rest)
               /\ Range(s) = {s[i] : i \in 1..k} \union Range(rest)
<1> DEFINE rest == SubSeq(s, k + 1, Len(s))
           S == Range(s)
<1>1. s \in Seq(S)
  BY DEF IsSeq
<1>2. S = {s[i] : i \in 1..Len(s)}
  BY <1>1, RangeEquality
<1> HIDE DEF S
<1>3. /\ rest \in Seq(S) /\ Len(rest) = Len(s) - k /\ Len(s) \in Nat
      /\ \A i \in 1..(Len(s) - k) : rest[i] = s[k + i]
  BY <1>1
<1> HIDE DEF rest
<1>4. Range(rest) = {rest[i] : i \in 1..(Len(s) - k)}
  BY <1>3, RangeEquality
<1>5. \A i \in 1..(Len(s) - k) : k + i \in 1..Len(s)
  BY <1>3
<1>6. \A i \in 1..Len(s) : i \in 1..k \/ (i - k \in 1..(Len(s) - k) /\ k + (i - k) = i)
  BY <1>3
<1>7. \A i \in 1..k : i \in 1..Len(s)
  BY <1>3
<1>8. S = {s[i] : i \in 1..k} \union Range(rest)
  <2>1. {s[i] : i \in 1..k} \subseteq S
    BY <1>2, <1>7
  <2>2. Range(rest) \subseteq S
    BY <1>3, RangeOfSeq
  <2>3. ASSUME NEW i \in 1..Len(s), i \notin 1..k PROVE s[i] \in Range(rest)
    <3>1. i - k \in 1..(Len(s) - k) /\ rest[i - k] = s[i]
      BY <1>3, <1>6, <2>3
    <3>2. QED BY <1>4, <3>1
  <2>4. QED BY <1>2, <2>1, <2>2, <2>3
<1>9. IsSeq(rest)
  BY <1>3, SeqOfRange DEF IsSeq
<1>10. QED BY <1>8, <1>9 DEF rest, S

-----------------------------------------------------------------------------
(* Which command a run is does not change. *)

Same(r, s) ==
    r.opts = s.opts /\ r.args = s.args /\ r.piped = s.piped /\ r.text = s.text /\ r.env = s.env

LEMMA SameCommand ==
    ASSUME NEW r, NEW s, Same(r, s)
    PROVE  /\ Command(r) = Command(s) /\ Early(r) = Early(s) /\ Source(r) = Source(s)
           /\ Activates(r) <=> Activates(s)
           /\ Streams(r) <=> Streams(s)
BY DEF Same, Command, Early, Source, Activates, Streams, Given, Value, Batch, MissingInput,
       Positional, Explicit, Usage, Shell

\* What a batch that went past the early checks reads.
LEMMA SourceType ==
    ASSUME NEW r, Early(r) = "none", Command(r) = "batch", Source(r) # None,
           r.text = None \/ IsSeq(r.text)
    PROVE  IsSeq(Source(r))
<1> DEFINE args == Positional(r)
<1>1. ~MissingInput(r) /\ Batch(r)
  <2>1. Batch(r)
    BY DEF Command
  <2>2. ~MissingInput(r)
    BY DEF Early
  <2>3. QED BY <2>1, <2>2
<1>2. CASE args = <<>> \/ args[1] = "-"
  BY <1>2 DEF Source
<1>3. CASE args # <<>> /\ args[1] # "-"
  <2>1. args[1] \notin BadFiles /\ Source(r) = InputFiles[args[1]]
    BY <1>3 DEF Source
  <2>2. IsFile(args[1])
    BY <1>1, <1>3 DEF MissingInput, Batch
  <2>3. QED BY <2>1, <2>2, InputsAssumption DEF IsFile
<1>4. QED BY <1>2, <1>3

LEMMA WorkType ==
    ASSUME NEW r, NEW acts, Early(r) = "none", r.text = None \/ IsSeq(r.text), Stops(r) = None
    PROVE  /\ IsSeq(Work(r, acts))
           /\ Activates(r) /\ Range(Work(r, acts)) # {} => Range(Work(r, acts)) = Candidates \ acts
<1>1. CASE Command(r) = "batch"
  <2>1. Source(r) # None
    BY <1>1, NoneAssumption DEF Stops
  <2>2. Work(r, acts) = Source(r)
    BY <1>1 DEF Work
  <2>3. QED BY <1>1, <2>1, <2>2, SourceType DEF Activates
<1>2. CASE Command(r) # "batch"
  <2>1. IsFiniteSet(Candidates \ acts)
    BY CandidatesAssumption, FS_Subset
  <2>2. IsSeq(SetToSeq(Candidates \ acts)) /\ Range(SetToSeq(Candidates \ acts)) = Candidates \ acts
    BY <2>1, SetInSeq
  <2>3. \/ Work(r, acts) = <<r.args[1]>> /\ ~Activates(r)
        \/ Work(r, acts) = SetToSeq(Candidates \ acts)
        \/ Work(r, acts) = <<"rebuild">> /\ ~Activates(r)
        \/ Work(r, acts) = <<>>
    BY <1>2 DEF Work, Activates
  <2>4. QED BY <2>2, <2>3, ShortSeqs
<1>3. QED BY <1>1, <1>2

-----------------------------------------------------------------------------
(* What the steps of a run make of it. *)

\* A run that no step has finished with.
Going(r) ==
    /\ DOMAIN r = RunFields
    /\ IsSeq(r.todo) /\ (r.text = None \/ IsSeq(r.text))
    /\ r.corpus \in {None, "db", "json"}
    /\ DOMAIN r.store = {"log", "acts"}
    /\ r.failed = {}
    /\ r.exit = None

LEMMA GoingTold == ASSUME NEW r, RunTold(r), r.at \in Ahead PROVE Going(r)
BY DEF RunTold, Going, Ahead

LEMMA FailedTold ==
    ASSUME NEW r, Going(r), NEW what, what \notin {"delete", "save"} \/ (what = "delete" /\ r.todo = <<>>),
           what \in {"option", "missing", "shell"} => r.corpus = None,
           NEW at \in {"saving", "leaving"}
    PROVE  /\ RunTold(Failed(r, what, at))
           /\ Failed(r, what, at).at = at /\ Failed(r, what, at).failed = {what}
           /\ \A f \in RunFields \ {"at", "failed"} : Failed(r, what, at)[f] = r[f]
<1> DEFINE s == [r EXCEPT !.failed = r.failed \union {what}, !.at = at]
<1>1. /\ DOMAIN s = RunFields /\ s.at = at /\ s.failed = {what}
      /\ \A f \in RunFields \ {"at", "failed"} : s[f] = r[f]
  BY DEF Going, RunFields
<1>2. s = Failed(r, what, at)
  BY DEF Failed
<1> HIDE DEF s
<1>3. /\ s.todo = r.todo /\ s.text = r.text /\ s.corpus = r.corpus /\ s.exit = r.exit
      /\ s.store = r.store
  BY <1>1 DEF RunFields
<1>4. RunTold(s)
  BY <1>1, <1>3 DEF RunTold, Going, Ahead, Behind
<1>5. QED BY <1>1, <1>2, <1>4

LEMMA BeginTold ==
    ASSUME NEW r, NEW acts, Going(r), Early(r) = "none", r.todo = <<>>, r.asked = {}
    PROVE  LET s == Begin(r, acts)
           IN  /\ RunTold(s) /\ Same(s, r) /\ s.at \in {"printing", "working", "saving"}
               /\ s.corpus = r.corpus /\ s.store = r.store /\ s.fresh = r.fresh /\ s.id = r.id
               /\ s.asked = Range(s.todo)
               /\ Activates(s) /\ s.asked # {} => s.asked = Candidates \ acts
<1> DEFINE s == Begin(r, acts)
           w == Work(r, acts)
<1>1. CASE Stops(r) # None
  <2> DEFINE what == Stops(r)
  <2>1. s = Failed(r, what, "saving")
    BY <1>1 DEF Begin
  <2>2. what \in {"no_corpus", "parse", "read"}
    BY <1>1 DEF Stops
  <2> HIDE DEF what
  <2>3. /\ RunTold(Failed(r, what, "saving")) /\ Failed(r, what, "saving").at = "saving"
        /\ \A f \in RunFields \ {"at", "failed"} : Failed(r, what, "saving")[f] = r[f]
    BY <2>2, FailedTold
  <2> HIDE DEF s
  <2>4. /\ s.opts = r.opts /\ s.args = r.args /\ s.piped = r.piped /\ s.text = r.text
        /\ s.env = r.env /\ s.corpus = r.corpus /\ s.store = r.store /\ s.fresh = r.fresh
        /\ s.id = r.id /\ s.todo = r.todo /\ s.asked = r.asked
    BY <2>1, <2>3 DEF RunFields
  <2>5. s.asked = Range(s.todo) /\ s.asked = {}
    BY <2>4, ShortSeqs
  <2>6. QED BY <2>1, <2>3, <2>4, <2>5 DEF Same, s
<1>2. CASE Stops(r) = None
  <2>1. s = [r EXCEPT !.at = IF w = <<>> THEN "printing" ELSE "working",
                      !.todo = w, !.asked = Range(w)]
    BY <1>2 DEF Begin
  <2>2. IsSeq(w) /\ (Activates(r) /\ Range(w) # {} => Range(w) = Candidates \ acts)
    BY <1>2, WorkType DEF Going
  <2> HIDE DEF w
  <2>3. /\ DOMAIN s = RunFields
        /\ s.at = IF w = <<>> THEN "printing" ELSE "working"
        /\ s.todo = w /\ s.asked = Range(w)
        /\ s.opts = r.opts /\ s.args = r.args /\ s.piped = r.piped /\ s.text = r.text
        /\ s.env = r.env /\ s.corpus = r.corpus /\ s.store = r.store /\ s.fresh = r.fresh
        /\ s.id = r.id /\ s.failed = r.failed /\ s.exit = r.exit
    BY <2>1 DEF Going, RunFields
  <2> HIDE DEF s
  <2>4. RunTold(s)
    BY <2>2, <2>3 DEF RunTold, Going, Ahead, Behind
  <2>5. Same(s, r)
    BY <2>3 DEF Same
  <2>6. Activates(s) <=> Activates(r)
    BY <2>5, SameCommand
  <2>7. QED BY <2>2, <2>3, <2>4, <2>5, <2>6 DEF s
<1>3. QED BY <1>1, <1>2

\* The work goes on, or is over.
LEMMA AdvanceTold ==
    ASSUME NEW p, NEW corpus, NEW k \in 0..Len(run[p].todo),
           RunTold(run[p]), run[p].at = "working"
    PROVE  LET r == run[p]
               s == Advance(p, corpus, k)
               units == {r.todo[i] : i \in 1..k}
           IN  /\ RunTold(s) /\ Same(s, r) /\ s.at \in {"printing", "working"}
               /\ s.corpus = r.corpus /\ s.store = r.store /\ s.id = r.id /\ s.asked = r.asked
               /\ s.failed = r.failed /\ s.saved = r.saved
               /\ Range(r.todo) = units \union Range(s.todo)
               /\ s.fresh = IF Activates(r) THEN r.fresh \union (units \ corpus.acts) ELSE r.fresh
<1> DEFINE r == run[p]
           s == Advance(p, corpus, k)
           units == {r.todo[i] : i \in 1..k}
           rest == After(p, k)
<1>1. Going(r)
  BY GoingTold DEF Ahead
<1>2. IsSeq(rest) /\ Range(r.todo) = units \union Range(rest)
  BY <1>1, Taking DEF Going, After
<1>3. s = [r EXCEPT !.todo = rest,
                    !.at = IF rest = <<>> \/ Streams(r) THEN "printing" ELSE "working",
                    !.fresh = IF Activates(r) THEN r.fresh \union (units \ corpus.acts)
                              ELSE r.fresh]
  BY DEF Advance
<1> HIDE DEF units, rest, r
<1>4. /\ DOMAIN s = RunFields
      /\ s.todo = rest
      /\ s.at = IF rest = <<>> \/ Streams(r) THEN "printing" ELSE "working"
      /\ s.fresh = IF Activates(r) THEN r.fresh \union (units \ corpus.acts) ELSE r.fresh
      /\ s.opts = r.opts /\ s.args = r.args /\ s.piped = r.piped /\ s.text = r.text
      /\ s.env = r.env /\ s.corpus = r.corpus /\ s.store = r.store /\ s.saved = r.saved
      /\ s.id = r.id /\ s.failed = r.failed /\ s.exit = r.exit /\ s.asked = r.asked
  BY <1>1, <1>3 DEF Going, RunFields
<1> HIDE DEF s
<1>5. s.at \in {"printing", "working"} /\ (s.at = "working" => s.todo # <<>>)
  BY <1>4
<1>6. RunTold(s)
  BY <1>1, <1>2, <1>4, <1>5 DEF RunTold, Going, Ahead, Behind
<1>7. QED BY <1>2, <1>4, <1>5, <1>6 DEF Same, Ahead, s, r, units, rest

-----------------------------------------------------------------------------
(* What the corpus has of a run. *)

LEMMA DoneMore ==
    ASSUME NEW r, NEW c, NEW d, DoneIn(r, c), c.acts \subseteq d.acts, c.log \subseteq d.log
    PROVE  DoneIn(r, d)
BY DEF DoneIn

\* What is still to do is not claimed to be done.
LEMMA NothingDone ==
    ASSUME NEW r, NEW c, r.asked \subseteq Range(r.todo)
    PROVE  DoneIn(r, c)
<1>1. r.asked \ Range(r.todo) = {}
  OBVIOUS
<1>2. QED BY <1>1 DEF DoneIn

LEMMA DoneSame ==
    ASSUME NEW r, NEW s, NEW c, Same(r, s), r.asked = s.asked, r.todo = s.todo, r.id = s.id,
           DoneIn(r, c)
    PROVE  DoneIn(s, c)
<1>1. Command(r) = Command(s) /\ (Activates(r) <=> Activates(s))
  BY SameCommand
<1>2. QED BY <1>1 DEF DoneIn

LEMMA DoneAdvance ==
    ASSUME NEW p, NEW c, NEW k, {"log", "acts"} \subseteq DOMAIN c, NEW s,
           Same(s, run[p]), s.id = run[p].id, s.asked = run[p].asked,
           Range(run[p].todo) = {run[p].todo[i] : i \in 1..k} \union Range(s.todo),
           DoneIn(run[p], c)
    PROVE  LET d == Done(p, c, k)
           IN  /\ DoneIn(s, d) /\ DOMAIN d = DOMAIN c
               /\ c.acts \subseteq d.acts /\ c.log \subseteq d.log
               /\ Activates(run[p]) => d.acts = c.acts \union {run[p].todo[i] : i \in 1..k}
<1> DEFINE d == Done(p, c, k)
           r == run[p]
           units == {r.todo[i] : i \in 1..k}
           new == {<<r.id, u>> : u \in units}
<1>1. Command(r) = Command(s) /\ (Activates(r) <=> Activates(s))
  BY SameCommand
<1>2. s.asked \ Range(s.todo) \subseteq (r.asked \ Range(r.todo)) \union units
  OBVIOUS
<1>3. CASE Activates(r)
  <2>1. d = [c EXCEPT !.acts = c.acts \union units]
    BY <1>3 DEF Done, Activates
  <2> HIDE DEF d, units
  <2>2. d.acts = c.acts \union units /\ d.log = c.log /\ DOMAIN d = DOMAIN c
    BY <2>1
  <2>3. r.asked \ Range(r.todo) \subseteq c.acts
    BY <1>3 DEF DoneIn, Activates
  <2>4. DoneIn(s, d)
    BY <1>1, <1>2, <1>3, <2>2, <2>3 DEF DoneIn, Activates
  <2>5. QED BY <2>2, <2>4 DEF d, units
<1>4. CASE ~Activates(r) /\ Command(r) = "reinfer"
  <2>1. d = c
    BY <1>4 DEF Done
  <2>2. QED BY <1>1, <1>4, <2>1 DEF DoneIn
<1>5. CASE ~Activates(r) /\ Command(r) # "reinfer"
  <2>1. d = [c EXCEPT !.log = c.log \union new]
    BY <1>5 DEF Done
  <2> HIDE DEF d, new
  <2>2. d.acts = c.acts /\ d.log = c.log \union new /\ DOMAIN d = DOMAIN c
    BY <2>1
  <2>3. \A u \in r.asked \ Range(r.todo) : <<r.id, u>> \in c.log
    BY <1>5 DEF DoneIn
  <2>4. \A u \in s.asked \ Range(s.todo) : <<s.id, u>> \in d.log
    BY <1>2, <2>2, <2>3 DEF new
  <2>5. DoneIn(s, d)
    BY <1>1, <1>5, <2>4 DEF DoneIn
  <2>6. QED BY <1>5, <2>2, <2>5 DEF d
<1>6. QED BY <1>3, <1>4, <1>5

LEMMA DoneDomain ==
    ASSUME NEW p, NEW c, NEW k
    PROVE  DOMAIN Done(p, c, k) = DOMAIN c
BY DEF Done

InMemory(r) == r.at \in Ahead \union {"saving"}

\* A step that only takes a run further leaves what it did where it is.
LEMMA BackedStays ==
    ASSUME Growing, NEW p, Backed(p), conn'[p].file = conn[p].file, NEW s, run'[p] = s,
           \A f \in RunFields \ {"at", "failed", "exit"} : s[f] = run[p][f],
           run[p].failed \subseteq s.failed, run[p].at = "dead" => s.at = "dead",
           s.corpus \in {None, "db", "json"}, s.corpus = "json" => (InMemory(s) <=> InMemory(run[p]))
    PROVE  Backed(p)'
<1> DEFINE r == run[p]
           file == conn[p].file
<1>1. /\ Same(r, s) /\ s.corpus = r.corpus /\ s.store = r.store /\ s.saved = r.saved
      /\ s.todo = r.todo /\ s.asked = r.asked /\ s.id = r.id /\ s.fresh = r.fresh
  BY DEF Same, RunFields
<1>2. Activates(r) <=> Activates(s)
  BY <1>1, SameCommand
<1>3. file # None => /\ file \in DOMAIN files /\ file \in DOMAIN files'
                     /\ FileOf(p).log \subseteq FileOf(p)'.log
                     /\ FileOf(p).acts \subseteq FileOf(p)'.acts
  BY DEF Backed, Growing, Grown, FileOf
<1>4. ASSUME s.corpus # None, s.at # "dead", "save" \notin s.failed
      PROVE  DoneIn(s, Where(s, FileOf(p)'))
  <2>1. DoneIn(r, Where(r, FileOf(p)))
    BY <1>1, <1>4 DEF Backed
  <2>2. DoneIn(s, Where(r, FileOf(p)))
    BY <1>1, <2>1, DoneSame
  <2>3. CASE s.corpus = "db"
    <3>1. file # None
      BY <1>1, <1>4, <2>3 DEF Backed
    <3>2. Where(r, FileOf(p)) = FileOf(p) /\ Where(s, FileOf(p)') = FileOf(p)'
      BY <1>1, <2>3 DEF Where
    <3>3. QED BY <1>3, <2>2, <3>1, <3>2, DoneMore
  <2>4. CASE s.corpus # "db"
    <3>1. Where(s, FileOf(p)') = Where(r, FileOf(p))
      BY <1>1, <1>4, <2>4 DEF Where, InMemory
    <3>2. QED BY <2>2, <3>1
  <2>5. QED BY <2>3, <2>4
<1>5. /\ s.corpus = "db" /\ s.at # "dead" => file # None
      /\ s.corpus = "db" /\ s.at # "dead" /\ Activates(s) /\ s.asked # {} =>
            Candidates \subseteq FileOf(p)'.acts \union s.asked
  BY <1>1, <1>2, <1>3 DEF Backed
<1>6. file # None => s.corpus = "db" /\ s.fresh \subseteq FileOf(p)'.acts
  BY <1>1, <1>3 DEF Backed
<1>7. QED BY <1>3, <1>4, <1>5, <1>6 DEF Backed

-----------------------------------------------------------------------------
(* A step of one process, with the others where they were. *)

LEMMA ToldStep ==
    ASSUME Told, Growing, NEW p \in Processes, NEW s,
           run' = [run EXCEPT ![p] = s],
           \A q \in Processes \ {p} : conn'[q] = conn[q],
           json' = None \/ DOMAIN json' = {"log", "acts"},
           RunTold(s), Backed(p)',
           \/ conn'[p].file = None \/ s.fresh = {}
           \/ conn'[p].file = conn[p].file /\ s.fresh \subseteq run[p].fresh
           \/ /\ conn'[p].file = conn[p].file /\ conn[p].file # None
              /\ s.fresh \intersect FileOf(p).acts \subseteq run[p].fresh
    PROVE  Told'
<1>1. /\ DOMAIN run' = Processes /\ run'[p] = s
      /\ \A q \in Processes \ {p} : run'[q] = run[q]
      /\ run' = [q \in Processes |-> run'[q]]
  BY DEF Told
<1>2. ASSUME NEW q \in Processes \ {p}
      PROVE  RunTold(run'[q]) /\ Backed(q)'
  <2>1. RunTold(run[q]) /\ Backed(q) /\ run'[q] = run[q] /\ conn'[q].file = conn[q].file
    BY <1>1 DEF Told
  <2>2. run[q].corpus \in {None, "db", "json"}
    BY <2>1 DEF RunTold
  <2>3. Backed(q)'
    BY <2>1, <2>2, BackedStays
  <2>4. QED BY <2>1, <2>3
<1>3. ASSUME NEW q \in Processes \ {p}, conn'[p].file = conn'[q].file, conn'[p].file # None
      PROVE  run'[p].fresh \intersect run'[q].fresh = {}
  <2>1. run'[q] = run[q] /\ conn[q].file = conn'[p].file /\ conn[q].file # None
    BY <1>1, <1>3
  <2>2. run[q].fresh \subseteq FileOf(q).acts
    BY <2>1 DEF Told, Backed
  <2>3. CASE s.fresh = {}
    BY <1>1, <2>3
  <2>4. CASE conn'[p].file = conn[p].file
    <3>1. run[p].fresh \intersect run[q].fresh = {} /\ FileOf(q) = FileOf(p)
      BY <2>1, <2>4 DEF Told, FreshApart, FileOf
    <3>2. CASE s.fresh \subseteq run[p].fresh
      BY <1>1, <2>1, <3>1, <3>2
    <3>3. CASE s.fresh \intersect FileOf(p).acts \subseteq run[p].fresh
      BY <1>1, <2>1, <2>2, <3>1, <3>3
    <3>4. QED BY <1>3, <2>3, <3>2, <3>3
  <2>5. QED BY <1>3, <2>3, <2>4
<1>4. FreshApart'
  <2> SUFFICES ASSUME NEW a \in Processes, NEW b \in Processes, a # b,
                      conn'[a].file = conn'[b].file, conn'[a].file # None
               PROVE  run'[a].fresh \intersect run'[b].fresh = {}
    BY DEF FreshApart
  <2>1. CASE a = p
    BY <1>3, <2>1
  <2>2. CASE b = p
    BY <1>3, <2>2
  <2>3. CASE a # p /\ b # p
    <3>1. conn[a].file = conn[b].file /\ conn[a].file # None /\ run'[a] = run[a] /\ run'[b] = run[b]
      BY <1>1, <2>3
    <3>2. QED BY <3>1 DEF Told, FreshApart
  <2>4. QED BY <2>1, <2>2, <2>3
<1>5. RunTold(run'[p])
  BY <1>1
<1>6. \A q \in Processes : RunTold(run'[q]) /\ Backed(q)'
  BY <1>2, <1>5
<1>7. QED BY <1>1, <1>4, <1>6 DEF Told

\* A step that leaves the corpora alone and takes a run no further than to its end.
LEMMA GoesOn ==
    ASSUME Told, Growing, NEW p \in Processes, NEW s,
           run' = [run EXCEPT ![p] = s],
           \A q \in Processes \ {p} : conn'[q] = conn[q],
           conn'[p].file = conn[p].file, json' = json,
           RunTold(s), \A f \in RunFields \ {"at", "failed", "exit"} : s[f] = run[p][f],
           run[p].failed \subseteq s.failed, run[p].at = "dead" => s.at = "dead",
           s.corpus = "json" => (InMemory(s) <=> InMemory(run[p]))
    PROVE  Told'
<1>1. Backed(p) /\ run'[p] = s /\ s.corpus \in {None, "db", "json"}
  BY DEF Told, RunTold
<1>2. Backed(p)'
  BY <1>1, BackedStays
<1>3. s.fresh = run[p].fresh
  BY DEF RunFields
<1>4. json' = None \/ DOMAIN json' = {"log", "acts"}
  BY DEF Told
<1>5. QED BY <1>2, <1>3, <1>4, ToldStep

LEMMA Moved ==
    ASSUME NEW r, DOMAIN r = RunFields, NEW at
    PROVE  LET s == [r EXCEPT !.at = at]
           IN  /\ DOMAIN s = RunFields /\ s.at = at
               /\ \A f \in RunFields \ {"at"} : s[f] = r[f]
BY DEF RunFields

\* A run told of, moved to another of its places.
LEMMA MovedTold ==
    ASSUME NEW r, RunTold(r), NEW at, r.at # "exited",
           at \in {"working", "saving", "flushing", "leaving", "dead"},
           at = "working" => r.todo # <<>> /\ r.at \in Ahead,
           at \in Behind /\ r.failed \subseteq {"delete"} => r.todo = <<>>
    PROVE  RunTold([r EXCEPT !.at = at])
<1> DEFINE s == [r EXCEPT !.at = at]
<1>1. /\ DOMAIN s = RunFields /\ s.at = at
      /\ \A f \in RunFields \ {"at"} : s[f] = r[f]
  BY Moved DEF RunTold
<1>2. /\ s.todo = r.todo /\ s.text = r.text /\ s.corpus = r.corpus /\ s.store = r.store
      /\ s.failed = r.failed /\ s.exit = r.exit
  BY <1>1 DEF RunFields
<1> HIDE DEF s
<1>3. RunTold(s)
  BY <1>1, <1>2 DEF RunTold, Ahead, Behind
<1>4. QED BY <1>3 DEF s

LEMMA NoRunTold ==
    /\ RunTold(NoRun) /\ Going(NoRun) /\ NoRun.corpus = None /\ NoRun.fresh = {}
    /\ NoRun.todo = <<>> /\ NoRun.asked = {} /\ NoRun.at = "none"
<1>1. /\ DOMAIN NoRun = RunFields /\ NoRun.todo = <<>> /\ NoRun.text = <<>>
      /\ NoRun.corpus = None /\ DOMAIN NoRun.store = {"log", "acts"} /\ NoRun.failed = {}
      /\ NoRun.exit = None /\ NoRun.at = "none" /\ NoRun.fresh = {} /\ NoRun.asked = {}
  BY DEF NoRun, NoStore, RunFields
<1>2. QED BY <1>1, ShortSeqs DEF RunTold, Going, Ahead, Behind

LEMMA StartTold ==
    ASSUME OpeningOrder, Told, Growing, NEW p \in Processes, Start(p)
    PROVE  Told'
<1>1. PICK i \in Invocations :
        LET parsed == ParseOptions(i.argv)
            r == [NoRun EXCEPT !.at = "routing", !.opts = parsed.opts, !.args = parsed.args,
                               !.piped = i.piped, !.text = i.text, !.env = i.env, !.id = runs + 1]
        IN  Update(p, IF parsed.error THEN Failed(r, "option", "leaving") ELSE r)
  BY DEF Start
<1> DEFINE parsed == ParseOptions(i.argv)
           r == [NoRun EXCEPT !.at = "routing", !.opts = parsed.opts, !.args = parsed.args,
                              !.piped = i.piped, !.text = i.text, !.env = i.env, !.id = runs + 1]
           s == IF parsed.error THEN Failed(r, "option", "leaving") ELSE r
<1>2. run' = [run EXCEPT ![p] = s]
  BY <1>1 DEF Update
<1>3. conn'[p].file = None /\ json' = json /\ \A q \in Processes \ {p} : conn'[q] = conn[q]
  BY OrderGrows DEF Start, Closed
<1>4. i.text = None \/ IsSeq(i.text)
  BY InputsAssumption
<1>5. /\ DOMAIN r = RunFields /\ r.at = "routing" /\ r.text = i.text
      /\ r.todo = NoRun.todo /\ r.corpus = NoRun.corpus /\ r.store = NoRun.store
      /\ r.failed = NoRun.failed /\ r.exit = NoRun.exit /\ r.asked = NoRun.asked
      /\ r.fresh = NoRun.fresh
  BY NoRunTold DEF RunFields, Going
<1> HIDE DEF r, parsed
<1>6. Going(r) /\ RunTold(r)
  BY <1>4, <1>5, NoRunTold DEF Going, RunTold, Ahead, Behind
<1>7. RunTold(s) /\ s.corpus = None
  <2>1. /\ RunTold(Failed(r, "option", "leaving"))
        /\ \A f \in RunFields \ {"at", "failed"} : Failed(r, "option", "leaving")[f] = r[f]
    BY <1>5, <1>6, NoRunTold, FailedTold
  <2>2. Failed(r, "option", "leaving").corpus = r.corpus
    BY <2>1 DEF RunFields
  <2>3. QED BY <1>5, <1>6, <2>1, <2>2, NoRunTold
<1> HIDE DEF s
<1>8. run'[p] = s
  BY <1>2 DEF Told
<1>9. Backed(p)'
  BY <1>3, <1>7, <1>8, NoneAssumption DEF Backed
<1>10. QED BY <1>2, <1>3, <1>7, <1>9, ToldStep DEF Told

LEMMA EarlyTold ==
    ASSUME Told, Growing, NEW p \in Processes, ShowText(p) \/ Refuse(p) \/ Reset(p)
    PROVE  Told'
<1> DEFINE r == run[p]
<1>1. /\ conn' = conn /\ RunTold(r) /\ r.at = "routing" /\ Going(r) /\ r.corpus = None
      /\ r.todo = <<>> /\ r.failed = {} /\ DOMAIN r = RunFields
      /\ json' = json \/ json' = None
  <2>1. conn' = conn /\ r.at = "routing" /\ (json' = json \/ json' = None)
    BY DEF ShowText, Refuse, Reset, Is
  <2>2. RunTold(r)
    BY DEF Told
  <2>3. QED BY <2>1, <2>2, GoingTold DEF RunTold, Ahead
<1>2. PICK s : /\ run' = [run EXCEPT ![p] = s]
               /\ \/ s = [r EXCEPT !.at = "flushing"]
                  \/ s = [r EXCEPT !.at = "leaving"]
                  \/ s = Failed(r, "missing", "leaving")
                  \/ s = Failed(r, "shell", "leaving")
                  \/ s = Failed(r, "delete", "leaving")
  BY DEF ShowText, Refuse, Reset, Update
<1>3. /\ RunTold(s) /\ s.at \in {"flushing", "leaving"} /\ r.failed \subseteq s.failed
      /\ \A f \in RunFields \ {"at", "failed", "exit"} : s[f] = r[f]
  <2>1. ASSUME NEW at \in {"flushing", "leaving"}, s = [r EXCEPT !.at = at]
        PROVE  /\ RunTold(s) /\ s.at = at /\ r.failed \subseteq s.failed
               /\ \A f \in RunFields \ {"at", "failed", "exit"} : s[f] = r[f]
    BY <1>1, <2>1, Moved, MovedTold
  <2>2. ASSUME NEW what \in {"missing", "shell", "delete"}, s = Failed(r, what, "leaving")
        PROVE  /\ RunTold(s) /\ s.at = "leaving" /\ r.failed \subseteq s.failed
               /\ \A f \in RunFields \ {"at", "failed", "exit"} : s[f] = r[f]
    BY <1>1, <2>2, FailedTold
  <2>3. QED BY <1>2, <2>1, <2>2
<1> HIDE DEF r
<1>4. run'[p] = s /\ s.corpus = None /\ s.fresh = r.fresh
  BY <1>1, <1>2, <1>3 DEF Told, RunFields
<1>5. Backed(p)'
  <2>1. conn[p].file = None
    BY <1>1, NoneAssumption DEF Told, Backed, r
  <2>2. QED BY <1>1, <1>4, <2>1, NoneAssumption DEF Backed
<1>6. QED BY <1>1, <1>2, <1>3, <1>4, <1>5, ToldStep DEF Told, r

LEMMA GotoStays ==
    ASSUME OpeningOrder, NEW p \in Processes, NEW at, Goto(p, at)
    PROVE  conn'[p].file = conn[p].file /\ \A q \in Processes \ {p} : conn'[q] = conn[q]
BY OrderGrows DEF Goto, Connection

LEMMA OpenStepStays ==
    ASSUME OpeningOrder, NEW p \in Processes, OpenStep(p)
    PROVE  conn'[p].file = conn[p].file /\ \A q \in Processes \ {p} : conn'[q] = conn[q]
<1>1. conn[p] \in Connection /\ DOMAIN conn = Processes
  BY OrderGrows
<1>2. \/ \E at : Goto(p, at)
      \/ \E n : conn' = [conn EXCEPT ![p].retries = n]
      \/ \E cap : conn' = [conn EXCEPT ![p] = [@ EXCEPT !.at = "open", !.cap = cap]]
  BY DEF OpenStep, CheckVersion, EnableWal, WalBusy, CreateTable, ReadVersion, RecordVersion,
         RecordCap, ReadCap, GiveUp, Goto
<1>3. CASE \E at : Goto(p, at)
  BY <1>3, GotoStays
<1>4. CASE \E n : conn' = [conn EXCEPT ![p].retries = n]
  BY <1>1, <1>4 DEF Connection
<1>5. CASE \E cap : conn' = [conn EXCEPT ![p] = [@ EXCEPT !.at = "open", !.cap = cap]]
  BY <1>1, <1>5 DEF Connection
<1>6. QED BY <1>2, <1>3, <1>4, <1>5

\* A step of a process's connection, or of its file, that its run does not see.
LEMMA RunSame ==
    ASSUME Told, Growing, NEW p \in Processes, run' = run, json' = json,
           conn'[p].file = conn[p].file, \A q \in Processes \ {p} : conn'[q] = conn[q]
    PROVE  Told'
<1>1. run' = [run EXCEPT ![p] = run[p]] /\ RunTold(run[p])
  BY DEF Told
<1>2. QED BY <1>1, GoesOn

\* The corpus a run opened is what its work starts from.
LEMMA OpenedTold ==
    ASSUME Told, Growing, NEW p \in Processes, NEW r, NEW acts, Going(r), Early(r) = "none",
           r.todo = <<>>, r.asked = {}, r.fresh = {},
           run' = [run EXCEPT ![p] = Begin(r, acts)], UNCHANGED <<conn, files, json>>,
           IF conn[p].file = None THEN r.corpus # "db"
           ELSE r.corpus = "db" /\ conn[p].file \in DOMAIN files /\ acts = FileOf(p).acts
    PROVE  Told'
<1> DEFINE s == Begin(r, acts)
<1>1. /\ RunTold(s) /\ s.at \in {"printing", "working", "saving"}
      /\ s.corpus = r.corpus /\ s.fresh = {} /\ s.asked = Range(s.todo)
      /\ Activates(s) /\ s.asked # {} => s.asked = Candidates \ acts
  BY BeginTold
<1> HIDE DEF s
<1>2. run'[p] = s
  BY DEF Told, s
<1>3. \A c : DoneIn(s, c)
  BY <1>1, NothingDone
<1>4. FileOf(p)' = FileOf(p)
  BY DEF FileOf
<1>5. Activates(s) /\ s.asked # {} /\ s.corpus = "db" => Candidates \subseteq FileOf(p)'.acts \union s.asked
  <2>1. s.corpus = "db" => acts = FileOf(p).acts
    BY <1>1
  <2>2. QED BY <1>1, <1>4, <2>1
<1>6. Backed(p)'
  BY <1>1, <1>2, <1>3, <1>5 DEF Backed
<1>7. QED BY <1>1, <1>2, <1>6, ToldStep DEF Told, s

LEMMA OpenAloneTold ==
    ASSUME Told, Growing, NEW p \in Processes, OpenNone(p) \/ OpenJson(p)
    PROVE  Told'
<1> DEFINE r == run[p]
<1>1. /\ UNCHANGED <<conn, files, json>> /\ r.at = "routing" /\ Early(r) = "none"
  BY DEF OpenNone, OpenJson, Is
<1>2. RunTold(r) /\ Going(r) /\ r.corpus = None /\ r.todo = <<>> /\ r.asked = {} /\ r.fresh = {}
  BY <1>1, GoingTold DEF Told, RunTold, Ahead
<1>3. conn[p].file = None
  BY <1>2, NoneAssumption DEF Told, Backed
<1>4. CASE OpenNone(p)
  <2>1. run' = [run EXCEPT ![p] = Begin(r, {})]
    BY <1>4 DEF OpenNone, Update
  <2>2. QED BY <1>1, <1>2, <1>3, <2>1, NoneAssumption, OpenedTold
<1>5. CASE OpenJson(p)
  <2> DEFINE stored == IF json = None THEN NoStore ELSE json
             o == [r EXCEPT !.corpus = "json", !.store = stored]
  <2>1. \/ run' = [run EXCEPT ![p] = Begin(o, stored.acts)]
        \/ run' = [run EXCEPT ![p] = Failed(r, "corpus", "leaving")]
    BY <1>5 DEF OpenJson, Update
  <2>2. DOMAIN stored = {"log", "acts"}
    BY DEF Told, NoStore
  <2> HIDE DEF stored
  <2>3. /\ DOMAIN o = RunFields /\ o.corpus = "json" /\ o.store = stored
        /\ o.opts = r.opts /\ o.args = r.args /\ o.piped = r.piped /\ o.text = r.text
        /\ o.env = r.env /\ o.todo = r.todo /\ o.asked = r.asked /\ o.fresh = r.fresh
        /\ o.failed = r.failed /\ o.exit = r.exit
    BY <1>2 DEF Going, RunFields
  <2> HIDE DEF o
  <2>4. Going(o) /\ Early(o) = "none"
    <3>1. Same(o, r)
      BY <2>3 DEF Same
    <3>2. QED BY <1>1, <1>2, <2>2, <2>3, <3>1, SameCommand DEF Going
  <2>5. CASE run' = [run EXCEPT ![p] = Begin(o, stored.acts)]
    BY <1>1, <1>2, <1>3, <2>3, <2>4, <2>5, OpenedTold
  <2>6. CASE run' = [run EXCEPT ![p] = Failed(r, "corpus", "leaving")]
    <3> DEFINE s == Failed(r, "corpus", "leaving")
    <3>1. /\ RunTold(s) /\ s.failed = {"corpus"} /\ s.at = "leaving"
          /\ \A f \in RunFields \ {"at", "failed"} : s[f] = r[f]
      BY <1>2, FailedTold
    <3> HIDE DEF s, r
    <3>2. s.corpus = r.corpus
      BY <3>1 DEF RunFields
    <3>3. r.failed = {}
      BY <1>2 DEF Going
    <3>4. QED BY <1>1, <1>2, <2>6, <3>1, <3>2, <3>3, NoneAssumption, GoesOn DEF s, r
  <2>7. QED BY <2>1, <2>5, <2>6
<1>6. QED BY <1>4, <1>5

LEMMA OpenSqliteTold ==
    ASSUME OpeningOrder, OpeningOrder', Told, Growing, NEW p \in Processes, OpenSqlite(p)
    PROVE  Told'
<1> DEFINE r == run[p]
           s == [r EXCEPT !.at = "opening", !.corpus = "db"]
<1>1. run' = [run EXCEPT ![p] = s] /\ Connect(p) /\ json' = json /\ r.at = "routing" /\ Early(r) = "none"
  BY DEF OpenSqlite, Update, Is
<1>2. RunTold(r) /\ Going(r) /\ r.todo = <<>> /\ r.asked = {} /\ r.fresh = {} /\ DOMAIN r = RunFields
  BY <1>1, GoingTold DEF Told, RunTold, Ahead
<1>3. conn'[p].at = "checking" /\ \A q \in Processes \ {p} : conn'[q] = conn[q]
  BY <1>1, OrderGrows DEF Connect
<1>4. conn'[p].file \in DOMAIN files'
  BY <1>3 DEF OpeningOrder, Reached
<1>5. /\ DOMAIN s = RunFields /\ s.corpus = "db" /\ s.at = "opening" /\ s.store = r.store
      /\ s.opts = r.opts /\ s.args = r.args /\ s.piped = r.piped /\ s.text = r.text
      /\ s.env = r.env /\ s.todo = r.todo /\ s.asked = r.asked /\ s.fresh = r.fresh
      /\ s.failed = r.failed /\ s.exit = r.exit
  BY <1>2 DEF RunFields
<1> HIDE DEF s
<1>6. Early(s) = "none"
  BY <1>1, <1>5, SameCommand DEF Same
<1>7. RunTold(s)
  BY <1>2, <1>5, <1>6 DEF RunTold, Going, Ahead, Behind
<1>8. run'[p] = s
  BY <1>1 DEF Told
<1>9. \A c : DoneIn(s, c)
  BY <1>2, <1>5, NothingDone
<1>10. conn'[p].file # None
  BY <1>4, Assumed, FilesSequence, OrderGrows DEF OpeningOrder, FilesWhole
<1>11. Backed(p)'
  BY <1>2, <1>4, <1>5, <1>8, <1>9, <1>10 DEF Backed
<1>12. QED BY <1>1, <1>2, <1>3, <1>5, <1>7, <1>11, ToldStep DEF Told

LEMMA OpenFailsTold ==
    ASSUME OpeningOrder, Told, Growing, NEW p \in Processes, OpenFurther(p) \/ OpenFails(p)
    PROVE  Told'
<1>1. run' = run /\ json' = json
  BY DEF OpenFurther, OpenFails
<1>2. conn'[p].file = conn[p].file /\ \A q \in Processes \ {p} : conn'[q] = conn[q]
  BY OpenStepStays, GotoStays DEF OpenFurther, OpenFails
<1>3. QED BY <1>1, <1>2, RunSame

\* A failure sends a run to its end.
LEMMA FailsTold ==
    ASSUME Told, Growing, NEW p \in Processes, UNCHANGED <<conn, json>>,
           run[p].at \in Ahead, NEW what \in {"corpus", "gone", "stdout"}, NEW at \in {"saving", "leaving"},
           run[p].corpus = "json" => at = "saving",
           run' = [run EXCEPT ![p] = Failed(run[p], what, at)]
    PROVE  Told'
<1> DEFINE r == run[p]
           s == Failed(r, what, at)
<1>1. Going(r)
  BY GoingTold DEF Told
<1>2. /\ RunTold(s) /\ s.failed = {what} /\ s.at = at
      /\ \A f \in RunFields \ {"at", "failed"} : s[f] = r[f]
  BY <1>1, FailedTold
<1> HIDE DEF s
<1>3. s.corpus = r.corpus
  BY <1>2 DEF RunFields
<1>4. r.failed = {} /\ r.at # "dead"
  BY <1>1 DEF Going, Ahead
<1>5. s.corpus = "json" => InMemory(s) /\ InMemory(r)
  BY <1>2, <1>3 DEF InMemory
<1>6. QED BY <1>2, <1>4, <1>5, GoesOn DEF s

LEMMA AheadTold ==
    ASSUME OpeningOrder, Told, Growing, NEW p \in Processes, Opened(p) \/ WorkFails(p) \/ PrintOut(p)
    PROVE  Told'
<1> DEFINE r == run[p]
<1>1. UNCHANGED <<conn, json>> /\ r.at \in Ahead /\ RunTold(r)
  BY DEF Opened, WorkFails, PrintOut, Is, Ahead, Told
<1>2. CASE Opened(p) /\ At(p, "open")
  <2>1. /\ run' = [run EXCEPT ![p] = Begin(r, FileOf(p).acts)] /\ r.at = "opening"
        /\ UNCHANGED <<conn, files, json>>
    BY <1>2 DEF Opened, At, Update, Is
  <2>2. Going(r) /\ Early(r) = "none" /\ r.todo = <<>> /\ r.asked = {} /\ r.fresh = {} /\ r.corpus = "db"
    BY <1>1, <2>1, GoingTold DEF RunTold
  <2>3. conn[p].file # None /\ conn[p].file \in DOMAIN files
    BY <2>1, <2>2 DEF Told, Backed
  <2>4. QED BY <2>1, <2>2, <2>3, OpenedTold
<1>3. CASE Opened(p) /\ At(p, "failed")
  <2>1. run' = [run EXCEPT ![p] = Failed(r, "corpus", "leaving")] /\ r.at = "opening"
    BY <1>3 DEF Opened, At, Update, Is
  <2>2. r.corpus = "db"
    BY <1>1, <2>1 DEF RunTold
  <2>3. QED BY <1>1, <2>1, <2>2, FailsTold
<1>4. CASE WorkFails(p)
  BY <1>1, <1>4, FailsTold DEF WorkFails, Update
<1>5. CASE PrintOut(p)
  <2>1. PICK outcome \in {"ok", "gone", "stdout"} :
          run' = [run EXCEPT ![p] =
                    IF outcome # "ok" THEN Failed(r, outcome, "saving")
                    ELSE [r EXCEPT !.at = IF r.todo = <<>> THEN "saving" ELSE "working"]]
    BY <1>5 DEF PrintOut, Update
  <2>2. CASE outcome # "ok"
    BY <1>1, <2>1, <2>2, FailsTold
  <2>3. CASE outcome = "ok"
    <3> DEFINE to == IF r.todo = <<>> THEN "saving" ELSE "working"
               s == [r EXCEPT !.at = to]
    <3>0. to \in {"saving", "working"} /\ (to = "saving" <=> r.todo = <<>>)
      OBVIOUS
    <3> HIDE DEF to
    <3>1. RunTold(s)
      BY <1>1, <3>0, MovedTold DEF Ahead, Behind
    <3>2. s.at = to /\ \A f \in RunFields \ {"at"} : s[f] = r[f]
      BY <1>1, Moved DEF RunTold
    <3>3. run' = [run EXCEPT ![p] = s]
      BY <2>1, <2>3 DEF to
    <3> HIDE DEF s
    <3>4. s.failed = r.failed /\ InMemory(s) /\ InMemory(r) /\ r.at # "dead"
      BY <1>1, <3>0, <3>2 DEF RunFields, InMemory, Ahead
    <3>5. QED BY <1>1, <3>1, <3>2, <3>3, <3>4, GoesOn
  <2>4. QED BY <2>2, <2>3
<1>6. QED BY <1>2, <1>3, <1>4, <1>5 DEF Opened

LEMMA WorkInMemoryTold ==
    ASSUME Told, Growing, NEW p \in Processes, WorkInMemory(p)
    PROVE  Told'
<1> DEFINE r == run[p]
<1>1. /\ UNCHANGED <<conn, json, files>> /\ r.at = "working" /\ r.corpus # "db"
      /\ RunTold(r) /\ Going(r) /\ Backed(p)
  BY GoingTold DEF WorkInMemory, Is, Ahead, Told
<1>2. conn[p].file = None
  BY <1>1 DEF Backed
<1>3. PICK k \in 0..Len(r.todo) :
        run' = [run EXCEPT ![p] = [Advance(p, r.store, k) EXCEPT !.store = Done(p, @, k)]]
  <2>1. Len(r.todo) \in Nat
    BY <1>1 DEF Going, IsSeq
  <2>2. PICK k \in IF Streams(r) THEN 1..Len(r.todo) ELSE {Len(r.todo)} :
          run' = [run EXCEPT ![p] = [Advance(p, r.store, k) EXCEPT !.store = Done(p, @, k)]]
    BY DEF WorkInMemory, Update
  <2>3. k \in 0..Len(r.todo)
    BY <2>1, <2>2
  <2>4. QED BY <2>2, <2>3
<1> DEFINE a == Advance(p, r.store, k)
           d == Done(p, r.store, k)
           s == [a EXCEPT !.store = d]
<1>4. /\ RunTold(a) /\ Same(a, r) /\ a.at \in {"printing", "working"}
      /\ a.corpus = r.corpus /\ a.store = r.store /\ a.id = r.id /\ a.asked = r.asked
      /\ Range(r.todo) = {r.todo[i] : i \in 1..k} \union Range(a.todo)
  BY <1>1, AdvanceTold
<1>5. s = [a EXCEPT !.store = Done(p, a.store, k)] /\ run' = [run EXCEPT ![p] = s]
  BY <1>3, <1>4
<1> HIDE DEF a
<1>6. /\ DOMAIN d = {"log", "acts"}
      /\ r.corpus # None => DoneIn(a, d)
  <2>1. DOMAIN r.store = {"log", "acts"}
    BY <1>1 DEF Going
  <2>2. r.corpus # None => DoneIn(r, r.store)
    <3>1. "save" \notin r.failed /\ r.at # "dead"
      BY <1>1 DEF Going
    <3>2. r.corpus # "db" => Where(r, FileOf(p)) = r.store
      BY <1>1 DEF Where, Ahead
    <3>3. QED BY <1>1, <3>1, <3>2 DEF Backed
  <2>3. r.corpus # None => DoneIn(a, d)
    BY <1>4, <2>1, <2>2, DoneAdvance
  <2>4. DOMAIN d = {"log", "acts"}
    BY <2>1, DoneDomain
  <2>5. QED BY <2>3, <2>4
<1> HIDE DEF d
<1>7. /\ DOMAIN s = RunFields /\ s.store = d /\ s.todo = a.todo /\ s.text = a.text
      /\ s.corpus = a.corpus /\ s.at = a.at /\ s.asked = a.asked /\ s.id = a.id
      /\ s.failed = a.failed /\ s.exit = a.exit /\ s.opts = a.opts /\ s.args = a.args
      /\ s.piped = a.piped /\ s.env = a.env /\ s.fresh = a.fresh
  BY <1>4 DEF RunTold, RunFields
<1> HIDE DEF s
<1>8. RunTold(s)
  BY <1>4, <1>6, <1>7 DEF RunTold, Ahead, Behind
<1>9. run'[p] = s
  BY <1>5 DEF Told
<1>10. r.corpus # None => DoneIn(s, d)
  BY <1>6, <1>7, DoneSame DEF Same
<1>11. Where(s, FileOf(p)') = d
  BY <1>1, <1>4, <1>7 DEF Where, Ahead
<1>12. Backed(p)'
  BY <1>1, <1>2, <1>4, <1>7, <1>9, <1>10, <1>11 DEF Backed
<1>13. QED BY <1>1, <1>2, <1>5, <1>8, <1>12, ToldStep DEF Told

LEMMA CommitTold ==
    ASSUME OpeningOrder, Told, Growing, NEW p \in Processes, Commit(p)
    PROVE  Told'
<1> DEFINE r == run[p]
           f == FileOf(p)
<1>1. /\ UNCHANGED <<conn, json>> /\ r.at = "working" /\ r.corpus = "db"
      /\ RunTold(r) /\ Going(r) /\ Backed(p)
  BY GoingTold DEF Commit, Is, Ahead, Told
<1>2. conn[p].file # None /\ conn[p].file \in DOMAIN files /\ r.fresh \subseteq f.acts /\ r.failed = {}
  BY <1>1 DEF Backed, Going
<1>3. PICK k \in 1..(IF Activates(r) THEN 1 ELSE Len(r.todo)) :
        /\ Written(p, [Done(p, f, k) EXCEPT !.holder = None])
        /\ run' = [run EXCEPT ![p] = Advance(p, f, k)]
  BY DEF Commit, Update
<1>4. k \in 0..Len(r.todo)
  <2>1. r.todo # <<>> /\ IsSeq(r.todo)
    BY <1>1 DEF RunTold
  <2>2. Len(r.todo) \in Nat /\ Len(r.todo) # 0
    BY <2>1 DEF IsSeq
  <2>3. QED BY <1>3, <2>2
<1> DEFINE s == Advance(p, f, k)
           d == Done(p, f, k)
           g == [d EXCEPT !.holder = None]
           units == {r.todo[i] : i \in 1..k}
<1>5. /\ RunTold(s) /\ Same(s, r) /\ s.at \in {"printing", "working"}
      /\ s.corpus = r.corpus /\ s.id = r.id /\ s.asked = r.asked
      /\ Range(r.todo) = units \union Range(s.todo)
      /\ s.fresh = IF Activates(r) THEN r.fresh \union (units \ f.acts) ELSE r.fresh
  BY <1>1, <1>4, AdvanceTold
<1>6. {"log", "acts", "holder"} \subseteq DOMAIN f
  <2>1. Fields(f)
    BY <1>2, OrderGrows DEF FilesWhole, FileRecord, FileOf
  <2> HIDE DEF f
  <2>2. QED BY <2>1 DEF Fields, File
<1>7. /\ DoneIn(s, d) /\ DOMAIN d = DOMAIN f /\ f.acts \subseteq d.acts
      /\ Activates(r) => d.acts = f.acts \union units
  <2>1. DoneIn(r, f)
    BY <1>1, <1>2, NoneAssumption DEF Backed, Where
  <2>2. QED BY <1>5, <1>6, <2>1, DoneAdvance
<1>8. g.acts = d.acts /\ g.log = d.log
  <2> HIDE DEF d
  <2>1. QED BY <1>6, <1>7
<1>9. FileOf(p)' = g
  BY <1>1, <1>2, <1>3 DEF Written, FileOf
<1>10. run' = [run EXCEPT ![p] = s]
  BY <1>3
<1> HIDE DEF s, d, g
<1>11. run'[p] = s
  BY <1>10 DEF Told
<1>12. DoneIn(s, g)
  BY <1>7, <1>8, DoneMore
<1>13. s.fresh \subseteq g.acts
  BY <1>2, <1>5, <1>7, <1>8
<1>14. Activates(s) /\ s.asked # {} => Candidates \subseteq g.acts \union s.asked
  <2>1. Activates(s) <=> Activates(r)
    BY <1>5, SameCommand
  <2>2. Activates(r) /\ r.asked # {} => Candidates \subseteq f.acts \union r.asked
    BY <1>1 DEF Backed
  <2>3. QED BY <1>5, <1>7, <1>8, <2>1, <2>2
<1>15. conn[p].file \in DOMAIN files'
  BY <1>2, <1>3 DEF Written
<1>16. Backed(p)'
  BY <1>1, <1>2, <1>5, <1>9, <1>11, <1>12, <1>13, <1>14, <1>15 DEF Backed, Where
<1>17. s.fresh \intersect f.acts \subseteq r.fresh
  BY <1>5
<1>18. QED BY <1>1, <1>2, <1>5, <1>10, <1>16, <1>17, ToldStep DEF Told, f

LEMMA SaveTold ==
    ASSUME Told, Growing, NEW p \in Processes, Save(p)
    PROVE  Told'
<1> DEFINE r == run[p]
<1>1. UNCHANGED <<conn, files>> /\ r.at = "saving" /\ RunTold(r) /\ Backed(p)
  BY DEF Save, Is, Told
<1>2. PICK ok \in BOOLEAN :
        /\ ~ok => Saves(r)
        /\ json' = IF ok /\ Saves(r) THEN r.store ELSE json
        /\ run' = [run EXCEPT ![p] =
                     IF ~ok THEN Failed(r, "save", "leaving")
                     ELSE [r EXCEPT !.at = "flushing", !.saved = IF Saves(r) THEN r.store ELSE @]]
  BY DEF Save, Update
<1> DEFINE s == [r EXCEPT !.at = "flushing", !.saved = IF Saves(r) THEN r.store ELSE @]
           t == [r EXCEPT !.failed = @ \union {"save"}, !.at = "leaving"]
<1>3. json' = None \/ DOMAIN json' = {"log", "acts"}
  BY <1>1, <1>2 DEF Told, RunTold
<1>4. DOMAIN r = RunFields
  BY <1>1 DEF RunTold
<1>5. CASE ok
  <2>1. run' = [run EXCEPT ![p] = s]
    BY <1>2, <1>5
  <2>2. /\ DOMAIN s = RunFields /\ s.at = "flushing" /\ s.saved = IF Saves(r) THEN r.store ELSE r.saved
        /\ \A f \in RunFields \ {"at", "saved"} : s[f] = r[f]
    BY <1>4 DEF RunFields
  <2> HIDE DEF s
  <2>3. /\ s.todo = r.todo /\ s.text = r.text /\ s.corpus = r.corpus /\ s.store = r.store
        /\ s.failed = r.failed /\ s.exit = r.exit /\ s.asked = r.asked /\ s.fresh = r.fresh
        /\ s.id = r.id /\ Same(s, r)
    BY <2>2 DEF RunFields, Same
  <2>4. RunTold(s)
    BY <1>1, <2>2, <2>3 DEF RunTold, Ahead, Behind
  <2>5. run'[p] = s
    BY <2>1 DEF Told
  <2>6. FileOf(p)' = FileOf(p) /\ (Activates(s) <=> Activates(r))
    BY <1>1, <2>3, SameCommand DEF FileOf
  <2>7. s.corpus # None => Where(s, FileOf(p)) = Where(r, FileOf(p))
    <3>1. CASE r.corpus = "db"
      BY <2>3, <3>1 DEF Where
    <3>2. CASE r.corpus = "json"
      BY <1>1, <2>2, <2>3, <3>2 DEF Where, Saves, Ahead
    <3>3. QED BY <1>1, <2>3, <3>1, <3>2 DEF RunTold
  <2>8. s.corpus # None /\ "save" \notin s.failed => DoneIn(s, Where(s, FileOf(p)))
    <3>1. s.corpus # None /\ "save" \notin s.failed => DoneIn(r, Where(r, FileOf(p)))
      BY <1>1, <2>3 DEF Backed
    <3>2. Same(r, s)
      BY <2>3 DEF Same
    <3>3. QED BY <2>3, <2>7, <3>1, <3>2, DoneSame
  <2>9. Backed(p)'
    BY <1>1, <2>2, <2>3, <2>5, <2>6, <2>8 DEF Backed
  <2>10. QED BY <1>1, <1>3, <2>1, <2>3, <2>4, <2>9, ToldStep
<1>6. CASE ~ok
  <2>1. run' = [run EXCEPT ![p] = t] /\ json' = json
    BY <1>2, <1>6 DEF Failed
  <2>2. /\ DOMAIN t = RunFields /\ t.at = "leaving" /\ t.failed = r.failed \union {"save"}
        /\ \A f \in RunFields \ {"at", "failed"} : t[f] = r[f]
    BY <1>4 DEF RunFields
  <2> HIDE DEF t
  <2>3. /\ t.todo = r.todo /\ t.text = r.text /\ t.corpus = r.corpus /\ t.store = r.store
        /\ t.exit = r.exit /\ t.asked = r.asked /\ t.fresh = r.fresh /\ t.id = r.id /\ Same(t, r)
        /\ t.saved = r.saved
    BY <2>2 DEF RunFields, Same
  <2>4. RunTold(t)
    BY <1>1, <2>2, <2>3 DEF RunTold, Ahead, Behind
  <2>5. run'[p] = t
    BY <2>1 DEF Told
  <2>6. FileOf(p)' = FileOf(p) /\ (Activates(t) <=> Activates(r))
    BY <1>1, <2>3, SameCommand DEF FileOf
  <2>7. Backed(p)'
    BY <1>1, <2>2, <2>3, <2>5, <2>6 DEF Backed
  <2>8. QED BY <1>1, <1>3, <2>1, <2>3, <2>4, <2>7, ToldStep
<1>7. QED BY <1>5, <1>6

LEMMA FlushTold ==
    ASSUME Told, Growing, NEW p \in Processes, Flush(p)
    PROVE  Told'
<1> DEFINE r == run[p]
<1>1. UNCHANGED <<conn, json>> /\ r.at = "flushing" /\ RunTold(r) /\ DOMAIN r = RunFields
  BY DEF Flush, Is, Told, RunTold
<1>2. PICK outcome \in {"ok", "gone", "stdout"} :
        /\ outcome # "ok" => r.failed = {}
        /\ run' = [run EXCEPT ![p] = IF outcome = "ok" THEN [r EXCEPT !.at = "leaving"]
                                     ELSE Failed(r, outcome, "leaving")]
  BY DEF Flush, Update
<1>3. CASE outcome = "ok"
  <2> DEFINE s == [r EXCEPT !.at = "leaving"]
  <2>1. RunTold(s) /\ s.at = "leaving" /\ \A f \in RunFields \ {"at"} : s[f] = r[f]
    <3>1. "flushing" \in Behind
      BY DEF Behind
    <3>2. r.failed \subseteq {"delete"} => r.todo = <<>>
      BY <1>1, <3>1 DEF RunTold
    <3>3. RunTold(s)
      BY <1>1, <3>2, MovedTold
    <3>4. QED BY <1>1, <3>3, Moved
  <2>2. run' = [run EXCEPT ![p] = s]
    BY <1>2, <1>3
  <2> HIDE DEF s
  <2>3. s.failed = r.failed /\ ~InMemory(s) /\ ~InMemory(r)
    BY <1>1, <2>1 DEF RunFields, InMemory, Ahead
  <2>4. QED BY <1>1, <2>1, <2>2, <2>3, GoesOn
<1>4. CASE outcome # "ok"
  <2> DEFINE s == Failed(r, outcome, "leaving")
  <2>1. Going(r)
    BY <1>1, <1>2, <1>4 DEF RunTold, Going
  <2>2. /\ RunTold(s) /\ s.at = "leaving" /\ s.failed = {outcome}
        /\ \A f \in RunFields \ {"at", "failed"} : s[f] = r[f]
    BY <1>4, <2>1, FailedTold
  <2>3. run' = [run EXCEPT ![p] = s]
    BY <1>2, <1>4
  <2> HIDE DEF s
  <2>4. r.failed \subseteq s.failed /\ ~InMemory(s) /\ ~InMemory(r)
    BY <1>1, <2>1, <2>2 DEF Going, InMemory, Ahead
  <2>5. QED BY <1>1, <2>2, <2>3, <2>4, GoesOn
<1>5. QED BY <1>3, <1>4

LEMMA LeaveTold ==
    ASSUME OpeningOrder, Told, Growing, NEW p \in Processes, Leave(p)
    PROVE  Told'
<1> DEFINE r == run[p]
           s == [r EXCEPT !.at = "exited", !.exit = Status(r)]
<1>1. json' = json /\ r.at = "leaving" /\ RunTold(r) /\ run' = [run EXCEPT ![p] = s]
  BY DEF Leave, Is, Told, Update
<1>2. conn'[p].file = conn[p].file /\ \A q \in Processes \ {p} : conn'[q] = conn[q]
  BY GotoStays DEF Leave
<1>3. /\ DOMAIN s = RunFields /\ s.at = "exited" /\ s.exit = Status(r)
      /\ \A f \in RunFields \ {"at", "exit"} : s[f] = r[f]
  BY <1>1 DEF RunTold, RunFields
<1> HIDE DEF s
<1>4. /\ s.todo = r.todo /\ s.text = r.text /\ s.corpus = r.corpus /\ s.store = r.store
      /\ s.failed = r.failed
  BY <1>3 DEF RunFields
<1>5. Status(s) = Status(r)
  BY <1>4 DEF Status
<1>6. RunTold(s)
  BY <1>1, <1>3, <1>4, <1>5 DEF RunTold, Ahead, Behind
<1>7. ~InMemory(s) /\ ~InMemory(r)
  BY <1>1, <1>3 DEF InMemory, Ahead
<1>8. QED BY <1>1, <1>2, <1>3, <1>4, <1>6, <1>7, GoesOn

LEMMA CrashTold ==
    ASSUME OpeningOrder, Told, Growing, NEW p \in Processes, Crash(p)
    PROVE  Told'
<1> DEFINE r == run[p]
           s == [r EXCEPT !.at = "dead"]
<1>1. json' = json /\ r.at # "exited" /\ RunTold(r) /\ run' = [run EXCEPT ![p] = s]
  BY DEF Crash, Told, Update
<1>2. conn'[p].file = None /\ \A q \in Processes \ {p} : conn'[q] = conn[q]
  BY OrderGrows DEF Crash, Closed
<1>3. RunTold(s) /\ s.at = "dead"
  <2>1. DOMAIN r = RunFields
    BY <1>1 DEF RunTold
  <2>2. s.at = "dead"
    BY <2>1, Moved
  <2>3. RunTold(s)
    BY <1>1, MovedTold DEF Behind
  <2>4. QED BY <2>2, <2>3
<1> HIDE DEF s
<1>4. run'[p] = s
  BY <1>1 DEF Told
<1>5. Backed(p)'
  BY <1>2, <1>3, <1>4 DEF Backed
<1>6. QED BY <1>1, <1>2, <1>3, <1>5, ToldStep DEF Told

LEMMA ToldNext == OpeningOrder /\ Told /\ [Next]_vars => Told'
<1> SUFFICES ASSUME OpeningOrder, Told, [Next]_vars PROVE Told'
  OBVIOUS
<1>1. OpeningOrder' /\ Growing
  BY NextKept DEF OrderKept
<1>2. CASE UNCHANGED vars
  BY <1>2 DEF vars, Told, Backed, FreshApart, FileOf
<1>3. ASSUME NEW p \in Processes,
             Start(p) \/ ShowText(p) \/ Refuse(p) \/ Reset(p) \/ OpenNone(p) \/ OpenJson(p)
             \/ OpenSqlite(p) \/ OpenFurther(p) \/ OpenFails(p) \/ Opened(p)
      PROVE  Told'
  BY <1>1, <1>3, StartTold, EarlyTold, OpenAloneTold, OpenSqliteTold, OpenFailsTold, AheadTold
<1>4. ASSUME NEW p \in Processes, TakeLock(p) PROVE Told'
  BY <1>1, <1>4, RunSame DEF TakeLock
<1>5. ASSUME NEW p \in Processes,
             WorkInMemory(p) \/ Commit(p) \/ WorkFails(p) \/ PrintOut(p) \/ Save(p) \/ Flush(p)
             \/ Leave(p) \/ Crash(p)
      PROVE  Told'
  BY <1>1, <1>5, WorkInMemoryTold, CommitTold, AheadTold, SaveTold, FlushTold, LeaveTold, CrashTold
<1>6. QED BY <1>2, <1>3, <1>4, <1>5 DEF Next

LEMMA ToldInit == Init => Told
<1> SUFFICES ASSUME Init PROVE Told
  OBVIOUS
<1>1. run = [p \in Processes |-> NoRun] /\ conn = [p \in Processes |-> Closed] /\ json = None
  BY DEF Init, OpeningInit
<1>2. \A p \in Processes : conn[p].file = None
  BY <1>1 DEF Closed
<1>3. \A p \in Processes : RunTold(run[p]) /\ Backed(p)
  BY <1>1, <1>2, NoRunTold, NoneAssumption DEF Backed
<1>4. FreshApart
  BY <1>2 DEF FreshApart
<1>5. QED BY <1>1, <1>3, <1>4 DEF Told

LEMMA ToldAlways == Spec => [](OpeningOrder /\ Told)
<1>1. OpeningOrder /\ Told /\ [Next]_vars => (OpeningOrder /\ Told)'
  BY ToldNext, NextKept DEF OrderKept
<1>2. QED BY <1>1, OrderInit, ToldInit, PTL DEF Spec

-----------------------------------------------------------------------------
(* Theorems. *)

\* However many processes open the corpus at once, die half way or delete it, one
\* that has it open has it in WAL mode, with every table and a version, and none
\* that its build is too old for (storage_sqlite.rs `open`).
THEOREM OpenedAlwaysUsable == Spec => []OpenedUsable
<1>1. OpeningOrder => OpenedUsable
  BY DEF OpeningOrder, OpenedUsable, Reached, FilesWhole, FileRecord, FileOf, Tables, At,
         AfterCheck, AfterMeta, AfterTables, AfterVersion
<1>2. QED BY <1>1, OrderAlways, PTL

\* The version and the cap first recorded in a file stay, whatever processes, builds
\* and caps race to record theirs (storage_sqlite.rs `open`).
THEOREM FirstRecordsStay == Spec => FirstRecordStays
<1>1. OpeningOrder /\ [Next]_vars =>
        [\A f \in DOMAIN files :
            /\ files[f].version # None => files'[f].version = files[f].version
            /\ files[f].cap # None => files'[f].cap = files[f].cap]_openingVars
  BY NextKept DEF OrderKept, Growing, Grown
<1>2. QED BY <1>1, OrderAlways, PTL DEF Spec, FirstRecordStays

-----------------------------------------------------------------------------
(* The exit status, and the news of an activation. *)

LEMMA StatusTells ==
    ASSUME NEW r, RunTold(r), r.at = "exited"
    PROVE  /\ r.exit = 0 => r.failed \subseteq {"delete"} /\ r.todo = <<>>
           /\ r.exit = 141 => r.failed = {"gone"}
           /\ r.exit = 2 => r.failed = {"parse"}
           /\ r.exit \in {0, 141} => "save" \notin r.failed
<1>1. r.exit = Status(r) /\ ("save" \in r.failed \/ \E what : r.failed \subseteq {what})
  BY DEF RunTold
<1>2. r.exit = 0 => r.failed \subseteq {"delete"}
  BY <1>1 DEF Status
<1>3. r.exit = 141 => "save" \notin r.failed /\ "gone" \in r.failed
  BY <1>1 DEF Status
<1>4. r.exit = 2 => "save" \notin r.failed /\ "parse" \in r.failed
  BY <1>1 DEF Status
<1>5. r.exit = 0 => r.todo = <<>>
  BY <1>2 DEF RunTold, Behind
<1>6. QED BY <1>1, <1>2, <1>3, <1>4, <1>5

\* A run that says all is well did what it was asked, and its corpus has it; one
\* that says its reader went away kept what it read; and one refused for its
\* arguments opened nothing (main.rs `run`, `finish`).
THEOREM ExitStatusTells == Spec => []ExitTells
<1>1. Told => ExitTells
  <2> SUFFICES ASSUME Told, NEW p \in Processes, run[p].at = "exited"
               PROVE  /\ run[p].exit = 0 => run[p].failed \subseteq {"delete"} /\ run[p].todo = <<>>
                      /\ run[p].exit = 141 => run[p].failed = {"gone"}
                      /\ run[p].exit = 2 => run[p].failed = {"parse"}
                      /\ run[p].exit \in {0, 141} => Keeps(p)
                      /\ run[p].failed \intersect {"option", "missing", "shell"} # {} =>
                            run[p].corpus = None
    BY DEF ExitTells
  <2>1. RunTold(run[p]) /\ Backed(p)
    BY DEF Told
  <2>2. ASSUME run[p].exit \in {0, 141} PROVE Keeps(p)
    <3>1. run[p].corpus # None => DoneIn(run[p], Where(run[p], FileOf(p)))
      BY <2>1, <2>2, StatusTells DEF Backed
    <3>2. Where(run[p], FileOf(p)) = Kept(p)
      BY DEF Where, Kept, Ahead
    <3>3. QED BY <3>1, <3>2 DEF Keeps, DoneIn, Activates
  <2>3. QED BY <2>1, <2>2, StatusTells DEF RunTold
<1>2. QED BY <1>1, ToldAlways, PTL

\* An activation that a run says succeeded left every proposal it selected stored,
\* and none is told by two runs (corpus.rs `activate_proposed_recognizers`).
THEOREM ActivationsToldOnce == Spec => []ActivationsTold
<1>1. Told => ActivationsTold
  <2> SUFFICES ASSUME Told PROVE ActivationsTold
    OBVIOUS
  <2>1. ASSUME NEW p \in Processes, run[p].exit = 0, Activates(run[p]), run[p].asked # {},
               run[p].corpus = "db"
        PROVE  Candidates \subseteq FileOf(p).acts
    <3> DEFINE r == run[p]
    <3>1. RunTold(r) /\ Backed(p)
      BY DEF Told
    <3>2. r.at = "exited"
      BY <2>1, <3>1, Assumed DEF RunTold
    <3>3. r.todo = <<>> /\ "save" \notin r.failed
      BY <2>1, <3>1, <3>2, StatusTells
    <3>4. DoneIn(r, FileOf(p))
      BY <2>1, <3>1, <3>2, <3>3, NoneAssumption DEF Backed, Where
    <3>5. r.asked \subseteq FileOf(p).acts
      BY <2>1, <3>3, <3>4, ShortSeqs DEF DoneIn, Activates
    <3>6. Candidates \subseteq FileOf(p).acts \union r.asked
      BY <2>1, <3>1, <3>2 DEF Backed
    <3>7. QED BY <3>5, <3>6
  <2>2. QED BY <2>1 DEF ActivationsTold, Told, FreshApart
<1>2. QED BY <1>1, ToldAlways, PTL
=============================================================================
