----------------------------- MODULE SqliteViews -----------------------------
(***************************************************************************)
(* The views of MemoryViews kept in the tables of a SQLite corpus, one     *)
(* upsert at a time, and read back row by row.  Read through one           *)
(* connection that nothing else writes meanwhile, the tables are the views *)
(* memory would hold.  Transactions and rebuilds are Corpus, remembered    *)
(* cardinalities ValueCap.                                                 *)
(*                                                                         *)
(* A table is a function from its primary key; the two that are read in    *)
(* insertion order hold their rowid or `ord`.                              *)
(***************************************************************************)
EXTENDS Keyed, Identifiers

\* As in MemoryViews.
CONSTANTS Inputs, Readable, Recognizers, MaxValues, MaxExamples, MaxLog

ASSUME CapsAssumption == {MaxValues, MaxExamples} \subseteq Nat \ {0} /\ MaxLog \in Nat
ASSUME InputsAssumption == Inputs \union Readable \subseteq Seq(STRING)

VARIABLES
    db,    \* the tables of the derived views
    log,   \* observed_iris, in the order of its id
    acts,  \* activated_recognizers
    read   \* the identifier last read for its own sake, or Error

vars == <<db, log, acts, read>>

-----------------------------------------------------------------------------
(* Tables. *)

NoRows == [k \in {} |-> 0]

EmptyTables ==
    [host_counts |-> NoRows, path_length_counts |-> NoRows,
     raw_shape_counts |-> NoRows, fingerprint_counts |-> NoRows,
     position_stats |-> NoRows, position_types |-> NoRows, position_values |-> NoRows,
     clusters |-> NoRows, cluster_examples |-> NoRows, cluster_segments |-> NoRows,
     cluster_params |-> NoRows, cluster_param_types |-> NoRows,
     cluster_param_values |-> NoRows]

\* INSERT ... ON CONFLICT DO UPDATE SET count = count + 1.
UpsertCount(table, k) == Increment(table, k)

\* The rows of a table about `k`, by the rest of their primary key.
Where(table, k) ==
    LET rows == {row \in DOMAIN table : row[1] = k}
    IN  [v \in {row[2] : row \in rows} |-> table[<<k, v>>]]

\* Mutant: the cap counts the rows of every slot.
ObserveValueAnyRow(table, k, v) ==
    IF <<k, v>> \in DOMAIN table \/ Cardinality(DOMAIN table) < MaxValues
    THEN UpsertCount(table, <<k, v>>) ELSE table

\* UPDATE the value's row; with none, INSERT below the cap.
ObserveValue(table, k, v) ==
    IF <<k, v>> \in DOMAIN table \/ Cardinality(DOMAIN Where(table, k)) < MaxValues
    THEN UpsertCount(table, <<k, v>>) ELSE table

-----------------------------------------------------------------------------
(* Writing one event each. *)

\* A row keeps the rowid of its INSERT.
ObservePosition(d, p) ==
    LET known == p.at \in DOMAIN d.position_stats
        row == IF known THEN d.position_stats[p.at]
               ELSE [total |-> 0, rowid |-> Cardinality(DOMAIN d.position_stats) + 1]
    IN  [d EXCEPT !.position_stats = With(@, p.at, [row EXCEPT !.total = @ + 1]),
                  !.position_types = UpsertCount(@, <<p.at, p.type>>),
                  !.position_values = ObserveValue(@, p.at, p.value)]

ObservePositions(d, seen) == FoldLeft(ObservePosition, d, seen)

NextOrd(d) == Max({d.clusters[k].ord : k \in DOMAIN d.clusters} \union {0}) + 1

BumpCluster(d, k) ==
    IF k.key \in DOMAIN d.clusters
    THEN [d EXCEPT !.clusters[k.key].count = @ + 1]
    ELSE [d EXCEPT !.clusters =
              With(@, k.key, [host |-> k.host, scheme |-> k.scheme, shape |-> k.shape,
                              count |-> 1, ord |-> NextOrd(d)])]

\* An example's position is how many there were.
InsertExample(d, key, iri) ==
    LET held == Where(d.cluster_examples, key)
    IN  IF Cardinality(DOMAIN held) < MaxExamples /\ Canonical(iri) \notin DOMAIN held
        THEN [d EXCEPT !.cluster_examples =
                  With(@, <<key, Canonical(iri)>>, Cardinality(DOMAIN held))]
        ELSE d

ObserveParam(d, key, p) ==
    LET slot == <<key, p.key>>
        v == ParamValue(p)
    IN  [d EXCEPT !.cluster_params = UpsertCount(@, slot),
                  !.cluster_param_types = UpsertCount(@, <<slot, TypeOf(v)>>),
                  !.cluster_param_values = ObserveValue(@, slot, v)]

CountSegments(table, key, segments) ==
    FoldLeft(LAMBDA t, i : UpsertCount(t, <<key, <<i, segments[i]>>>>),
             table, [i \in DOMAIN segments |-> i])

ObserveParams(d, key, params) == FoldLeft(LAMBDA t, p : ObserveParam(t, key, p), d, params)

AddToCluster(d, k, iri) ==
    LET counted == InsertExample(BumpCluster(d, k), k.key, iri)
        placed == [counted EXCEPT !.cluster_segments = CountSegments(@, k.key, iri.segments)]
    IN  ObserveParams(placed, k.key, iri.params)

Apply(d, e) ==
    LET counted == [d EXCEPT !.host_counts = UpsertCount(@, e.host),
                             !.path_length_counts = UpsertCount(@, e.length),
                             !.raw_shape_counts = UpsertCount(@, e.raw_shape),
                             !.fingerprint_counts = UpsertCount(@, e.fingerprint)]
    IN  AddToCluster(ObservePositions(counted, e.positions), e.cluster, e.iri)

Replayed(entries, recognizers) ==
    FoldLeft(LAMBDA d, c : Apply(d, EventsUnder(Parse(c), recognizers)), EmptyTables, entries)

-----------------------------------------------------------------------------
(* Reading. *)

LoadStats(total, types, values) == [total |-> total, types |-> types, values |-> values]

\* `each_position_stats`.
LoadPositions ==
    LET keys == InOrder([k \in DOMAIN db.position_stats |-> db.position_stats[k].rowid])
    IN  [i \in DOMAIN keys |->
            [key |-> keys[i],
             stats |-> LoadStats(db.position_stats[keys[i]].total,
                                 Where(db.position_types, keys[i]),
                                 Where(db.position_values, keys[i]))]]

LoadSegments(rows) ==
    LET At(i) == {row \in DOMAIN rows : row[1] = i}
    IN  [i \in 1..Max({row[1] : row \in DOMAIN rows} \union {0}) |->
            [v \in {row[2] : row \in At(i)} |-> rows[<<i, v>>]]]

\* What the canonical form of each input parses to.
Parsed ==
    [c \in {Canonical(Parse(input)) : input \in {i \in Inputs : Parse(i) # Error}} |-> Parse(c)]

LoadExamples(rows) ==
    LET parsing == {c \in DOMAIN rows : Parsed[c] # Error}
        canonicals == InOrder([c \in parsing |-> rows[c]])
    IN  [i \in DOMAIN canonicals |-> Parsed[canonicals[i]]]

LoadCluster(key) ==
    LET row == db.clusters[key]
        totals == Where(db.cluster_params, key)
    IN  [key |-> key, host |-> row.host, scheme |-> row.scheme, shape |-> row.shape,
         count |-> row.count,
         examples |-> LoadExamples(Where(db.cluster_examples, key)),
         segments |-> LoadSegments(Where(db.cluster_segments, key)),
         params |-> [name \in DOMAIN totals |->
                        LoadStats(totals[name],
                                  Where(db.cluster_param_types, <<key, name>>),
                                  Where(db.cluster_param_values, <<key, name>>))]]

LoadClusters ==
    LET keys == InOrder([k \in DOMAIN db.clusters |-> db.clusters[k].ord])
    IN  [i \in DOMAIN keys |-> LoadCluster(keys[i])]

\* The corpus mirrored into memory, as a JSON export and every report read it.
MirrorIntoMemory ==
    [hosts |-> db.host_counts, lengths |-> db.path_length_counts,
     raw_shapes |-> db.raw_shape_counts, fingerprints |-> db.fingerprint_counts,
     positions |-> LoadPositions, clusters |-> LoadClusters]

\* Mutant: clusters are counted for hosts.
CrossHostShapesByCluster(clusters, min) ==
    LET Of(shape) == {c \in Range(clusters) : c.shape = shape}
        Row(shape) == [shape |-> shape, hosts |-> {c.host : c \in Of(shape)},
                       observations |-> MapThenSumSet(LAMBDA c : c.count, Of(shape))]
    IN  {Row(shape) : shape \in {c.shape : c \in {k \in Range(clusters) :
                                     Cardinality(Of(k.shape)) >= min}}}

\* The shapes at least `min` hosts share.
CrossHostShapes(clusters, min) ==
    LET Of(shape) == {c \in Range(clusters) : c.shape = shape}
        Row(shape) == [shape |-> shape, hosts |-> {c.host : c \in Of(shape)},
                       observations |-> MapThenSumSet(LAMBDA c : c.count, Of(shape))]
    IN  {r \in {Row(c.shape) : c \in Range(clusters)} : Cardinality(r.hosts) >= min}

\* What every storage promises, with the views read back from the tables.
Memory == INSTANCE MemoryViews WITH
    views <- MirrorIntoMemory, log <- log, acts <- acts, read <- read

-----------------------------------------------------------------------------
Init ==
    /\ db = EmptyTables
    /\ log = <<>>
    /\ acts = {}
    /\ read = Error

Observe(input) ==
    /\ Memory!Observable(input)
    /\ Len(log) < MaxLog
    /\ db' = Apply(db, EventsUnder(Parse(input), acts))
    /\ log' = Append(log, Canonical(Parse(input)))
    /\ read' = Error
    /\ UNCHANGED acts

\* The rebuilt tables replace the live ones with the activation.
Activate(a) ==
    /\ a \notin acts
    /\ acts' = Memory!Upsert(acts, a)
    /\ db' = Replayed(log, acts')
    /\ read' = Error
    /\ UNCHANGED log

\* A bound, as in MemoryViews: what is read depends on nothing stored.
Read(input) ==
    /\ log = <<>>
    /\ read' = Parse(input)
    /\ UNCHANGED <<db, log, acts>>

Next ==
    \/ \E input \in Inputs : Observe(input)
    \/ \E input \in Readable : Read(input)
    \/ \E a \in Recognizers : Activate(a)

Spec == Init /\ [][Next]_vars

-----------------------------------------------------------------------------
(* Properties. *)

\* After every write the tables read back as the views memory would hold:
\* SqliteStorage answers what MemoryStorage answers (storage.rs `Storage`).
ReadsAsMemory == Memory!Spec

\* A JSON export loads back as the same views: nothing is lost, merged,
\* reordered or counted again (storage_json.rs `load_memory_from_json`).
ExportLoads == Memory!Load(Memory!Dump) = MirrorIntoMemory

\* Parsing the canonical form, which is what a corpus logs and replays, gives the
\* identifier back, unless that text ends in a blank or a dropped default port
\* uncovers another one before it (identifier.rs `canonical`).
CanonicalReparses ==
    read # Error /\ Last(Canonical(read)) # " " /\ ~(read.port = None /\ HasPort(read.host))
        => Reparses(read)

\* The trace of a URL shows, token by token, what its normalisation holds, and
\* that of `urn:ns:value` its value's, though each renders with code of its own
\* (trace.rs, normalizer.rs).
TraceAgrees ==
    \A hints \in BOOLEAN : read # Error =>
        LET trace == Trace(read, hints)
        IN  /\ ~IsUrn(read) => /\ trace.path = trace.normalized.path
                               /\ trace.query = trace.normalized.query
            /\ IsUrn(read) /\ trace.normalized # Verbatim(read) =>
                   trace.path[2] = trace.normalized.shaped

\* The shapes two hosts share, read off the clusters, are those the log holds:
\* each with every host that showed it, once whatever its schemes, and all their
\* observations, also after recognizers reshaped them (cross_host_shape.rs).
ShapeOf(canonical) == EventsUnder(Parse(canonical), acts).cluster

SharedInLog(min) ==
    LET of(shape) == {i \in DOMAIN log : ShapeOf(log[i]).shape = shape}
        row(shape) == [shape |-> shape, hosts |-> {ShapeOf(log[i]).host : i \in of(shape)},
                       observations |-> Cardinality(of(shape))]
    IN  {r \in {row(ShapeOf(log[i]).shape) : i \in DOMAIN log} : Cardinality(r.hosts) >= min}

CrossHostMatchesLog == CrossHostShapes(LoadClusters, 2) = SharedInLog(2)
=============================================================================
