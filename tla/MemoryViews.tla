----------------------------- MODULE MemoryViews -----------------------------
(***************************************************************************)
(* The views a corpus keeps of what it observed, as memory holds them, and *)
(* the JSON dump of them.  This is what any storage promises its readers:  *)
(* SqliteViews keeps the same in tables.                                   *)
(*                                                                         *)
(* Abstracted: the numeric range of a slot (ParamTypes), and the order of  *)
(* activated recognizers, which never match one segment both.  An          *)
(* observation is one step here and may fail half way in InPlaceCorpus.    *)
(***************************************************************************)
EXTENDS Keyed

\* How identifiers are read and counted: those of Identifiers.
CONSTANTS Error, Parse(_), Canonical(_), Reparses(_), EventsUnder(_, _), ParamValue(_), TypeOf(_)

CONSTANTS
    Inputs,       \* what a caller may hand in to be observed
    Readable,     \* and what only to be read
    Recognizers,  \* recognizers a caller may activate, each [prefix, type]
    MaxValues,    \* max_values_per_position
    MaxExamples,  \* MAX_CLUSTER_EXAMPLES
    MaxLog        \* bound: observations the log may hold

VARIABLES
    views,  \* the derived views
    log,    \* the canonical form of every observation
    acts,   \* the activated recognizers
    read    \* the identifier last read for its own sake, or Error

vars == <<views, log, acts, read>>

-----------------------------------------------------------------------------
(* One value slot: its observations, their types, and its first values. *)

EmptyStats == [total |-> 0, types |-> EmptyBag, values |-> EmptyBag]

Capped(values, v) == v \in DOMAIN values \/ Cardinality(DOMAIN values) < MaxValues

Observed(stats, v, type) ==
    [total |-> stats.total + 1,
     types |-> Increment(stats.types, type),
     values |-> IF Capped(stats.values, v) THEN Increment(stats.values, v) ELSE stats.values]

-----------------------------------------------------------------------------
(* Clusters and positions, in the order they were first seen. *)

EmptyViews ==
    [hosts |-> EmptyBag, lengths |-> EmptyBag, raw_shapes |-> EmptyBag,
     fingerprints |-> EmptyBag, positions |-> <<>>, clusters |-> <<>>]

IndexOf(list, key) == {i \in DOMAIN list : list[i].key = key}

ObservePosition(positions, p) ==
    LET known == IndexOf(positions, p.at)
        stats == IF known = {} THEN EmptyStats ELSE positions[Min(known)].stats
        entry == [key |-> p.at, stats |-> Observed(stats, p.value, p.type)]
    IN  IF known = {} THEN Append(positions, entry)
        ELSE [positions EXCEPT ![Min(known)] = entry]

ObservePositions(positions, seen) == FoldLeft(ObservePosition, positions, seen)

AddExample(examples, iri) ==
    IF /\ Len(examples) < MaxExamples
       /\ \A i \in DOMAIN examples : Canonical(examples[i]) # Canonical(iri)
    THEN Append(examples, iri) ELSE examples

AddSegments(counts, segments) ==
    [i \in 1..Max({Len(counts), Len(segments)}) |->
        LET bag == IF i <= Len(counts) THEN counts[i] ELSE EmptyBag
        IN  IF i <= Len(segments) THEN Increment(bag, segments[i]) ELSE bag]

\* Params are classified by the built-in recognizers alone.
AddParam(params, p) ==
    LET stats == IF p.key \in DOMAIN params THEN params[p.key] ELSE EmptyStats
    IN  With(params, p.key, Observed(stats, ParamValue(p), TypeOf(ParamValue(p))))

AddParams(params, list) == FoldLeft(AddParam, params, list)

NewCluster(k) ==
    [key |-> k.key, host |-> k.host, scheme |-> k.scheme, shape |-> k.shape,
     count |-> 0, examples |-> <<>>, segments |-> <<>>, params |-> <<>>]

Add(c, iri) ==
    [c EXCEPT !.count = @ + 1,
              !.examples = AddExample(@, iri),
              !.segments = AddSegments(@, iri.segments),
              !.params = AddParams(@, iri.params)]

AddToCluster(clusters, k, iri) ==
    LET known == IndexOf(clusters, k.key)
    IN  IF known = {} THEN Append(clusters, Add(NewCluster(k), iri))
        ELSE [clusters EXCEPT ![Min(known)] = Add(@, iri)]

\* The events of one observation.
Apply(v, e) ==
    [hosts |-> Increment(v.hosts, e.host),
     lengths |-> Increment(v.lengths, e.length),
     raw_shapes |-> Increment(v.raw_shapes, e.raw_shape),
     fingerprints |-> Increment(v.fingerprints, e.fingerprint),
     positions |-> ObservePositions(v.positions, e.positions),
     clusters |-> AddToCluster(v.clusters, e.cluster, e.iri)]

\* The views replayed from a log.
Replayed(entries, recognizers) ==
    FoldLeft(LAMBDA v, c : Apply(v, EventsUnder(Parse(c), recognizers)), EmptyViews, entries)

\* Storing a recognizer replaces the one with its prefix.
Upsert(recognizers, a) == {b \in recognizers : b.prefix # a.prefix} \union {a}

-----------------------------------------------------------------------------
(* The JSON dump of a corpus, and what loading it makes of it. *)

DumpCluster(c) == [c EXCEPT !.examples = [i \in DOMAIN @ |-> Canonical(@[i])]]

Dump ==
    [views EXCEPT !.clusters = [i \in DOMAIN @ |-> DumpCluster(@[i])]]

\* Examples are parsed again; one that no longer parses is skipped.
LoadExamples(canonicals) ==
    LET kept == {i \in DOMAIN canonicals : Parse(canonicals[i]) # Error}
        order == InOrder([i \in kept |-> i])
    IN  [j \in DOMAIN order |-> Parse(canonicals[order[j]])]

\* Mutant: the count is taken from the examples.
LoadClusterRecounted(c) ==
    [c EXCEPT !.examples = LoadExamples(@), !.count = Len(LoadExamples(c.examples))]
LoadCluster(c) == [c EXCEPT !.examples = LoadExamples(@)]

\* An entry for a key already loaded replaces it.
InsertKeyed(list, entry) ==
    LET known == IndexOf(list, entry.key)
    IN  IF known = {} THEN Append(list, entry) ELSE [list EXCEPT ![Min(known)] = entry]

LoadPositions(entries) == FoldLeft(InsertKeyed, <<>>, entries)
LoadClusters(entries) ==
    FoldLeft(LAMBDA list, c : InsertKeyed(list, LoadCluster(c)), <<>>, entries)

Load(dump) ==
    [dump EXCEPT !.positions = LoadPositions(@), !.clusters = LoadClusters(@)]

-----------------------------------------------------------------------------
Init ==
    /\ views = EmptyViews
    /\ log = <<>>
    /\ acts = {}
    /\ read = Error

\* The inputs observed here are those whose canonical form names them again:
\* replaying the log of any other is a disagreement of its own (README).
Observable(input) == Parse(input) # Error /\ Reparses(Parse(input))

Observe(input) ==
    /\ Observable(input)
    /\ Len(log) < MaxLog
    /\ views' = Apply(views, EventsUnder(Parse(input), acts))
    /\ log' = Append(log, Canonical(Parse(input)))
    /\ read' = Error
    /\ UNCHANGED acts

\* An activation is stored and the views rebuilt with it.
Activate(a) ==
    /\ a \notin acts
    /\ acts' = Upsert(acts, a)
    /\ views' = Replayed(log, acts')
    /\ read' = Error
    /\ UNCHANGED log

\* `normalize`, `trace`, `explain` with the built-in recognizers: nothing is
\* stored.  It depends on nothing stored either, so it is explored (a bound)
\* of an empty corpus only.
Read(input) ==
    /\ log = <<>>
    /\ read' = Parse(input)
    /\ UNCHANGED <<views, log, acts>>

Next ==
    \/ \E input \in Inputs : Observe(input)
    \/ \E input \in Readable : Read(input)
    \/ \E a \in Recognizers : Activate(a)

Spec == Init /\ [][Next]_vars
=============================================================================
