------------------------------ MODULE Evidence ------------------------------
(***************************************************************************)
(* What a corpus makes of its views: the evidence at each position of a    *)
(* path, how it changes the way a segment is rendered, and the recognizers *)
(* it proposes.  Reading changes nothing, so this adds no state to         *)
(* InPlaceCorpus.  An IRI is a host and a path of segment values; the      *)
(* evidence is that of a corpus below the cap of ValueCap.                 *)
(*                                                                         *)
(* External: the built-in type of a value, its canonical form, the name of *)
(* its prefix, and the singular of a word.                                 *)
(***************************************************************************)
EXTENDS InPlaceCorpus, FiniteSets

CONSTANTS
    TypeOf,          \* the built-in type of each segment value
    PrefixOf,        \* the prefix of each value of the form prefix_alphanumerics, else None
    Singular,        \* the singular of each value
    Canonical,       \* the dates and currencies with a canonical form
    MinObservations, \* MIN_OBSERVATIONS_FOR_INFERENCE
    MinCardinality,  \* MIN_CARDINALITY_FOR_INFERENCE
    PopularCount,    \* POPULAR_MIN_COUNT
    MinProposed      \* DEFAULT_PROPOSAL_MIN_OBSERVATIONS

ASSUME ThresholdsAssumption ==
    {MinObservations, MinCardinality, PopularCount, MinProposed} \subseteq Nat \ {0}
ASSUME PathsAssumption == \A iri \in Iris : iri.path \in Seq(DOMAIN TypeOf)

\* Dates and currencies; and no recognizer takes the name of a built-in type.
ASSUME TypesAssumption ==
    /\ \A value \in Canonical : TypeOf[value] \in {"date", "currency"}
    /\ Types \intersect {"literal", "slug", "opaque_id"} = {}

-----------------------------------------------------------------------------
(* Classifying and naming a segment. *)

Indices(path) == 1..Len(path)

BuiltIn(value, list) == TypeOf[value]
Classify(value, list) ==
    IF \E i \in Indices(list) : list[i].prefix = PrefixOf[value]
    THEN list[CHOOSE i \in Indices(list) : list[i].prefix = PrefixOf[value]].type
    ELSE TypeOf[value]

IsVariable(type) == type # "literal"

HintEligible == {"integer", "uuid", "hash", "opaque_id", "slug"}

\* Named after the literal before it; None when there is no such name.
Hint(path, i, list) ==
    LET type == Classify(path[i], list)
    IN  IF /\ i > 1 /\ type \in HintEligible
           /\ Classify(path[i - 1], list) = "literal"
        THEN <<Singular[path[i - 1]], IF type = "uuid" THEN "_uuid" ELSE "_id">>
        ELSE None

Placeholder(path, i, list) ==
    IF Hint(path, i, list) # None THEN <<"hint", Hint(path, i, list)>>
    ELSE <<"type", Classify(path[i], list)>>

PlaceholderOrValue(path, i, list) ==
    IF IsVariable(Classify(path[i], list)) THEN Placeholder(path, i, list)
    ELSE <<"value", path[i]>>

\* A position is the host and what the path holds before it.
Position(iri, i, list) ==
    [host |-> iri.host,
     locator |-> [j \in 1..(i - 1) |-> PlaceholderOrValue(iri.path, j, list)]]

\* The mechanical rendering of a segment.
Mechanical(path, i, list, hints) ==
    LET type == Classify(path[i], list)
    IN  IF ~IsVariable(type) THEN <<"value", path[i]>>
        ELSE IF path[i] \in Canonical /\ type = TypeOf[path[i]] THEN <<"canonical", path[i]>>
        ELSE IF hints THEN Placeholder(path, i, list)
        ELSE <<"type", type>>

-----------------------------------------------------------------------------
(* The evidence at a position: the segments observed there. *)

Observed == UNION {{<<k, i>> : i \in Indices(views[k].iri.path)} : k \in 1..Len(views)}

PositionAt(s) == Position(views[s[1]].iri, s[2], views[s[1]].under)
ValueAt(s) == views[s[1]].iri.path[s[2]]
TypeAt(s) == Classify(ValueAt(s), views[s[1]].under)

At(position) == {s \in Observed : PositionAt(s) = position}

Total(seen) == Cardinality(seen)
Cardinal(seen) == Cardinality({ValueAt(s) : s \in seen})
CountOf(value, seen) == Cardinality({s \in seen : ValueAt(s) = value})
TypeCount(type, seen) == Cardinality({s \in seen : TypeAt(s) = type})

\* `n` of `total` is at least `percent`.
Share(n, percent, total) == 100 * n >= percent * total

Always(seen) == TRUE
Enough(seen) == Total(seen) >= MinObservations

-----------------------------------------------------------------------------
(* What the evidence says of a segment. *)

StableVariable == {"version", "locale", "currency", "boolean", "slug", "opaque_id"}

HighCardinality(seen) ==
    \/ Share(Cardinal(seen), 80, Total(seen))
    \/ Share(Cardinal(seen), 50, Total(seen)) /\ Cardinal(seen) >= MinCardinality

\* Three times as frequent as an average value.
PopularOutlier(value, seen) ==
    /\ CountOf(value, seen) >= PopularCount
    /\ CountOf(value, seen) * Cardinal(seen) >= 3 * Total(seen)

ClassifyVariable(value, type, seen) ==
    IF /\ type \in StableVariable
       /\ seen # {} /\ Enough(seen) /\ Share(CountOf(value, seen), 50, Total(seen))
    THEN "stable_literal"
    ELSE "variable_identifier"

RareOrAmbiguous(value, seen) ==
    IF CountOf(value, seen) > 0 THEN "rare_literal" ELSE "ambiguous"

ClassifyLiteral(value, seen) ==
    IF seen = {} THEN "ambiguous"
    ELSE IF /\ Enough(seen)
            /\ Share(Total({s \in seen : IsVariable(TypeAt(s))}), 80, Total(seen))
    THEN RareOrAmbiguous(value, seen)
    ELSE IF Share(CountOf(value, seen), 50, Total(seen)) THEN "stable_literal"
    ELSE IF Enough(seen) /\ HighCardinality(seen)
    THEN IF PopularOutlier(value, seen) THEN "stable_literal" ELSE "corpus_inferred_variable"
    ELSE IF Cardinal(seen) = 1 THEN "stable_literal"
    ELSE RareOrAmbiguous(value, seen)

ClassifySegment(value, type, seen) ==
    IF IsVariable(type) THEN ClassifyVariable(value, type, seen)
    ELSE ClassifyLiteral(value, seen)

\* A variable only the corpus knows of is named after the last literal before it.
Inferred(path, i, list, hints) ==
    LET literals == {j \in 1..(i - 1) : ~IsVariable(Classify(path[j], list))}
    IN  IF hints /\ literals # {}
        THEN <<"name", Singular[path[CHOOSE j \in literals : \A k \in literals : k <= j]]>>
        ELSE <<"type", "value">>

\* The corpus-informed rendering of a segment.
Informed(iri, i, list, hints) ==
    LET value == iri.path[i]
        type == Classify(value, list)
        verdict == ClassifySegment(value, type, At(Position(iri, i, list)))
    IN  IF value \in Canonical /\ type = TypeOf[value] THEN <<"canonical", value>>
        ELSE IF verdict \notin {"variable_identifier", "corpus_inferred_variable"}
        THEN <<"value", value>>
        ELSE IF ~IsVariable(type) THEN Inferred(iri.path, i, list, hints)
        ELSE IF hints THEN Placeholder(iri.path, i, list)
        ELSE <<"type", type>>

-----------------------------------------------------------------------------
(* Proposing recognizers. *)

Dominant(seen) ==
    LET types == {TypeAt(s) : s \in seen}
    IN  {t \in types : \A u \in types : TypeCount(u, seen) <= TypeCount(t, seen)}

\* Counts of types are visited in no fixed order, so a tie may fall either way.
Opaque == {"slug", "opaque_id"}
Positions == {PositionAt(s) : s \in Observed}
Surely == {p \in Positions : Dominant(At(p)) \subseteq Opaque}
Possibly == {p \in Positions : Dominant(At(p)) \intersect Opaque # {}}

\* The observations at positions `chosen` of values with the prefix.
Matching(prefix, chosen) ==
    {s \in Observed : PositionAt(s) \in chosen /\ PrefixOf[ValueAt(s)] = prefix}

Covers(prefix, chosen) ==
    LET matching == Matching(prefix, chosen)
        beside == {s \in Observed : PositionAt(s) \in {PositionAt(m) : m \in matching}}
    IN  /\ Total(matching) >= MinProposed
        /\ Share(Total(matching), 70, Total(beside))

MayPropose(prefix) ==
    \E ties \in SUBSET (Possibly \ Surely) : Covers(prefix, Surely \union ties)

-----------------------------------------------------------------------------
(* Properties. *)

\* At a position seen fewer than MinObservations times, a segment is rendered just
\* as without a corpus by the corpus's classifier (corpus.rs `normalize`: "below
\* that the output is exactly what `normalize` gives").
FewObservationsMechanical ==
    \A iri \in Iris, hints \in BOOLEAN : \A i \in Indices(iri.path) :
        Total(At(Position(iri, i, activations))) < MinObservations
            => Informed(iri, i, activations, hints)
                = Mechanical(iri.path, i, activations, hints)

\* A prefix already recognized is not proposed again once the call that activated
\* it is over, whatever was observed since (recognizer_proposal.rs
\* `propose_recognizers`, corpus.rs `activate_proposals_above`).
ActivatedNotProposed ==
    at \in {"idle", "answered"} => \A i \in 1..Len(acts) : ~MayPropose(acts[i].prefix)

=============================================================================
