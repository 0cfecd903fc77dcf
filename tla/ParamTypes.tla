----------------------------- MODULE ParamTypes -----------------------------
(***************************************************************************)
(* What a corpus says one query parameter of a cluster holds: the counts   *)
(* it keeps of the values observed, and the ladder of types read off them. *)
(* The counts are a memory corpus's; Reread is what a SQLite corpus makes  *)
(* of the same ones each time it reads them.                               *)
(*                                                                         *)
(* A value's own type is external: TypeOf gives it, as the classifier      *)
(* does.  Shares are compared exactly; the code adds the two of            *)
(* IsMixedNumber as floats, where 0.7 + 0.1 falls short of 0.8.            *)
(***************************************************************************)
EXTENDS Integers, Sequences, FiniteSets, Functions

CONSTANTS
    Values,     \* parameter values
    TypeOf,     \* the type of each value
    NumberOf,   \* the number each value parses as, Absent when it does not
    NameHint,   \* the type the parameter's name suggests, Absent if none
    TypeOrder,  \* the types of the values, by name
    Samples,    \* the sets of values one parameter may take
    MaxValues,  \* distinct values a parameter tracks
    MaxTotal,   \* bound: observations of the parameter
    Absent

ASSUME MaxValuesAssumption == MaxValues \in Nat \ {0}
ASSUME MaxTotalAssumption == MaxTotal \in Nat

VARIABLES
    stats,   \* the counts kept
    seen,    \* how often each value was observed
    sample   \* the values this parameter takes

paramVars == <<stats, seen, sample>>

Types == Range(TypeOrder)

\* A value's type is one the default classifier gives: only a parameter is a year, a
\* status or an enum, and no name suggests one (classifier.rs `PARAM_NAME_HINTS`).
ConstantsOK ==
    /\ Samples \subseteq SUBSET Values
    /\ TypeOrder \in Seq(Types) /\ TypeOf \in [Values -> Types]
    /\ {"year", "http_status", "enum"} \intersect (Types \union {NameHint}) = {}
    /\ NumberOf \in [Values -> Int \union {Absent}] /\ Absent \notin Int
ASSUME ConstantsAssumption == ConstantsOK

ENUM_MIN_OBSERVATIONS == 20
ENUM_MAX_CARDINALITY == 10
ENUM_MIN_VALUE_COUNT == 3
ENUM_MIN_MEMBERS == 2
STRING_MIN_DISTINCT == 2

\* `n` is at least `percent` of `total`.
AtLeast(n, percent, total) == 100 * n >= percent * total

-----------------------------------------------------------------------------
(* The counts. *)

NoNumbers == [count |-> 0, min |-> 0, max |-> 0]

NoStats == [value_counts |-> [v \in Values |-> 0], type_counts |-> [t \in Types |-> 0],
            total |-> 0, numeric |-> NoNumbers]

Tracked(s) == {v \in Values : s.value_counts[v] > 0}

\* The range after `n` observations of the number `x`.
Widened(range, x, n) ==
    [count |-> range.count + n,
     min |-> IF range.count = 0 \/ x < range.min THEN x ELSE range.min,
     max |-> IF range.count = 0 \/ x > range.max THEN x ELSE range.max]

\* Only a value that is itself a finite number widens the range.
RecordedTracked(s, v) ==
    IF TypeOf[v] \in {"integer", "float"} /\ NumberOf[v] # Absent /\ v \in Tracked(s)
    THEN Widened(s.numeric, NumberOf[v], 1)
    ELSE s.numeric
Recorded(s, v) ==
    IF TypeOf[v] \in {"integer", "float"} /\ NumberOf[v] # Absent
    THEN Widened(s.numeric, NumberOf[v], 1)
    ELSE s.numeric
\* A value past the cap is never tracked.
Keeps(s, v) == v \in Tracked(s) \/ Cardinality(Tracked(s)) < MaxValues

Counted(s, v) ==
    [value_counts |-> [s.value_counts EXCEPT ![v] = IF Keeps(s, v) THEN @ + 1 ELSE @],
     type_counts |-> [s.type_counts EXCEPT ![TypeOf[v]] = @ + 1],
     total |-> s.total + 1,
     numeric |-> Recorded(s, v)]

\* The counts read back from a SQLite corpus, which stores no range.
Reread(s) ==
    LET numbers == IF s.type_counts["integer"] + s.type_counts["float"] > 0
                   THEN {v \in Tracked(s) : NumberOf[v] # Absent}
                   ELSE {}
        Add(v, range) == Widened(range, NumberOf[v], s.value_counts[v])
    IN  [s EXCEPT !.numeric =
            MapThenFoldSet(Add, NoNumbers, LAMBDA v : v, LAMBDA S : CHOOSE v \in S : TRUE,
                           numbers)]

-----------------------------------------------------------------------------
(* The ladder. *)

Precedes(t, u) ==
    \E i, j \in DOMAIN TypeOrder : i < j /\ TypeOrder[i] = t /\ TypeOrder[j] = u

\* The type counted most, the first by name among equals.
MostCounted(counts, types) ==
    CHOOSE t \in types : \A u \in types \ {t} :
        counts[t] > counts[u] \/ (counts[t] = counts[u] /\ Precedes(t, u))

Occurring(s) == {t \in Types : s.type_counts[t] > 0}

DominantType(s) == MostCounted(s.type_counts, Occurring(s))

\* Integers, of at least two distinct values, all within [low, high].
Ranged(s, low, high, distinct) ==
    /\ DominantType(s) = "integer" /\ s.numeric.count > 0
    /\ Cardinality(Tracked(s)) \in 2..distinct
    /\ s.total >= 5
    /\ {s.numeric.min, s.numeric.max} \subseteq low..high

IsYear(s) == Ranged(s, 1900, 2100, 150)
IsHttpStatus(s) == Ranged(s, 100, 599, 30)

Established(s) == {v \in Values : s.value_counts[v] >= ENUM_MIN_VALUE_COUNT}

IsEnum(s) ==
    /\ s.total >= ENUM_MIN_OBSERVATIONS
    /\ Cardinality(Established(s)) \in ENUM_MIN_MEMBERS..ENUM_MAX_CARDINALITY
    /\ AtLeast(SumFunctionOnSet(s.value_counts, Established(s)), 90, s.total)

IsMixedNumber(s) ==
    LET ints == s.type_counts["integer"]
        floats == s.type_counts["float"]
    IN  /\ DominantType(s) \in {"integer", "float"}
        /\ ~AtLeast(ints, 80, s.total) /\ ~AtLeast(floats, 80, s.total)
        /\ AtLeast(ints + floats, 80, s.total)

\* A date needs most of the values to be dates, else the runner-up is taken.
DateOrElse(s) ==
    IF AtLeast(s.type_counts["date"], 80, s.total) THEN "date"
    ELSE IF Occurring(s) = {"date"} THEN "literal"
    ELSE MostCounted(s.type_counts, Occurring(s) \ {"date"})

Generic(s) ==
    LET t == DominantType(s)
    IN  IF NameHint # Absent /\ t \in {"literal", "opaque_id", "slug"} THEN NameHint
        ELSE IF t = "literal" /\ Cardinality(Tracked(s)) >= STRING_MIN_DISTINCT THEN "string"
        ELSE t

\* The rungs in order, the first that holds deciding.
DatesFirst(s) ==
    IF s.total = 0 THEN "literal"
    ELSE IF IsYear(s) THEN "year"
    ELSE IF IsHttpStatus(s) THEN "http_status"
    ELSE IF DominantType(s) = "date" THEN DateOrElse(s)
    ELSE IF IsEnum(s) /\ DominantType(s) # "boolean" THEN "enum"
    ELSE IF IsMixedNumber(s) THEN "number"
    ELSE Generic(s)
ParamType(s) ==
    IF s.total = 0 THEN "literal"
    ELSE IF IsYear(s) THEN "year"
    ELSE IF IsHttpStatus(s) THEN "http_status"
    ELSE IF IsEnum(s) /\ DominantType(s) # "boolean" THEN "enum"
    ELSE IF DominantType(s) = "date" THEN DateOrElse(s)
    ELSE IF IsMixedNumber(s) THEN "number"
    ELSE Generic(s)

-----------------------------------------------------------------------------

ParamInit ==
    /\ sample \in Samples
    /\ stats = NoStats
    /\ seen = [v \in Values |-> 0]

Observe(v) ==
    /\ stats.total < MaxTotal
    /\ stats' = Counted(stats, v)
    /\ seen' = [seen EXCEPT ![v] = @ + 1]
    /\ UNCHANGED sample

ParamNext == \E v \in sample : Observe(v)

ParamSpec == ParamInit /\ [][ParamNext]_paramVars

-----------------------------------------------------------------------------
(* Properties. *)

Numbers == ({NumberOf[v] : v \in Values} \ {Absent}) \union {0}

\* Every variable has its type (PositionStats).
TypeOK ==
    /\ sample \in Samples
    /\ seen \in [Values -> Nat]
    /\ stats.value_counts \in [Values -> Nat]
    /\ stats.type_counts \in [Types -> Nat]
    /\ stats.total \in Nat
    /\ stats.numeric \in [count : Nat, min : Numbers, max : Numbers]

\* A parameter called a year or a status code has held no finite number out of that
\* range, among the values past the cap either (cluster.rs `is_year_position`,
\* `is_http_status_position`).
RangeVouched ==
    \A v \in {w \in Values : /\ seen[w] > 0 /\ NumberOf[w] # Absent
                             /\ TypeOf[w] \in {"integer", "float"}} :
        /\ ParamType(stats) = "year" => NumberOf[v] \in 1900..2100
        /\ ParamType(stats) = "http_status" => NumberOf[v] \in 100..599

\* Seeing an established value of an enum once more leaves it one, unless it makes
\* a more specific verdict true (cluster.rs `is_enum`: "a stray one-off value is a
\* straggler, not a disqualifier").
EnumHolds ==
    [][ParamType(stats) = "enum"
        /\ (\E v \in Established(stats) : stats'.value_counts[v] > stats.value_counts[v])
        => ParamType(stats') \in {"enum", "year", "http_status", "boolean"}]_paramVars

\* A value never seen before leaves an enum one (CHANGELOG.md and cluster.rs: a
\* single brand-new value can't knock an established enum down).
EnumSurvivesNewValue ==
    [][ParamType(stats) = "enum"
        /\ (\E v \in Values : seen[v] = 0 /\ seen'[v] = 1)
        => ParamType(stats') = "enum"]_paramVars

\* Below the cap, the counts read back from SQLite are those a memory corpus holds,
\* the numeric range with them (storage_json.rs `load_counts`).
RereadSameRange ==
    Cardinality(Tracked(stats)) < MaxValues => Reread(stats) = stats

=============================================================================
