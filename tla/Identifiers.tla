----------------------------- MODULE Identifiers -----------------------------
(***************************************************************************)
(* Reading an identifier: how an input is parsed, written back in its      *)
(* canonical form, normalised, traced, and turned into the events a corpus *)
(* counts.  An input is a sequence of tokens: the characters in Marks, and *)
(* the words between them.                                                 *)
(***************************************************************************)
EXTENDS Integers, Sequences, SequencesExt

CONSTANTS
    SchemeWords,      \* words of ASCII letters, digits, + and -, a letter first
    PortOf,           \* the value of each word of digits, None past 64 bits
    PortWord,         \* the decimal of each such value
    LowerOf,          \* the lower-case form of each word that has another
    TypeOf(_),        \* the built-in type of a value
    PrefixOf(_),      \* the prefix of a value of the form prefix_alphanumerics, else None
    Singular(_),      \* the singular of a value
    CanonicalOf,      \* the canonical form of each plausible date and currency code
    NameHints,        \* the type the name of a param suggests (PARAM_NAME_HINTS)
    TwoLabelSuffixes, \* public suffixes of two labels
    HostStrategy,     \* which host a corpus counts under
    None

Marks == {":", "/", "?", "#", "&", "=", ".", " "}

ASSUME HostStrategyAssumption == HostStrategy \in {"full", "registrable", "none"}
ASSUME TokensAssumption == (SchemeWords \union DOMAIN PortOf) \intersect Marks = {}

\* What is lower case has no other lower case, a scheme keeps being one, digits are
\* as they are, and the decimal of a port is read as it.
ASSUME WordsAssumption ==
    /\ \A w \in DOMAIN LowerOf :
           /\ LowerOf[w] \notin Marks \union DOMAIN LowerOf
           /\ w \in SchemeWords => LowerOf[w] \in SchemeWords
    /\ DOMAIN LowerOf \intersect (Marks \union DOMAIN PortOf) = {}
    /\ "https" \in SchemeWords \ DOMAIN LowerOf
    /\ \A w \in DOMAIN PortOf : PortOf[w] # None =>
           \E digits \in DOMAIN PortOf :
               PortWord[PortOf[w]] = digits /\ PortOf[digits] = PortOf[w]

-----------------------------------------------------------------------------
(* Text. *)

Error == [kind |-> "error"]

First(s, marks) == Min({i \in DOMAIN s : s[i] \in marks} \union {Len(s) + 1})
Before(s, marks) == SubSeq(s, 1, First(s, marks) - 1)
From(s, marks) == SubSeq(s, First(s, marks), Len(s))
After(s, marks) == SubSeq(s, First(s, marks) + 1, Len(s))

\* The pieces between the marks, empty ones included.
Split(s, mark) ==
    LET cuts == {i \in DOMAIN s : s[i] = mark} \union {0, Len(s) + 1}
        Cut(j) == CHOOSE i \in cuts : Cardinality({k \in cuts : k < i}) = j
    IN  [j \in 1..(Cardinality(cuts) - 1) |-> SubSeq(s, Cut(j - 1) + 1, Cut(j) - 1)]

Joined(pieces, mark) ==
    FoldLeft(LAMBDA s, piece : s \o <<mark>> \o piece, <<>>, pieces)

Lower(s) ==
    [i \in DOMAIN s |-> IF s[i] \in DOMAIN LowerOf THEN LowerOf[s[i]] ELSE s[i]]

\* Blanks inside stay.
Strip(s) ==
    LET inner == {i \in DOMAIN s : s[i] # " "}
    IN  IF inner = {} THEN <<>> ELSE SubSeq(s, Min(inner), Max(inner))

-----------------------------------------------------------------------------
(* Parsing. *)

\* Empty pieces and dots name nothing; two dots take the piece before away.
PathSegments(path) ==
    FoldLeft(LAMBDA out, seg :
                 IF seg \in {<<>>, <<".">>} THEN out
                 ELSE IF seg = <<".", ".">> THEN (IF out = <<>> THEN out ELSE Front(out))
                 ELSE Append(out, seg),
             <<>>, Split(path, "/"))

\* A key keeps its first place and its last value.
Put(params, k, v) ==
    IF \E i \in DOMAIN params : params[i].key = k
    THEN [i \in DOMAIN params |->
             IF params[i].key = k THEN [key |-> k, value |-> v] ELSE params[i]]
    ELSE Append(params, [key |-> k, value |-> v])

ParseQuery(query) ==
    FoldLeft(LAMBDA params, pair :
                 LET k == Before(pair, {"="})
                     v == IF Contains(pair, "=") THEN After(pair, {"="}) ELSE None
                 IN  IF k = <<>> THEN params ELSE Put(params, k, v),
             <<>>, Split(query, "&"))

IsHostish(host) ==
    \/ host = <<"localhost">>
    \/ /\ \A t \in {":", " "} : ~Contains(host, t)
       /\ \E i \in 2..(Len(host) - 1) : host[i] = "."

\* A port is the digits after the last colon of the authority.
HasPort(auth) ==
    /\ Len(auth) >= 3
    /\ auth[Len(auth) - 1] = ":"
    /\ Last(auth) \in DOMAIN PortOf

HostOf(auth) == IF HasPort(auth) THEN SubSeq(auth, 1, Len(auth) - 2) ELSE auth

DefaultPort(scheme) ==
    CASE scheme \in {<<"http">>, <<"ws">>} -> 80
      [] scheme \in {<<"https">>, <<"wss">>} -> 443
      [] scheme = <<"ftp">> -> 21
      [] OTHER -> None

ParseUrn(scheme, rest) ==
    IF rest = <<>> THEN Error
    ELSE [kind |-> "urn", scheme |-> scheme, nss |-> rest, host |-> <<>>, port |-> None,
          segments |-> <<>>, query |-> <<>>, params |-> <<>>, fragment |-> <<>>]

ParseAuthorityUrl(scheme, text) ==
    LET auth == Before(text, {"/", "?", "#"})
        rest == From(text, {"/", "?", "#"})
        beforeFragment == Before(rest, {"#"})
        query == After(beforeFragment, {"?"})
        port == IF HasPort(auth) THEN PortOf[Last(auth)] ELSE None
    IN  IF auth = <<>> \/ (HasPort(auth) /\ port = None) THEN Error
        ELSE [kind |-> "url", scheme |-> scheme, nss |-> <<>>,
              host |-> Lower(HostOf(auth)),
              port |-> IF port = DefaultPort(scheme) THEN None ELSE port,
              segments |-> PathSegments(Before(beforeFragment, {"?"})),
              query |-> query,
              params |-> ParseQuery(query),
              fragment |-> After(rest, {"#"})]

HasScheme(s) ==
    LET scheme == Before(s, {":"})
    IN  /\ Contains(s, ":")
        /\ scheme # <<>> /\ scheme[1] \in SchemeWords
        /\ \A i \in DOMAIN scheme : scheme[i] \in SchemeWords \union DOMAIN PortOf \union {"."}

\* Without a scheme an input must look like a host.
Parse(input) ==
    LET s == Strip(input)
        scheme == Lower(Before(s, {":"}))
        rest == After(s, {":"})
        auth == Before(s, {"/", "?", "#"})
    IN  CASE s # <<>> /\ HasScheme(s) ->
                IF scheme # <<"urn">> /\ IsPrefix(<<"/", "/">>, rest)
                THEN ParseAuthorityUrl(scheme, SubSeq(rest, 3, Len(rest)))
                ELSE ParseUrn(scheme, rest)
          [] s # <<>> /\ ~HasScheme(s) /\ IsHostish(HostOf(auth)) ->
                ParseAuthorityUrl(<<"https">>, s)
          [] OTHER -> Error

IsUrn(iri) == iri.kind = "urn"

-----------------------------------------------------------------------------
(* The canonical form, the text a corpus logs and replays. *)

\* Mutant: the port is left out.
CanonicalPortless(iri) ==
    IF IsUrn(iri) THEN iri.scheme \o <<":">> \o iri.nss
    ELSE iri.scheme \o <<":", "/", "/">> \o iri.host \o Joined(iri.segments, "/")
         \o (IF iri.query = <<>> THEN <<>> ELSE <<"?">> \o iri.query)
         \o (IF iri.fragment = <<>> THEN <<>> ELSE <<"#">> \o iri.fragment)
Canonical(iri) ==
    LET after == (IF iri.query = <<>> THEN <<>> ELSE <<"?">> \o iri.query)
                 \o (IF iri.fragment = <<>> THEN <<>> ELSE <<"#">> \o iri.fragment)
    IN  IF IsUrn(iri) THEN iri.scheme \o <<":">> \o iri.nss
        ELSE iri.scheme \o <<":", "/", "/">> \o iri.host
             \o (IF iri.port = None THEN <<>> ELSE <<":", PortWord[iri.port]>>)
             \o (IF iri.segments = <<>> /\ after # <<>> THEN <<"/">>
                 ELSE Joined(iri.segments, "/"))
             \o after

\* Whether parsing the canonical form gives the identifier back.
Reparses(iri) == Parse(Canonical(iri)) = iri

-----------------------------------------------------------------------------
(* Classifying and naming.  `list` holds the activated recognizers. *)

Classify(value, list) ==
    LET hits == {i \in DOMAIN list : list[i].prefix = PrefixOf(value)}
    IN  IF hits = {} THEN TypeOf(value) ELSE list[Min(hits)].type

IsVariable(type) == type # "literal"

HintEligible == {"integer", "uuid", "hash", "opaque_id", "slug"}

DisplayType(type) == IF type \in {"ipv4", "ipv6"} THEN "ip" ELSE type

DeriveHints(segments, list) ==
    [i \in DOMAIN segments |->
        LET type == Classify(segments[i], list)
            named == /\ i > 1 /\ type \in HintEligible
                     /\ Classify(segments[i - 1], list) = "literal"
        IN  [value |-> segments[i], type |-> type, variable |-> IsVariable(type),
             hint |-> IF named
                      THEN <<Singular(segments[i - 1]), IF type = "uuid" THEN "_uuid" ELSE "_id">>
                      ELSE None]]

\* The dates and currency codes that are written out.
CanonicalForm(type, value) ==
    IF type \in {"date", "currency"} /\ value \in DOMAIN CanonicalOf
       /\ TypeOf(value) = type
    THEN CanonicalOf[value] ELSE None

Text(value) == <<"text", value>>
Placeholder(entry, hints) ==
    IF hints /\ entry.hint # None THEN <<"hint", entry.hint>>
    ELSE <<"type", DisplayType(entry.type)>>

RenderEntry(entry, hints, canonical) ==
    LET form == CanonicalForm(entry.type, entry.value)
    IN  CASE ~entry.variable -> Text(entry.value)
          [] entry.variable /\ canonical /\ form # None -> Text(form)
          [] OTHER -> Placeholder(entry, hints)

RenderShape(entries, hints, canonical) ==
    [i \in DOMAIN entries |-> RenderEntry(entries[i], hints, canonical)]

\* The name of a param lifts a generic type.
ParamType(name, value) ==
    LET type == TypeOf(value)
    IN  IF type \in {"literal", "opaque_id", "slug"} /\ Lower(name) \in DOMAIN NameHints
        THEN NameHints[Lower(name)] ELSE type

RenderParam(name, value) ==
    LET type == ParamType(name, value)
        form == CanonicalForm(type, value)
    IN  CASE form # None -> Text(form)
          [] form = None /\ (type \in {"date", "currency"} \/ IsVariable(type)) ->
                <<"type", DisplayType(type)>>
          [] OTHER -> Text(value)

\* `?flag` reads as `?flag=`.
ParamValue(param) == IF param.value = None THEN <<>> ELSE param.value

\* The parts of a URN's content: its namespace and, after a colon, its value.
UrnParts(iri) ==
    IF Contains(iri.nss, ":") THEN <<Before(iri.nss, {":"}), After(iri.nss, {":"})>>
    ELSE <<iri.nss>>

-----------------------------------------------------------------------------
(* `normalize`, `explain` and `trace`, with the built-in recognizers. *)

Verbatim(iri) == [verbatim |-> Canonical(iri)]

NormalizeUrn(iri, hints) ==
    LET parts == UrnParts(iri)
    IN  IF iri.scheme = <<"urn">> /\ Len(parts) = 2
        THEN [ns |-> parts[1],
              shaped |-> RenderEntry(DeriveHints(parts, <<>>)[2], hints, TRUE)]
        ELSE Verbatim(iri)

Normalize(iri, hints) ==
    IF IsUrn(iri) THEN NormalizeUrn(iri, hints)
    ELSE [scheme |-> iri.scheme, host |-> iri.host, port |-> iri.port,
          path |-> RenderShape(DeriveHints(iri.segments, <<>>), hints, TRUE),
          query |-> {<<p.key, RenderParam(p.key, ParamValue(p))>> : p \in Range(iri.params)}]

Explain(iri, list) == DeriveHints(IF IsUrn(iri) THEN UrnParts(iri) ELSE iri.segments, list)

\* Mutant: the canonical form is forgotten.
RenderSegmentRowTyped(entry, hints) ==
    IF entry.variable THEN Placeholder(entry, hints) ELSE Text(entry.value)

\* The output column of a trace's path rows.
RenderSegmentRow(entry, hints) ==
    LET form == CanonicalForm(entry.type, entry.value)
    IN  CASE ~entry.variable -> Text(entry.value)
          [] entry.variable /\ form # None -> Text(form)
          [] OTHER -> Placeholder(entry, hints)

\* And of its query rows.
RenderQueryRow(name, value) ==
    LET type == ParamType(name, value)
        form == CanonicalForm(type, value)
    IN  CASE form # None -> Text(form)
          [] form = None /\ IsVariable(type) -> <<"type", DisplayType(type)>>
          [] OTHER -> Text(value)

Trace(iri, hints) ==
    LET entries == Explain(iri, <<>>)
    IN  [normalized |-> Normalize(iri, hints),
         path |-> [i \in DOMAIN entries |-> RenderSegmentRow(entries[i], hints)],
         query |-> {<<p.key, RenderQueryRow(p.key, ParamValue(p))>> : p \in Range(iri.params)}]

-----------------------------------------------------------------------------
(* The events an observation is counted by. *)

\* The apex of a host; one of at most two labels, or an IPv4 address, is its own.
RegistrableDomain(host) ==
    LET labels == Split(host, ".")
        kept == SubSeq(labels, 1, Max({i \in DOMAIN labels : labels[i] # <<>>} \union {0}))
        n == Len(kept)
        IsV4 == Len(labels) = 4
                /\ \A i \in 1..4 : Len(labels[i]) = 1 /\ labels[i][1] \in DOMAIN PortOf
        size == IF <<kept[n - 1], kept[n]>> \in TwoLabelSuffixes THEN 3 ELSE 2
    IN  IF host = <<>> \/ IsV4 \/ n <= 2 THEN host
        ELSE Tail(Joined(SubSeq(kept, n - size + 1, n), "."))

EffectiveHost(host) ==
    CASE HostStrategy = "registrable" -> RegistrableDomain(host)
      [] HostStrategy = "none" -> <<>>
      [] OTHER -> host

\* How a segment is named in what it locates: unlike a shape's, its own type.
PlaceholderFor(entry) ==
    CASE ~entry.variable -> Text(entry.value)
      [] entry.variable /\ entry.hint # None -> <<"hint", entry.hint>>
      [] OTHER -> <<"type", entry.type>>

\* A URN's cluster is named by its namespace and the shape of its value.
UrnShape(iri, list) ==
    LET parts == UrnParts(iri)
    IN  <<iri.scheme, parts[1],
          IF Len(parts) = 1 \/ Last(parts) = <<>> THEN Text(<<>>)
          ELSE PlaceholderFor(DeriveHints(parts, list)[2])>>

ClusterKey(iri, list, host) ==
    IF IsUrn(iri)
    THEN [key |-> <<UrnShape(iri, list)>>, host |-> <<>>, scheme |-> iri.scheme,
          shape |-> UrnShape(iri, list)]
    ELSE LET shape == RenderShape(DeriveHints(iri.segments, list), TRUE, FALSE)
         IN  [key |-> <<iri.scheme, host, shape>>, host |-> host, scheme |-> iri.scheme,
              shape |-> shape]

Events(iri, list) ==
    LET hinted == DeriveHints(iri.segments, list)
        host == EffectiveHost(iri.host)
    IN  [host |-> host,
         length |-> Len(iri.segments),
         raw_shape |-> RenderShape(hinted, FALSE, FALSE),
         fingerprint |-> RenderShape(hinted, TRUE, FALSE),
         positions |-> [i \in DOMAIN hinted |->
             [at |-> <<host, [j \in 1..(i - 1) |-> PlaceholderFor(hinted[j])]>>,
              value |-> hinted[i].value, type |-> hinted[i].type]],
         cluster |-> ClusterKey(iri, list, host),
         iri |-> iri]

\* Classified with recognizers, of which no two match one segment.
EventsUnder(iri, recognizers) == Events(iri, SetToSeq(recognizers))
=============================================================================
