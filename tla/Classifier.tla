------------------------------ MODULE Classifier ------------------------------
(***************************************************************************)
(* The segment classifiers of a program: what each answers, and the cache  *)
(* each keeps while threads call it.  `classify` looks a segment up under  *)
(* the mutex, computes its type without it, and inserts the answer later.  *)
(*                                                                         *)
(* The library's functions share one classifier; so do, apart from it, the *)
(* corpora that hold no activation.  One that does has its own.            *)
(*                                                                         *)
(* A segment is the record of its text, the regexes it matches behind      *)
(* their quick checks (`forms`), those whose looked-up or parsed part      *)
(* passes too (`holds`), its prefix when it is prefix_alphanumerics, and   *)
(* the type a fixture gives it (`documented`).                             *)
(***************************************************************************)
EXTENDS Integers, Sequences, SequencesExt, FiniteSets

CONSTANTS
    Threads,
    Corpora,
    Segments,
    Common,       \* bound: the segments asked for at any time, see Ask
    Activations,  \* the lists of [prefix, type] a corpus may hold
    CacheMax,     \* CACHE_MAX
    None

ASSUME CacheMaxAssumption == CacheMax \in Nat \ {0}
ASSUME CommonAssumption == Common \subseteq Segments
ASSUME CallersAssumption ==
    IsFiniteSet(Threads) /\ Corpora \intersect {"library", "shared"} = {}

VARIABLES
    classifiers,  \* the recognizers and the cache of each classifier
    activations,  \* the activations each corpus classifies with
    calls         \* what each thread is at

vars == <<classifiers, activations, calls>>

-----------------------------------------------------------------------------
(* Recognizers: they compete, the most specific verdict wins. *)

Recognizer(kind, specificity) == [kind |-> kind, prefix |-> None, type |-> None,
                                  specificity |-> specificity]
BuiltIns == <<Recognizer("uuid", 10), Recognizer("date", 8), Recognizer("integer", 7)>>
Synthesized(a) == [kind |-> "prefix", prefix |-> a.prefix, type |-> a.type, specificity |-> 10]

Verdict(type, specificity) == [type |-> type, specificity |-> specificity]

\* An integer may also read as a time or a date.
IntegerVerdict(s) ==
    CASE "timestamp" \in s.holds -> Verdict("timestamp", 7)
      [] "timestamp" \notin s.holds /\ "compact_date" \in s.holds -> Verdict("date", 8)
      [] OTHER -> Verdict("integer", 5)

TryClassify(r, s) ==
    CASE r.kind = "uuid" /\ "uuid" \in s.forms -> Verdict("uuid", 10)
      [] r.kind = "date" /\ s.forms \intersect {"date_iso", "date_slash", "date_us"} # {} ->
            Verdict("date", 8)
      [] r.kind = "integer" /\ "integer" \in s.forms -> IntegerVerdict(s)
      [] r.kind = "prefix" /\ s.prefix = r.prefix -> Verdict(r.type, r.specificity)
      [] OTHER -> None

Verdicts(s, recognizers) ==
    [i \in {j \in DOMAIN recognizers : TryClassify(recognizers[j], s) # None} |->
        TryClassify(recognizers[i], s)]

\* A tie goes to the earlier recognizer.
Winner(verdicts) ==
    CHOOSE i \in DOMAIN verdicts : \A j \in DOMAIN verdicts :
        \/ verdicts[i].specificity > verdicts[j].specificity
        \/ verdicts[i].specificity = verdicts[j].specificity /\ i <= j

Ensemble(s, recognizers) ==
    LET verdicts == Verdicts(s, recognizers)
    IN  IF DOMAIN verdicts = {} THEN None ELSE verdicts[Winner(verdicts)]

-----------------------------------------------------------------------------
(* What no recognizer knows goes down a ladder of forms: the first decides. *)

Rungs == <<"jwt", "color_hex", "url", "email", "mime", "schemeless_url", "ipv4", "ipv6_full",
           "ipv6_compressed", "coordinate", "hash", "version", "boolean", "locale",
           "locale_bare", "iso_time", "phone", "phone_nanp", "float", "currency", "country",
           "base64", "file", "slug", "literal", "opaque">>

\* The type of a rung, where it is not the rung's own name.
TypeOfRung(rung) ==
    CASE rung = "color_hex" -> "color"
      [] rung = "schemeless_url" -> "url"
      [] rung \in {"ipv6_full", "ipv6_compressed"} -> "ipv6"
      [] rung = "locale_bare" -> "locale"
      [] rung = "iso_time" -> "timestamp"
      [] rung = "phone_nanp" -> "phone"
      [] rung = "opaque" -> "opaque_id"
      [] OTHER -> rung

\* Rungs that look further before they answer, and their answer when that fails.
LookedUp == {"ipv4", "coordinate", "locale", "locale_bare", "phone", "currency", "country", "file"}

Otherwise(rung, forms) ==
    CASE rung \in {"locale", "file"} /\ "slug" \in forms -> "slug"
      [] rung = "currency" /\ "literal" \notin forms -> "opaque_id"
      [] rung \in {"ipv4", "coordinate", "phone"} -> "opaque_id"
      [] rung = "file" /\ "slug" \notin forms -> "opaque_id"
      [] OTHER -> "literal"

Ladder(s) ==
    LET matched == SelectSeq(Rungs, LAMBDA rung : rung \in s.forms)
        rung == Head(matched)
    IN  CASE matched = <<>> -> "literal"
          [] matched # <<>> /\ rung \in LookedUp \ s.holds -> Otherwise(rung, s.forms)
          [] OTHER -> TypeOfRung(rung)

ComputeClassification(s, recognizers) ==
    LET verdict == Ensemble(s, recognizers)
    IN  IF verdict # None THEN verdict.type ELSE Ladder(s)

\* The fixtures document what a classifier without activations answers; nothing a
\* prefix matches is a UUID, a date or an integer; and every activation has a prefix and a type.
ASSUME SegmentsAssumption ==
    \A s \in Segments :
        /\ s.documented =
              IF s.text = "" THEN "literal" ELSE ComputeClassification(s, BuiltIns)
        /\ s.prefix # None => s.text # "" /\ DOMAIN Verdicts(s, BuiltIns) = {}
ASSUME ActivationsAssumption ==
    \A list \in Activations :
        /\ list \in Seq(Range(list))
        /\ \A a \in Range(list) : a.prefix # None /\ Verdict(a.type, 10) # None

-----------------------------------------------------------------------------
(* Classifiers.  A cache is a function from the segments it holds. *)

NoAnswers == [s \in {} |-> "literal"]
NewClassifier == [recognizers |-> BuiltIns, cache |-> NoAnswers]

\* What was cached is forgotten: the recognizers may answer differently.
Registered(c, list) ==
    [recognizers |-> c.recognizers \o [i \in DOMAIN list |-> Synthesized(list[i])],
     cache |-> NoAnswers]

Callers == Corpora \union {"library"}
Classifiers == Corpora \union {"library", "shared"}

\* The classifier a caller's calls go to.
ClassifierOf(caller) ==
    IF caller \in Corpora /\ activations[caller] = <<>> THEN "shared" ELSE caller

Idle == [at |-> "idle"]

Init ==
    /\ classifiers = [c \in Classifiers |-> NewClassifier]
    /\ activations = [c \in Corpora |-> <<>>]
    /\ calls = [t \in Threads |-> Idle]

Answer(caller, segment, type) ==
    [at |-> "answered", caller |-> caller, segment |-> segment, type |-> type]

Full(c) == Cardinality(DOMAIN c.cache) >= CacheMax

\* Mutant: a full cache keeps growing.
KeepAll(c) == c

\* On a miss a full cache is emptied first.
RoomIn(c) == IF Full(c) THEN [c EXCEPT !.cache = NoAnswers] ELSE c

\* The segments asked about or remembered.
InPlay == UNION {DOMAIN classifiers[c].cache : c \in Classifiers}
          \union {calls[t].segment : t \in {u \in Threads : calls[u] # Idle}}

\* The check of `classify`, under the mutex.  A bound: a segment that is not
\* Common is asked about only while no other is in play.
Ask(t, caller, segment) ==
    LET c == ClassifierOf(caller)
        known == segment \in DOMAIN classifiers[c].cache
    IN  /\ calls[t] = Idle
        /\ InPlay \union {segment} \subseteq Common \/ InPlay \subseteq {segment}
        /\ calls' = [calls EXCEPT ![t] =
                        CASE segment.text = "" -> Answer(caller, segment, "literal")
                          [] segment.text # "" /\ known ->
                                Answer(caller, segment, classifiers[c].cache[segment])
                          [] OTHER -> [at |-> "computing", caller |-> caller, segment |-> segment,
                                       recognizers |-> classifiers[c].recognizers]]
        /\ classifiers' = IF segment.text = "" \/ known THEN classifiers
                          ELSE [classifiers EXCEPT ![c] = RoomIn(@)]
        /\ UNCHANGED activations

Added(cache, segment, type) ==
    [s \in DOMAIN cache \union {segment} |-> IF s = segment THEN type ELSE cache[s]]

\* The answer, computed with the recognizers of the check, is inserted later.
Insert(t) ==
    /\ calls[t].at = "computing"
    /\ LET call == calls[t]
           type == ComputeClassification(call.segment, call.recognizers)
       IN  /\ classifiers' = [classifiers EXCEPT ![ClassifierOf(call.caller)].cache =
                                 Added(@, call.segment, type)]
           /\ calls' = [calls EXCEPT ![t] = Answer(call.caller, call.segment, type)]
    /\ UNCHANGED activations

Return(t) ==
    /\ calls[t].at = "answered"
    /\ calls' = [calls EXCEPT ![t] = Idle]
    /\ UNCHANGED <<classifiers, activations>>

\* `&mut self`: nobody is in a call on the corpus meanwhile.
InUse(corpus) == \E t \in Threads : calls[t] # Idle /\ calls[t].caller = corpus

\* Mutant: the recognizers are added to the classifier the corpus has.
ActivatedInPlace(corpus, list) ==
    [classifiers EXCEPT ![ClassifierOf(corpus)] = Registered(@, list)]

\* A classifier of its own, with every activation registered, replaces the
\* corpus's; none is dropped for the shared one.
Activated(corpus, list) ==
    [classifiers EXCEPT ![corpus] = Registered(NewClassifier, list)]

UseActivations(corpus, list) ==
    /\ ~InUse(corpus)
    /\ list # activations[corpus]
    /\ classifiers' = Activated(corpus, list)
    /\ activations' = [activations EXCEPT ![corpus] = list]
    /\ UNCHANGED calls

Next ==
    \/ \E t \in Threads :
        \/ \E caller \in Callers, segment \in Segments : Ask(t, caller, segment)
        \/ Insert(t)
        \/ Return(t)
    \/ \E corpus \in Corpora, list \in Activations : UseActivations(corpus, list)

Spec == Init /\ [][Next]_vars

-----------------------------------------------------------------------------
(* Properties. *)

\* Every answer is the one a classifier built anew would give the caller: the type
\* of its activation with the segment's prefix, else the one the fixture
\* documents.  Neither a cached answer, nor one inserted late, nor what another
\* corpus activated shows (classifier.rs `classify`, corpus.rs `use_activations`).
AnswersCurrent ==
    \A t \in Threads : calls[t].at = "answered" =>
        LET call == calls[t]
            list == IF call.caller \in Corpora THEN activations[call.caller] ELSE <<>>
            hits == {a \in Range(list) : a.prefix = call.segment.prefix}
        IN  IF hits = {} THEN call.type = call.segment.documented
            ELSE \E a \in hits : call.type = a.type

\* A cache holds at most CACHE_MAX answers and one more for each further thread:
\* threads that found room together insert past it (classifier.rs `classify`).
CacheBounded ==
    \A c \in Classifiers :
        Cardinality(DOMAIN classifiers[c].cache) <= CacheMax + Cardinality(Threads) - 1
=============================================================================
