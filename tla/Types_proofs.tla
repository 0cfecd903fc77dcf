----------------------------- MODULE Types_proofs -----------------------------
(***************************************************************************)
(* Whatever threads ask of a program's classifiers, and whatever its       *)
(* corpora activate meanwhile: every answer is the one a classifier built  *)
(* anew would give the caller, and no cache outgrows its limit by more     *)
(* than the other threads.  And the type a corpus reads off the counts of  *)
(* one parameter's values is vouched for by every number observed.         *)
(***************************************************************************)
EXTENDS Classifier, ParamTypes, FiniteSetTheorems, SequenceTheorems, WellFoundedInduction, TLAPS

-----------------------------------------------------------------------------
(* What a classifier answers. *)

Synthesize(list) == [i \in DOMAIN list |-> Synthesized(list[i])]

Hits(s, list) == {a \in Range(list) : a.prefix = s.prefix}

LEMMA BuiltInKinds ==
    /\ BuiltIns \in Seq({BuiltIns[i] : i \in 1..3}) /\ Len(BuiltIns) = 3
    /\ \A i \in 1..3 : BuiltIns[i].kind \in {"uuid", "date", "integer"}
BY DEF BuiltIns, Recognizer

\* A list is a sequence, and one of recognizers as long as it.
LEMMA SynthesizedSeq ==
    ASSUME NEW list, list \in Seq(Range(list))
    PROVE  /\ Synthesize(list) \in Seq({Synthesized(a) : a \in Range(list)})
           /\ Len(Synthesize(list)) = Len(list)
           /\ \A i \in 1..Len(list) : Synthesize(list)[i] = Synthesized(list[i])
<1>1. DOMAIN list = 1..Len(list) /\ Len(list) \in Nat /\ \A i \in DOMAIN list : list[i] \in Range(list)
  BY DEF Range
<1>2. QED BY <1>1 DEF Synthesize

LEMMA Joined ==
    ASSUME NEW S, NEW s \in Seq(S), NEW t \in Seq(S)
    PROVE  /\ DOMAIN (s \o t) = 1..(Len(s) + Len(t))
           /\ \A i \in 1..(Len(s) + Len(t)) :
                (s \o t)[i] = IF i <= Len(s) THEN s[i] ELSE t[i - Len(s)]
OBVIOUS

LEMMA LeastNumber ==
    ASSUME NEW S, S \subseteq Nat, NEW k \in S
    PROVE  \E i \in S : \A j \in S : i <= j
<1>1. PICK x \in S : \A y \in S : ~ (<<y, x>> \in OpToRel(<, Nat))
  BY NatLessThanWellFounded, WFMin
<1>2. \A y \in S : ~ (y < x)
  BY <1>1, Zenon DEF OpToRel
<1>3. x \in Nat /\ \A y \in S : y \in Nat
  OBVIOUS
<1>4. QED BY <1>2, <1>3

\* Its own recognizers come first, in order, then those of its activations.
LEMMA WithActivations ==
    ASSUME NEW list, list \in Seq(Range(list))
    PROVE  LET all == BuiltIns \o Synthesize(list)
           IN  /\ DOMAIN all = 1..(3 + Len(list))
               /\ \A i \in 1..3 : all[i] = BuiltIns[i]
               /\ \A i \in 4..(3 + Len(list)) :
                    i - 3 \in 1..Len(list) /\ all[i] = Synthesized(list[i - 3])
<1> DEFINE S == {BuiltIns[i] : i \in 1..3} \union {Synthesized(a) : a \in Range(list)}
           ours == Synthesize(list)
           all == BuiltIns \o ours
<1>1. BuiltIns \in Seq(S) /\ ours \in Seq(S) /\ Len(BuiltIns) = 3 /\ Len(ours) = Len(list)
      /\ Len(list) \in Nat
  <2>1. BuiltIns \in Seq({BuiltIns[i] : i \in 1..3}) /\ Len(BuiltIns) = 3
    BY BuiltInKinds
  <2>2. Synthesize(list) \in Seq({Synthesized(a) : a \in Range(list)}) /\ Len(ours) = Len(list)
    BY SynthesizedSeq
  <2>3. QED BY <2>1, <2>2, SeqDef
<1> HIDE DEF S, ours
<1>2. /\ DOMAIN all = 1..(3 + Len(list))
      /\ \A i \in 1..(3 + Len(list)) : all[i] = IF i <= 3 THEN BuiltIns[i] ELSE ours[i - 3]
  <2>1. /\ DOMAIN all = 1..(Len(BuiltIns) + Len(ours))
        /\ \A i \in 1..(Len(BuiltIns) + Len(ours)) :
             all[i] = IF i <= Len(BuiltIns) THEN BuiltIns[i] ELSE ours[i - Len(BuiltIns)]
    BY <1>1, Joined
  <2> HIDE DEF all
  <2>2. QED BY <1>1, <2>1
<1>3. \A i \in 4..(3 + Len(list)) : i - 3 \in 1..Len(list)
  BY <1>1
<1>4. \A i \in 1..Len(list) : ours[i] = Synthesized(list[i])
  BY SynthesizedSeq DEF ours
<1> HIDE DEF all
<1>5. \A i \in 1..3 : all[i] = BuiltIns[i]
  BY <1>1, <1>2
<1>6. \A i \in 4..(3 + Len(list)) : all[i] = Synthesized(list[i - 3])
  BY <1>1, <1>2, <1>3, <1>4
<1>7. QED BY <1>2, <1>3, <1>5, <1>6 DEF all, ours

LEMMA SynthesizedVerdict ==
    ASSUME NEW s, NEW a
    PROVE  TryClassify(Synthesized(a), s) =
               IF s.prefix = a.prefix THEN Verdict(a.type, 10) ELSE None
BY DEF TryClassify, Synthesized


\* Without a hit, activations decide nothing.
LEMMA NoHit ==
    ASSUME NEW s, NEW list, list \in Seq(Range(list)), Hits(s, list) = {}
    PROVE  ComputeClassification(s, BuiltIns \o Synthesize(list)) =
               ComputeClassification(s, BuiltIns)
<1> DEFINE all == BuiltIns \o Synthesize(list)
<1>1. /\ DOMAIN all = 1..(3 + Len(list)) /\ Len(list) \in Nat
      /\ \A i \in 1..3 : all[i] = BuiltIns[i]
      /\ \A i \in 4..(3 + Len(list)) :
            i - 3 \in 1..Len(list) /\ all[i] = Synthesized(list[i - 3])
  BY WithActivations
<1>2. DOMAIN BuiltIns = 1..3
  BY DEF BuiltIns
<1> HIDE DEF all
<1>3. ASSUME NEW i \in 4..(3 + Len(list)) PROVE TryClassify(all[i], s) = None
  <2>1. list[i - 3] \in Range(list) /\ all[i] = Synthesized(list[i - 3])
    BY <1>1 DEF Range
  <2>2. list[i - 3].prefix # s.prefix
    BY <2>1 DEF Hits
  <2>3. QED BY <2>1, <2>2, SynthesizedVerdict
<1>4. {j \in DOMAIN all : TryClassify(all[j], s) # None} =
          {j \in DOMAIN BuiltIns : TryClassify(BuiltIns[j], s) # None}
  BY <1>1, <1>2, <1>3
<1>5. Verdicts(s, all) = Verdicts(s, BuiltIns)
  BY <1>1, <1>2, <1>4 DEF Verdicts
<1>6. QED BY <1>5 DEF ComputeClassification, Ensemble, all

\* What only prefixes match, the first activation with the prefix decides.
LEMMA SomeHit ==
    ASSUME NEW s, NEW list, list \in Seq(Range(list)), Hits(s, list) # {},
           DOMAIN Verdicts(s, BuiltIns) = {},
           \A a \in Range(list) : Verdict(a.type, 10) # None
    PROVE  \E a \in Hits(s, list) :
               ComputeClassification(s, BuiltIns \o Synthesize(list)) = a.type
<1> DEFINE all == BuiltIns \o Synthesize(list)
           verdicts == Verdicts(s, all)
<1>1. /\ DOMAIN all = 1..(3 + Len(list)) /\ Len(list) \in Nat
      /\ \A i \in 1..3 : all[i] = BuiltIns[i]
      /\ \A i \in 4..(3 + Len(list)) :
            i - 3 \in 1..Len(list) /\ all[i] = Synthesized(list[i - 3])
  BY WithActivations
<1>2. \A i \in 1..3 : TryClassify(BuiltIns[i], s) = None
  BY DEF Verdicts, BuiltIns
<1> HIDE DEF all
<1>3. ASSUME NEW i \in DOMAIN verdicts
      PROVE  /\ i \in 4..(3 + Len(list)) /\ list[i - 3] \in Hits(s, list)
             /\ verdicts[i] = Verdict(list[i - 3].type, 10)
  <2>1. i \in 1..(3 + Len(list)) /\ verdicts[i] = TryClassify(all[i], s) /\ verdicts[i] # None
    BY <1>1 DEF Verdicts
  <2>2. i \in 4..(3 + Len(list))
    BY <1>1, <1>2, <2>1
  <2>3. list[i - 3] \in Range(list) /\ all[i] = Synthesized(list[i - 3])
    BY <1>1, <2>2 DEF Range
  <2>4. QED BY <2>1, <2>2, <2>3, SynthesizedVerdict DEF Hits
<1>4. PICK a \in Hits(s, list) : TRUE
  OBVIOUS
<1>5. PICK k \in 1..Len(list) : list[k] = a
  BY <1>4 DEF Hits, Range
<1>6. k + 3 \in DOMAIN verdicts
  <2>1. k + 3 \in 4..(3 + Len(list)) /\ (k + 3) - 3 = k
    BY <1>1
  <2>2. all[k + 3] = Synthesized(a) /\ k + 3 \in DOMAIN all
    BY <1>1, <1>5, <2>1
  <2>3. TryClassify(all[k + 3], s) # None
    BY <1>4, <2>2, SynthesizedVerdict DEF Hits
  <2>4. QED BY <2>2, <2>3 DEF Verdicts
<1> HIDE DEF verdicts
<1>7. Winner(verdicts) \in DOMAIN verdicts
  <2>1. DOMAIN verdicts \subseteq Nat
    BY <1>1, <1>3
  <2>2. PICK i \in DOMAIN verdicts : \A j \in DOMAIN verdicts : i <= j
    BY <1>6, <2>1, LeastNumber
  <2>3. \A j \in DOMAIN verdicts : verdicts[j].specificity = 10
    BY <1>3 DEF Verdict
  <2>4. QED BY <2>2, <2>3 DEF Winner
<1>8. Ensemble(s, all) = verdicts[Winner(verdicts)]
  BY <1>6 DEF Ensemble, verdicts
<1> DEFINE w == Winner(verdicts)
<1>9. list[w - 3] \in Hits(s, list) /\ Ensemble(s, all) = Verdict(list[w - 3].type, 10)
  BY <1>3, <1>7, <1>8
<1>10. Ensemble(s, all) # None /\ Ensemble(s, all).type = list[w - 3].type
  BY <1>9 DEF Hits, Verdict
<1>11. QED BY <1>9, <1>10 DEF ComputeClassification, all

-----------------------------------------------------------------------------
(* Every cache, and every call, answers by its caller's activations. *)

Held(c) == IF c \in Corpora THEN activations[c] ELSE <<>>

\* What a classifier answers.
Correct(c, s) ==
    IF s.text = "" THEN "literal" ELSE ComputeClassification(s, classifiers[c].recognizers)

Computing(caller, s, recognizers) ==
    [at |-> "computing", caller |-> caller, segment |-> s, recognizers |-> recognizers]

Registry ==
    /\ DOMAIN classifiers = Classifiers /\ DOMAIN activations = Corpora
    /\ DOMAIN calls = Threads
    /\ \A c \in Corpora : activations[c] \in Activations \union {<<>>}
    /\ \A c \in Classifiers :
        classifiers[c] = [recognizers |-> BuiltIns \o Synthesize(Held(c)),
                          cache |-> classifiers[c].cache]

Remembered ==
    \A c \in Classifiers : \A s \in DOMAIN classifiers[c].cache :
        s.text # "" /\ classifiers[c].cache[s] = Correct(c, s)

CallRight(call) ==
    \/ call = Idle
    \/ \E caller \in Callers, s \in Segments :
        \/ /\ s.text # ""
           /\ call = Computing(caller, s, classifiers[ClassifierOf(caller)].recognizers)
        \/ call = Answer(caller, s, Correct(ClassifierOf(caller), s))

Current == Registry /\ Remembered /\ \A t \in Threads : CallRight(calls[t])

LEMMA CallShape ==
    ASSUME NEW call, CallRight(call)
    PROVE  /\ call.at = "computing" =>
                /\ call.caller \in Callers /\ call.segment \in Segments
                /\ call.segment.text # ""
                /\ call.recognizers = classifiers[ClassifierOf(call.caller)].recognizers
           /\ call.at = "answered" =>
                /\ call.caller \in Callers /\ call.segment \in Segments
                /\ call.type = Correct(ClassifierOf(call.caller), call.segment)
           /\ call # Idle => call.caller \in Callers
<1>1. CASE call = Idle
  BY <1>1 DEF Idle
<1>2. CASE call # Idle
  <2>1. PICK caller \in Callers, s \in Segments :
            \/ /\ s.text # ""
               /\ call = Computing(caller, s, classifiers[ClassifierOf(caller)].recognizers)
            \/ call = Answer(caller, s, Correct(ClassifierOf(caller), s))
    BY <1>2 DEF CallRight
  <2>2. ASSUME s.text # "", call = Computing(caller, s, classifiers[ClassifierOf(caller)].recognizers)
        PROVE  /\ call.at = "computing" /\ call.caller = caller /\ call.segment = s
               /\ call.recognizers = classifiers[ClassifierOf(caller)].recognizers
    BY <2>2 DEF Computing
  <2>3. ASSUME call = Answer(caller, s, Correct(ClassifierOf(caller), s))
        PROVE  /\ call.at = "answered" /\ call.caller = caller /\ call.segment = s
               /\ call.type = Correct(ClassifierOf(caller), s)
    BY <2>3 DEF Answer
  <2>4. QED BY <2>1, <2>2, <2>3
<1>3. QED BY <1>1, <1>2

LEMMA ClassifierKnown ==
    ASSUME NEW caller \in Callers
    PROVE  ClassifierOf(caller) \in Classifiers
BY DEF ClassifierOf, Callers, Classifiers

LEMMA InitCurrent == Init => Current
<1> SUFFICES ASSUME Init PROVE Current
  OBVIOUS
<1>1. Synthesize(<<>>) = <<>> /\ BuiltIns \o <<>> = BuiltIns
  BY DEF Synthesize, BuiltIns
<1>2. \A c \in Classifiers : Held(c) = <<>>
  BY DEF Init, Held
<1>3. \A c \in Classifiers :
        /\ classifiers[c] = [recognizers |-> BuiltIns, cache |-> NoAnswers]
        /\ DOMAIN classifiers[c].cache = {}
  BY DEF Init, NewClassifier, NoAnswers
<1>4. Registry
  <2>1. \A c \in Corpora : activations[c] = <<>>
    BY DEF Init
  <2>2. DOMAIN classifiers = Classifiers /\ DOMAIN activations = Corpora
        /\ DOMAIN calls = Threads
    BY DEF Init
  <2>3. ASSUME NEW c \in Classifiers
        PROVE  classifiers[c] = [recognizers |-> BuiltIns \o Synthesize(Held(c)),
                                 cache |-> classifiers[c].cache]
    <3>1. BuiltIns \o Synthesize(Held(c)) = BuiltIns
      BY <1>1, <1>2
    <3>2. classifiers[c].cache = NoAnswers
      BY <1>3
    <3>3. QED BY <1>3, <3>1, <3>2
  <2>4. QED BY <2>1, <2>2, <2>3 DEF Registry
<1>5. QED BY <1>3, <1>4 DEF Current, Remembered, CallRight, Init

\* What is right stays so while the classifiers keep their recognizers.
LEMMA StillRight ==
    ASSUME UNCHANGED activations, NEW call, CallRight(call),
           \A c \in Classifiers : classifiers'[c].recognizers = classifiers[c].recognizers
    PROVE  /\ CallRight(call)'
           /\ \A c \in Classifiers : \A s : Correct(c, s)' = Correct(c, s)
<1>1. \A c \in Classifiers : \A s : Correct(c, s)' = Correct(c, s)
  BY DEF Correct
<1>2. \A caller \in Callers : ClassifierOf(caller)' = ClassifierOf(caller)
                             /\ ClassifierOf(caller) \in Classifiers
  BY ClassifierKnown DEF ClassifierOf
<1>3. QED BY <1>1, <1>2 DEF CallRight

LEMMA AskCurrent ==
    ASSUME Current, NEW t \in Threads, NEW caller \in Callers, NEW segment \in Segments,
           Ask(t, caller, segment)
    PROVE  Current'
<1> DEFINE c == ClassifierOf(caller)
           known == segment \in DOMAIN classifiers[c].cache
<1>1. c \in Classifiers
  BY ClassifierKnown
<1>2. /\ UNCHANGED activations
      /\ calls' = [calls EXCEPT ![t] =
            CASE segment.text = "" -> Answer(caller, segment, "literal")
              [] segment.text # "" /\ known ->
                    Answer(caller, segment, classifiers[c].cache[segment])
              [] OTHER -> [at |-> "computing", caller |-> caller, segment |-> segment,
                           recognizers |-> classifiers[c].recognizers]]
      /\ \/ classifiers' = classifiers
         \/ classifiers' = [classifiers EXCEPT ![c] = RoomIn(@)]
  BY DEF Ask
<1>3. \/ classifiers'[c] = classifiers[c]
      \/ classifiers'[c] = [recognizers |-> classifiers[c].recognizers, cache |-> NoAnswers]
  BY <1>1, <1>2 DEF RoomIn, Current, Registry
<1>4. \A d \in Classifiers \ {c} : classifiers'[d] = classifiers[d]
  BY <1>1, <1>2 DEF Current, Registry
<1>5. \A d \in Classifiers :
        /\ classifiers'[d].recognizers = classifiers[d].recognizers
        /\ classifiers'[d].cache \in {classifiers[d].cache, NoAnswers}
  BY <1>3, <1>4
<1>6. Registry'
  <2>1. \A d \in Classifiers : Held(d)' = Held(d)
    BY <1>2 DEF Held
  <2>2. ASSUME NEW d \in Classifiers
        PROVE  classifiers'[d] = [recognizers |-> BuiltIns \o Synthesize(Held(d)),
                                  cache |-> classifiers'[d].cache]
    <3> DEFINE own == BuiltIns \o Synthesize(Held(d))
    <3>1. classifiers[d] = [recognizers |-> own, cache |-> classifiers[d].cache]
      BY DEF Current, Registry
    <3> HIDE DEF own
    <3>2. classifiers'[d] = classifiers[d]
          \/ classifiers'[d] = [recognizers |-> classifiers[d].recognizers, cache |-> NoAnswers]
      BY <1>3, <1>4
    <3>3. classifiers[d].recognizers = own
      BY <3>1
    <3>4. classifiers'[d] = [recognizers |-> own, cache |-> classifiers'[d].cache]
      BY <3>1, <3>2, <3>3
    <3>5. QED BY <3>4 DEF own
  <2>3. DOMAIN classifiers' = Classifiers /\ DOMAIN calls' = Threads
    BY <1>2 DEF Current, Registry
  <2>4. QED BY <1>2, <2>1, <2>2, <2>3 DEF Current, Registry
<1>7. /\ \A u \in Threads : CallRight(calls[u])'
      /\ \A d \in Classifiers : \A s : Correct(d, s)' = Correct(d, s)
  <2> DEFINE new == calls'[t]
  <2>1. CallRight(new)
    <3>1. \/ segment.text = "" /\ new = Answer(caller, segment, "literal")
          \/ segment.text # "" /\ known /\ new = Answer(caller, segment, classifiers[c].cache[segment])
          \/ segment.text # "" /\ new = Computing(caller, segment, classifiers[c].recognizers)
      BY <1>2 DEF Current, Registry, Computing
    <3>2. known => classifiers[c].cache[segment] = Correct(c, segment)
      BY <1>1 DEF Current, Remembered
    <3>3. segment.text = "" => Correct(c, segment) = "literal"
      BY DEF Correct
    <3> HIDE DEF new, known
    <3>4. QED BY <3>1, <3>2, <3>3 DEF CallRight
  <2>2. \A u \in Threads : CallRight(calls'[u])
    BY <1>2, <2>1 DEF Current, Registry
  <2>3. QED BY <1>2, <1>5, <2>2, StillRight
<1>8. Remembered'
  <2> SUFFICES ASSUME NEW d \in Classifiers, NEW s \in DOMAIN classifiers'[d].cache
               PROVE  s.text # "" /\ classifiers'[d].cache[s] = Correct(d, s)'
    BY DEF Remembered
  <2>1. DOMAIN NoAnswers = {}
    BY DEF NoAnswers
  <2>2. classifiers'[d].cache = classifiers[d].cache
    BY <1>5, <2>1
  <2>3. QED BY <1>7, <2>2 DEF Current, Remembered
<1>9. QED BY <1>6, <1>7, <1>8 DEF Current

LEMMA InsertCurrent ==
    ASSUME Current, NEW t \in Threads, Insert(t)
    PROVE  Current'
<1> DEFINE call == calls[t]
           c == ClassifierOf(call.caller)
           type == ComputeClassification(call.segment, call.recognizers)
           cache == Added(classifiers[c].cache, call.segment, type)
<1>1. /\ call.at = "computing" /\ UNCHANGED activations
      /\ classifiers' = [classifiers EXCEPT ![c].cache = cache]
      /\ calls' = [calls EXCEPT ![t] = Answer(call.caller, call.segment, type)]
  BY DEF Insert
<1>2. /\ call.caller \in Callers /\ call.segment \in Segments /\ c \in Classifiers
      /\ type = Correct(c, call.segment) /\ call.segment.text # ""
  BY <1>1, CallShape, ClassifierKnown DEF Current, Correct
<1>3. /\ DOMAIN cache = DOMAIN classifiers[c].cache \union {call.segment}
      /\ cache[call.segment] = type
      /\ \A s \in DOMAIN classifiers[c].cache \ {call.segment} : cache[s] = classifiers[c].cache[s]
  <2> HIDE DEF type, c, call
  <2>1. QED BY DEF Added
<1> HIDE DEF cache, type, c, call
<1>4. classifiers'[c] = [recognizers |-> classifiers[c].recognizers, cache |-> cache]
  <2> DEFINE own == BuiltIns \o Synthesize(Held(c))
  <2>1. classifiers[c] = [recognizers |-> own, cache |-> classifiers[c].cache]
        /\ c \in DOMAIN classifiers
    BY <1>2 DEF Current, Registry
  <2> HIDE DEF own
  <2>2. QED BY <1>1, <2>1
<1>5. \A d \in Classifiers \ {c} : classifiers'[d] = classifiers[d]
  BY <1>1 DEF Current, Registry
<1>6. \A d \in Classifiers : classifiers'[d].recognizers = classifiers[d].recognizers
  BY <1>4, <1>5
<1>7. /\ \A u \in Threads : CallRight(calls[u])'
      /\ \A d \in Classifiers : \A s : Correct(d, s)' = Correct(d, s)
  <2>1. c = ClassifierOf(call.caller)
    BY DEF c
  <2>2. CallRight(Answer(call.caller, call.segment, type))
    BY <1>2, <2>1 DEF CallRight
  <2>3. \A u \in Threads : CallRight(calls'[u])
    BY <1>1, <2>2 DEF Current, Registry
  <2>4. QED BY <1>1, <1>6, <2>3, StillRight
<1>8. Remembered'
  <2> SUFFICES ASSUME NEW d \in Classifiers, NEW s \in DOMAIN classifiers'[d].cache
               PROVE  s.text # "" /\ classifiers'[d].cache[s] = Correct(d, s)'
    BY DEF Remembered
  <2>1. CASE d # c
    <3>1. classifiers'[d] = classifiers[d]
      BY <1>5, <2>1
    <3>2. s.text # "" /\ classifiers[d].cache[s] = Correct(d, s)
      BY <3>1 DEF Current, Remembered
    <3>3. QED BY <1>7, <3>1, <3>2
  <2>2. CASE d = c
    <3>1. classifiers'[d].cache = cache
      BY <1>4, <2>2
    <3>2. CASE s = call.segment
      BY <1>2, <1>3, <1>7, <2>2, <3>1, <3>2
    <3>3. CASE s # call.segment
      <4>1. s \in DOMAIN classifiers[c].cache /\ cache[s] = classifiers[c].cache[s]
        BY <1>3, <3>1, <3>3
      <4>2. s.text # "" /\ classifiers[c].cache[s] = Correct(c, s)
        BY <1>2, <4>1 DEF Current, Remembered
      <4>3. QED BY <1>2, <1>7, <2>2, <3>1, <4>1, <4>2
    <3>4. QED BY <3>2, <3>3
  <2>3. QED BY <2>1, <2>2
<1>9. Registry'
  <2>1. \A d \in Classifiers : Held(d)' = Held(d)
    BY <1>1 DEF Held
  <2>2. ASSUME NEW d \in Classifiers
        PROVE  classifiers'[d] = [recognizers |-> BuiltIns \o Synthesize(Held(d)),
                                  cache |-> classifiers'[d].cache]
    <3> DEFINE own == BuiltIns \o Synthesize(Held(d))
    <3>1. classifiers[d] = [recognizers |-> own, cache |-> classifiers[d].cache]
      BY DEF Current, Registry
    <3> HIDE DEF own
    <3>2. classifiers'[d] = [recognizers |-> own, cache |-> classifiers'[d].cache]
      BY <1>4, <1>5, <3>1
    <3>3. QED BY <3>2 DEF own
  <2>3. DOMAIN classifiers' = Classifiers /\ DOMAIN calls' = Threads
    BY <1>1 DEF Current, Registry
  <2>4. QED BY <1>1, <2>1, <2>2, <2>3 DEF Current, Registry
<1>10. QED BY <1>7, <1>8, <1>9 DEF Current

LEMMA ReturnCurrent ==
    ASSUME Current, NEW t \in Threads, Return(t)
    PROVE  Current'
<1>1. calls' = [calls EXCEPT ![t] = Idle] /\ UNCHANGED <<classifiers, activations>>
  BY DEF Return
<1>2. \A u \in Threads : CallRight(calls'[u])
  BY <1>1 DEF Current, Registry, CallRight
<1>3. \A u \in Threads : CallRight(calls[u])'
  BY <1>1, <1>2, StillRight
<1>4. Registry'
  BY <1>1 DEF Current, Registry, Held
<1>5. Remembered'
  BY <1>1 DEF Current, Remembered, Correct
<1>6. QED BY <1>3, <1>4, <1>5 DEF Current

\* Nobody who is in a call goes to the classifier that is replaced, or to another
\* one than before.
LEMMA UseActivationsCurrent ==
    ASSUME Current, NEW corpus \in Corpora, NEW list \in Activations,
           UseActivations(corpus, list)
    PROVE  Current'
<1> DEFINE own == BuiltIns \o Synthesize(list)
<1>1. /\ \A t \in Threads : calls[t] # Idle => calls[t].caller # corpus
      /\ classifiers' = [classifiers EXCEPT ![corpus] = [recognizers |-> own, cache |-> NoAnswers]]
      /\ activations' = [activations EXCEPT ![corpus] = list] /\ UNCHANGED calls
  BY DEF UseActivations, InUse, Activated, Registered, NewClassifier, Synthesize
<1> HIDE DEF own
<1>2. corpus \in Classifiers /\ corpus \notin {"library", "shared"}
  BY CallersAssumption DEF Classifiers
<1>3. /\ classifiers'[corpus] = [recognizers |-> own, cache |-> NoAnswers]
      /\ \A d \in Classifiers \ {corpus} : classifiers'[d] = classifiers[d]
  BY <1>1, <1>2 DEF Current, Registry
<1>4. \A d \in Classifiers : Held(d)' = IF d = corpus THEN list ELSE Held(d)
  BY <1>1 DEF Current, Registry, Held
<1>5. Registry'
  <2>1. ASSUME NEW d \in Classifiers
        PROVE  classifiers'[d] = [recognizers |-> BuiltIns \o Synthesize(Held(d)'),
                                  cache |-> classifiers'[d].cache]
    <3>1. CASE d = corpus
      <4>1. Held(d)' = list
        BY <1>4, <3>1
      <4>2. classifiers'[d] = [recognizers |-> own, cache |-> classifiers'[d].cache]
        BY <1>3, <3>1
      <4>3. QED BY <4>1, <4>2 DEF own
    <3>2. CASE d # corpus
      BY <1>3, <1>4, <3>2 DEF Current, Registry
    <3>3. QED BY <3>1, <3>2
  <2>2. DOMAIN classifiers' = Classifiers /\ DOMAIN activations' = Corpora /\ DOMAIN calls' = Threads
        /\ \A d \in Corpora : activations'[d] \in Activations \union {<<>>}
    BY <1>1 DEF Current, Registry
  <2>3. QED BY <2>1, <2>2 DEF Registry, Synthesize
<1>6. Remembered'
  <2> SUFFICES ASSUME NEW d \in Classifiers, NEW s \in DOMAIN classifiers'[d].cache
               PROVE  s.text # "" /\ classifiers'[d].cache[s] = Correct(d, s)'
    BY DEF Remembered
  <2>1. DOMAIN NoAnswers = {}
    BY DEF NoAnswers
  <2>2. classifiers'[d] = classifiers[d]
    BY <1>3, <2>1
  <2>3. QED BY <2>2 DEF Current, Remembered, Correct
<1>7. ASSUME NEW caller \in Callers, caller # corpus
      PROVE  /\ ClassifierOf(caller)' = ClassifierOf(caller)
             /\ classifiers'[ClassifierOf(caller)] = classifiers[ClassifierOf(caller)]
  <2>1. ClassifierOf(caller)' = ClassifierOf(caller)
    BY <1>1, <1>7 DEF ClassifierOf, Current, Registry
  <2>2. ClassifierOf(caller) # corpus
    BY <1>2, <1>7 DEF ClassifierOf
  <2>3. QED BY <1>3, <2>1, <2>2, ClassifierKnown
<1>8. ASSUME NEW t \in Threads PROVE CallRight(calls[t])'
  <2>1. CallRight(calls[t]) /\ (calls[t] # Idle => calls[t].caller # corpus) /\ calls'[t] = calls[t]
    BY <1>1 DEF Current
  <2>2. CASE calls[t] = Idle
    BY <2>1, <2>2 DEF CallRight
  <2>3. CASE calls[t] # Idle
    <3>1. PICK caller \in Callers, s \in Segments :
            \/ /\ s.text # ""
               /\ calls[t] = Computing(caller, s, classifiers[ClassifierOf(caller)].recognizers)
            \/ calls[t] = Answer(caller, s, Correct(ClassifierOf(caller), s))
      BY <2>1, <2>3 DEF CallRight
    <3>2. calls[t].caller = caller
      <4>1. ASSUME NEW recs, calls[t] = Computing(caller, s, recs) PROVE calls[t].caller = caller
        BY <4>1 DEF Computing
      <4>2. ASSUME NEW type, calls[t] = Answer(caller, s, type) PROVE calls[t].caller = caller
        BY <4>2 DEF Answer
      <4>3. QED BY <3>1, <4>1, <4>2
    <3>3. /\ ClassifierOf(caller)' = ClassifierOf(caller)
          /\ classifiers'[ClassifierOf(caller)] = classifiers[ClassifierOf(caller)]
      BY <1>7, <2>1, <2>3, <3>2
    <3>4. Correct(ClassifierOf(caller), s)' = Correct(ClassifierOf(caller), s)
      BY <3>3 DEF Correct
    <3>5. QED BY <2>1, <3>1, <3>3, <3>4 DEF CallRight
  <2>4. QED BY <2>2, <2>3
<1>9. QED BY <1>5, <1>6, <1>8 DEF Current

LEMMA NextCurrent == Current /\ [Next]_vars => Current'
<1> SUFFICES ASSUME Current, [Next]_vars PROVE Current'
  OBVIOUS
<1>1. CASE UNCHANGED vars
  <2>1. Registry' /\ Remembered'
    BY <1>1 DEF vars, Current, Registry, Remembered, Held, Correct
  <2>2. \A t \in Threads : CallRight(calls[t])'
    BY <1>1 DEF vars, Current, CallRight, Correct, ClassifierOf
  <2>3. QED BY <2>1, <2>2 DEF Current
<1>2. QED BY <1>1, AskCurrent, InsertCurrent, ReturnCurrent, UseActivationsCurrent DEF Next

LEMMA CurrentAlways == Spec => []Current
BY InitCurrent, NextCurrent, PTL DEF Spec

\* Whoever asks, however often, however the cache was filled or emptied and whatever
\* other corpora activated meanwhile: a segment without an activation of the
\* caller's for its prefix has its documented type, one with an activation that
\* activation's type (classifier.rs `classify`, corpus.rs `use_activations`).
THEOREM AnswersAlwaysCurrent == Spec => []AnswersCurrent
<1>1. Current => AnswersCurrent
  <2> SUFFICES ASSUME Current, NEW t \in Threads, calls[t].at = "answered"
               PROVE  LET call == calls[t]
                          list == IF call.caller \in Corpora THEN activations[call.caller] ELSE <<>>
                          hits == {a \in Range(list) : a.prefix = call.segment.prefix}
                      IN  IF hits = {} THEN call.type = call.segment.documented
                          ELSE \E a \in hits : call.type = a.type
    BY DEF AnswersCurrent
  <2> DEFINE call == calls[t]
             s == call.segment
             list == IF call.caller \in Corpora THEN activations[call.caller] ELSE <<>>
             c == ClassifierOf(call.caller)
  <2>1. /\ call.caller \in Callers /\ s \in Segments /\ c \in Classifiers
        /\ call.type = Correct(c, s)
    BY CallShape, ClassifierKnown DEF Current
  <2>2. list = Held(c)
    BY <2>1, CallersAssumption DEF ClassifierOf, Held, Callers
  <2>3. list \in Activations \union {<<>>}
    BY DEF Current, Registry
  <2>4. classifiers[c].recognizers = BuiltIns \o Synthesize(list)
    <3>1. classifiers[c] = [recognizers |-> BuiltIns \o Synthesize(Held(c)),
                            cache |-> classifiers[c].cache]
      BY <2>1 DEF Current, Registry
    <3> DEFINE own == BuiltIns \o Synthesize(Held(c))
    <3> HIDE DEF own
    <3>2. classifiers[c] = [recognizers |-> own, cache |-> classifiers[c].cache]
      BY <3>1 DEF own
    <3>3. classifiers[c].recognizers = own
      BY <3>2
    <3>4. QED BY <2>2, <3>3 DEF own
  <2>5. /\ list \in Seq(Range(list))
        /\ \A a \in Range(list) : a.prefix # None /\ Verdict(a.type, 10) # None
    <3>1. CASE list = <<>>
      <4> HIDE DEF list
      <4>1. Range(<<>>) = {}
        BY DEF Range
      <4>2. QED BY <3>1, <4>1
    <3>2. CASE list \in Activations
      <4> HIDE DEF list
      <4>1. QED BY <3>2, ActivationsAssumption
    <3>3. QED BY <2>3, <3>1, <3>2
  <2>6. /\ s.documented = IF s.text = "" THEN "literal" ELSE ComputeClassification(s, BuiltIns)
        /\ s.prefix # None => s.text # "" /\ DOMAIN Verdicts(s, BuiltIns) = {}
    BY <2>1, SegmentsAssumption
  <2> HIDE DEF list, s, c
  <2>7. CASE Hits(s, list) = {}
    <3>1. Correct(c, s) = s.documented
      BY <2>4, <2>5, <2>6, <2>7, NoHit DEF Correct
    <3>2. QED BY <2>1, <2>7, <3>1 DEF Hits, s, list
  <2>8. CASE Hits(s, list) # {}
    <3>1. s.prefix # None
      BY <2>5, <2>8 DEF Hits
    <3>2. \E a \in Hits(s, list) : ComputeClassification(s, BuiltIns \o Synthesize(list)) = a.type
      BY <2>5, <2>6, <2>8, <3>1, SomeHit
    <3>3. Correct(c, s) = ComputeClassification(s, BuiltIns \o Synthesize(list))
      BY <2>4, <2>6, <3>1 DEF Correct
    <3>4. QED BY <2>1, <2>8, <3>2, <3>3 DEF Hits, s, list
  <2>9. QED BY <2>7, <2>8
<1>2. QED BY <1>1, CurrentAlways, PTL

-----------------------------------------------------------------------------
(* Room in a cache: each thread that found some, and has not inserted its   *)
(* answer yet, may still add one.                                           *)

Cached(c) == DOMAIN classifiers[c].cache

Outstanding(c) ==
    {t \in Threads : calls[t].at = "computing" /\ ClassifierOf(calls[t].caller) = c}

Bound == CacheMax + Cardinality(Threads) - 1

Roomy ==
    \A c \in Classifiers :
        /\ IsFiniteSet(Cached(c))
        /\ Cardinality(Cached(c)) + Cardinality(Outstanding(c)) <= Bound

LEMMA OutstandingFinite ==
    ASSUME NEW c
    PROVE  /\ IsFiniteSet(Outstanding(c)) /\ Cardinality(Outstanding(c)) \in Nat
           /\ Cardinality(Outstanding(c)) <= Cardinality(Threads)
           /\ Cardinality(Threads) \in Nat /\ Bound \in Int
<1>1. Outstanding(c) \subseteq Threads
  BY DEF Outstanding
<1>2. QED BY <1>1, CallersAssumption, CacheMaxAssumption, FS_Subset, FS_CardinalityType DEF Bound

\* A classifier whose cache does not grow and which no further thread owes an answer.
LEMMA NoMore ==
    ASSUME Roomy, NEW c \in Classifiers, Cached(c)' \subseteq Cached(c),
           Outstanding(c)' \subseteq Outstanding(c)
    PROVE  /\ IsFiniteSet(Cached(c)')
           /\ Cardinality(Cached(c)') + Cardinality(Outstanding(c)') <= Bound
<1>1. IsFiniteSet(Cached(c)') /\ Cardinality(Cached(c)') <= Cardinality(Cached(c))
  BY FS_Subset DEF Roomy
<1>2. Cardinality(Outstanding(c)') <= Cardinality(Outstanding(c))
  BY OutstandingFinite, FS_Subset
<1>3. /\ Cardinality(Cached(c)') \in Nat /\ Cardinality(Cached(c)) \in Nat
      /\ Cardinality(Outstanding(c)) \in Nat /\ Cardinality(Outstanding(c)') \in Nat
  <2>1. IsFiniteSet(Outstanding(c)')
    BY OutstandingFinite, FS_Subset
  <2>2. QED BY <1>1, <2>1, OutstandingFinite, FS_CardinalityType DEF Roomy
<1>4. QED BY <1>1, <1>2, <1>3, OutstandingFinite DEF Roomy

LEMMA InitRoomy == Init => Roomy
<1> SUFFICES ASSUME Init, NEW c \in Classifiers
             PROVE  /\ IsFiniteSet(Cached(c))
                    /\ Cardinality(Cached(c)) + Cardinality(Outstanding(c)) <= Bound
  BY DEF Roomy
<1>1. Cached(c) = {} /\ Outstanding(c) = {}
  BY DEF Init, NewClassifier, NoAnswers, Cached, Outstanding, Idle
<1>2. QED BY <1>1, FS_EmptySet, OutstandingFinite, CacheMaxAssumption DEF Bound

LEMMA AskRoomy ==
    ASSUME Current, Roomy, NEW t \in Threads, NEW caller \in Callers, NEW segment \in Segments,
           Ask(t, caller, segment)
    PROVE  Roomy'
<1> DEFINE c == ClassifierOf(caller)
           known == segment.text = "" \/ segment \in DOMAIN classifiers[c].cache
<1>1. /\ c \in Classifiers /\ UNCHANGED activations
      /\ classifiers' = IF known THEN classifiers ELSE [classifiers EXCEPT ![c] = RoomIn(@)]
      /\ \A u \in Threads \ {t} : calls'[u] = calls[u]
      /\ known => calls'[t].at = "answered"
      /\ ~known => calls'[t].caller = caller
  <2>1. known => \E type : calls'[t] = Answer(caller, segment, type)
    BY DEF Ask, Current, Registry
  <2>2. ~known => calls'[t] = Computing(caller, segment, classifiers[c].recognizers)
    BY DEF Ask, Current, Registry, Computing
  <2>3. /\ UNCHANGED activations
        /\ classifiers' = IF known THEN classifiers ELSE [classifiers EXCEPT ![c] = RoomIn(@)]
        /\ \A u \in Threads \ {t} : calls'[u] = calls[u]
    BY DEF Ask, Current, Registry
  <2>4. c \in Classifiers
    BY ClassifierKnown
  <2> HIDE DEF known, c
  <2>5. known => calls'[t].at = "answered"
    <3>1. \A type : Answer(caller, segment, type).at = "answered"
      BY DEF Answer
    <3>2. QED BY <2>1, <3>1
  <2>6. ~known => calls'[t].caller = caller
    BY <2>2 DEF Computing
  <2>7. QED BY <2>3, <2>4, <2>5, <2>6
<1>2. \A d : ClassifierOf(d)' = ClassifierOf(d)
  BY <1>1 DEF ClassifierOf
<1> SUFFICES ASSUME NEW d \in Classifiers
             PROVE  /\ IsFiniteSet(Cached(d)')
                    /\ Cardinality(Cached(d)') + Cardinality(Outstanding(d)') <= Bound
  BY DEF Roomy, Bound
<1>3. CASE known \/ d # c
  <2>1. Cached(d)' = Cached(d)
    BY <1>1, <1>3 DEF Cached, Current, Registry
  <2>2. Outstanding(d)' \subseteq Outstanding(d)
    <3>1. \A u \in Threads : calls'[u].at = "computing" /\ ClassifierOf(calls'[u].caller) = d => u # t
      BY <1>1, <1>3
    <3>2. QED BY <1>1, <3>1 DEF Outstanding, ClassifierOf
  <2>3. QED BY <2>1, <2>2, NoMore
<1>4. CASE ~known /\ d = c
  <2>1. classifiers'[d] = RoomIn(classifiers[d])
    BY <1>1, <1>4 DEF Current, Registry
  <2>2. IsFiniteSet(Cached(d)') /\ Cardinality(Cached(d)') <= CacheMax - 1
    <3>1. CASE Full(classifiers[d])
      <4> DEFINE own == BuiltIns \o Synthesize(Held(d))
      <4>1. classifiers[d] = [recognizers |-> own, cache |-> classifiers[d].cache]
        BY <1>1 DEF Current, Registry
      <4> HIDE DEF own
      <4>2. classifiers'[d].cache = NoAnswers
        BY <2>1, <3>1, <4>1 DEF RoomIn
      <4>3. Cached(d)' = {}
        BY <4>2 DEF Cached, NoAnswers
      <4>4. QED BY <4>3, FS_EmptySet, CacheMaxAssumption
    <3>2. CASE ~Full(classifiers[d])
      <4>1. Cached(d)' = Cached(d)
        BY <2>1, <3>2 DEF RoomIn, Cached
      <4>2. IsFiniteSet(Cached(d)) /\ ~(Cardinality(Cached(d)) >= CacheMax)
        BY <3>2 DEF Full, Cached, Roomy
      <4>3. QED BY <4>1, <4>2, FS_CardinalityType, CacheMaxAssumption
    <3>3. QED BY <3>1, <3>2
  <2>3. Outstanding(d)' \subseteq Threads
    BY DEF Outstanding
  <2>4. /\ Cardinality(Outstanding(d)') <= Cardinality(Threads)
        /\ Cardinality(Outstanding(d)') \in Nat /\ Cardinality(Cached(d)') \in Nat
    BY <2>2, <2>3, CallersAssumption, FS_Subset, FS_CardinalityType
  <2>5. Cardinality(Threads) \in Nat
    BY OutstandingFinite
  <2>6. QED BY <2>2, <2>4, <2>5, CacheMaxAssumption DEF Bound
<1>5. QED BY <1>3, <1>4

LEMMA InsertRoomy ==
    ASSUME Current, Roomy, NEW t \in Threads, Insert(t)
    PROVE  Roomy'
<1> DEFINE call == calls[t]
           type == ComputeClassification(call.segment, call.recognizers)
<1>1. PICK c \in Classifiers :
        /\ c = ClassifierOf(call.caller)
        /\ classifiers' = [classifiers EXCEPT ![c].cache = Added(@, call.segment, type)]
  BY CallShape, ClassifierKnown DEF Insert, Current
<1>2. /\ call.at = "computing" /\ UNCHANGED activations
      /\ calls' = [calls EXCEPT ![t] = Answer(call.caller, call.segment, type)]
  BY DEF Insert
<1>3. /\ \A u \in Threads \ {t} : calls'[u] = calls[u]
      /\ calls'[t].at = "answered"
  BY <1>2 DEF Answer, Current, Registry
<1> HIDE DEF type
<1> SUFFICES ASSUME NEW d \in Classifiers
             PROVE  /\ IsFiniteSet(Cached(d)')
                    /\ Cardinality(Cached(d)') + Cardinality(Outstanding(d)') <= Bound
  BY DEF Roomy, Bound
<1>4. \A u \in Threads : calls'[u].at = "computing" => u # t
  BY <1>3
<1>5. CASE d # c
  <2>1. Cached(d)' = Cached(d)
    BY <1>1, <1>5 DEF Cached, Current, Registry
  <2>2. Outstanding(d)' \subseteq Outstanding(d)
    BY <1>2, <1>3, <1>4 DEF Outstanding, ClassifierOf
  <2>3. QED BY <2>1, <2>2, NoMore
<1>6. CASE d = c
  <2>1. Cached(d)' = Cached(d) \union {call.segment}
    <3> DEFINE own == BuiltIns \o Synthesize(Held(d))
    <3>1. classifiers[d] = [recognizers |-> own, cache |-> classifiers[d].cache]
          /\ d \in DOMAIN classifiers
      BY DEF Current, Registry
    <3> HIDE DEF own
    <3>2. classifiers'[d].cache = Added(classifiers[d].cache, call.segment, type)
      BY <1>1, <1>6, <3>1
    <3>3. QED BY <3>2 DEF Added, Cached
  <2>2. /\ IsFiniteSet(Cached(d)') /\ Cardinality(Cached(d)') <= Cardinality(Cached(d)) + 1
        /\ Cardinality(Cached(d)) \in Nat /\ Cardinality(Cached(d)') \in Nat
    <3>1. IsFiniteSet(Cached(d)) /\ Cardinality(Cached(d)) \in Nat
      BY FS_CardinalityType DEF Roomy
    <3>2. /\ IsFiniteSet(Cached(d) \union {call.segment})
          /\ Cardinality(Cached(d) \union {call.segment}) \in
                {Cardinality(Cached(d)), Cardinality(Cached(d)) + 1}
      BY <3>1, FS_AddElement
    <3>3. QED BY <2>1, <3>1, <3>2
  <2>3. t \in Outstanding(d) /\ Outstanding(d)' = Outstanding(d) \ {t}
    BY <1>1, <1>2, <1>3, <1>4, <1>6 DEF Outstanding, ClassifierOf
  <2>4. Cardinality(Outstanding(d)') = Cardinality(Outstanding(d)) - 1
    BY <2>3, OutstandingFinite, FS_RemoveElement
  <2>5. Cardinality(Cached(d)) + Cardinality(Outstanding(d)) <= Bound
    BY DEF Roomy
  <2>6. QED BY <2>2, <2>4, <2>5, OutstandingFinite
<1>7. QED BY <1>5, <1>6

LEMMA ReturnRoomy ==
    ASSUME Current, Roomy, NEW t \in Threads, Return(t)
    PROVE  Roomy'
<1>1. calls' = [calls EXCEPT ![t] = Idle] /\ UNCHANGED <<classifiers, activations>>
  BY DEF Return
<1>2. \A u \in Threads : calls'[u].at = "computing" => calls'[u] = calls[u]
  BY <1>1 DEF Idle, Current, Registry
<1>3. ASSUME NEW d \in Classifiers
      PROVE  Cached(d)' = Cached(d) /\ Outstanding(d)' \subseteq Outstanding(d)
  BY <1>1, <1>2 DEF Cached, Outstanding, ClassifierOf
<1>4. QED BY <1>3, NoMore DEF Roomy, Bound

LEMMA UseActivationsRoomy ==
    ASSUME Current, Roomy, NEW corpus \in Corpora, NEW list \in Activations,
           UseActivations(corpus, list)
    PROVE  Roomy'
<1>1. /\ \A t \in Threads : calls[t] # Idle => calls[t].caller # corpus
      /\ classifiers' = Activated(corpus, list)
      /\ activations' = [activations EXCEPT ![corpus] = list] /\ UNCHANGED calls
  BY DEF UseActivations, InUse
<1> SUFFICES ASSUME NEW d \in Classifiers
             PROVE  /\ IsFiniteSet(Cached(d)')
                    /\ Cardinality(Cached(d)') + Cardinality(Outstanding(d)') <= Bound
  BY DEF Roomy, Bound
<1>2. CASE d # corpus
  <2>1. Cached(d)' = Cached(d)
    BY <1>1, <1>2 DEF Cached, Activated, Current, Registry
  <2>2. \A t \in Threads : calls[t].at = "computing" => calls[t].caller # corpus
    BY <1>1 DEF Idle
  <2>3. \A caller : caller # corpus => (caller \in Corpora => activations'[caller] = activations[caller])
    BY <1>1 DEF Current, Registry
  <2>4. Outstanding(d)' \subseteq Outstanding(d)
    BY <1>1, <2>2, <2>3 DEF Outstanding, ClassifierOf
  <2>5. QED BY <2>1, <2>4, NoMore
<1>3. CASE d = corpus
  <2>1. classifiers'[d].cache = NoAnswers
    BY <1>1, <1>3 DEF Activated, Registered, Current, Registry
  <2>2. Cached(d)' = {}
    BY <2>1 DEF Cached, NoAnswers
  <2>3. Outstanding(d)' \subseteq Threads
    BY DEF Outstanding
  <2>4. Cardinality(Outstanding(d)') <= Cardinality(Threads) /\ Cardinality(Outstanding(d)') \in Nat
    BY <2>3, CallersAssumption, FS_Subset, FS_CardinalityType
  <2>5. QED BY <2>2, <2>4, FS_EmptySet, OutstandingFinite, CacheMaxAssumption DEF Bound
<1>4. QED BY <1>2, <1>3

\* However threads miss together, a cache holds at most CACHE_MAX answers and one
\* for each other thread (classifier.rs `classify`).
THEOREM CachesAlwaysBounded == Spec => []CacheBounded
<1>1. Current /\ Roomy /\ [Next]_vars => (Current /\ Roomy)'
  <2> SUFFICES ASSUME Current, Roomy, [Next]_vars PROVE Roomy'
    BY NextCurrent
  <2>1. CASE UNCHANGED vars
    BY <2>1 DEF vars, Roomy, Cached, Outstanding, ClassifierOf, Bound
  <2>2. QED BY <2>1, AskRoomy, InsertRoomy, ReturnRoomy, UseActivationsRoomy DEF Next
<1>2. Roomy => CacheBounded
  <2> SUFFICES ASSUME Roomy, NEW c \in Classifiers
               PROVE  Cardinality(DOMAIN classifiers[c].cache) <= CacheMax + Cardinality(Threads) - 1
    BY DEF CacheBounded
  <2>1. Cardinality(Cached(c)) \in Nat /\ Cardinality(Cached(c)) + Cardinality(Outstanding(c)) <= Bound
    BY FS_CardinalityType DEF Roomy
  <2>2. Cardinality(Cached(c)) <= Bound
    BY <2>1, OutstandingFinite
  <2>3. QED BY <2>2 DEF Cached, Bound
<1>3. QED BY <1>1, <1>2, InitCurrent, InitRoomy, PTL DEF Spec

-----------------------------------------------------------------------------
(* The types read off a parameter's counts (ParamTypes), for any values and  *)
(* numbers, any cap and any number of observations.                          *)

\* Some type is counted most, and the first by name of those is taken.
LEMMA SomeMostCounted ==
    ASSUME ConstantsOK, NEW types, types \subseteq Types, NEW known \in types,
           NEW counts \in [Types -> Nat], NEW bound \in Nat,
           \A t \in Types : counts[t] <= bound
    PROVE  MostCounted(counts, types) \in types
<1> DEFINE gaps == {bound - counts[t] : t \in types}
<1>1. gaps \subseteq Nat /\ bound - counts[known] \in gaps
  OBVIOUS
<1>2. PICK gap \in gaps : \A g \in gaps : gap <= g
  BY <1>1, LeastNumber
<1>3. PICK top \in types : gap = bound - counts[top]
  OBVIOUS
<1>4. \A t \in types : counts[t] <= counts[top]
  <2> SUFFICES ASSUME NEW t \in types PROVE counts[t] <= counts[top]
    OBVIOUS
  <2>1. bound - counts[top] <= bound - counts[t]
    BY <1>2, <1>3
  <2>2. counts[t] \in Nat /\ counts[top] \in Nat
    OBVIOUS
  <2>3. QED BY <2>1, <2>2
<1> HIDE DEF gaps
<1> DEFINE places == {i \in DOMAIN TypeOrder :
                        TypeOrder[i] \in types /\ counts[TypeOrder[i]] = counts[top]}
<1>5. \A t \in types : \E i \in DOMAIN TypeOrder : TypeOrder[i] = t
  BY DEF Types, Range
<1>6. PICK place \in places : \A j \in places : place <= j
  <2>1. places \subseteq Nat
    BY DEF ConstantsOK
  <2>2. PICK k \in DOMAIN TypeOrder : TypeOrder[k] = top
    BY <1>5
  <2>3. k \in places
    BY <2>2
  <2> HIDE DEF places
  <2>4. QED BY <2>1, <2>3, LeastNumber
<1> DEFINE first == TypeOrder[place]
<1>7. first \in types /\ counts[first] = counts[top]
  BY <1>6
<1>8. ASSUME NEW u \in types \ {first}
      PROVE  counts[first] > counts[u] \/ (counts[first] = counts[u] /\ Precedes(first, u))
  <2>1. counts[u] \in Nat /\ counts[first] \in Nat /\ counts[u] <= counts[first]
    BY <1>4, <1>7
  <2>2. CASE counts[u] = counts[first]
    <3>1. PICK j \in DOMAIN TypeOrder : TypeOrder[j] = u
      BY <1>5
    <3>2. j \in places
      BY <1>7, <2>2, <3>1
    <3>3. place <= j /\ place # j /\ place \in Nat /\ j \in Nat
      <4>1. place <= j /\ place # j
        BY <1>6, <3>1, <3>2
      <4>2. QED BY <4>1, <3>1, <1>6 DEF ConstantsOK
    <3>4. Precedes(first, u)
      BY <1>6, <3>1, <3>3 DEF Precedes
    <3>5. QED BY <2>2, <3>4
  <2> HIDE DEF first
  <2>3. QED BY <2>1, <2>2
<1> HIDE DEF first
<1>9. QED BY <1>7, <1>8 DEF MostCounted

\* Every observation is of a type, and every number seen is in the range.
Ranging ==
    /\ stats.type_counts \in [Types -> Nat] /\ stats.total \in Nat
    /\ \A t \in Types : stats.type_counts[t] <= stats.total
    /\ stats.total > 0 => \E t \in Types : stats.type_counts[t] > 0
    /\ sample \subseteq Values /\ seen \in [Values -> Nat]
    /\ stats.numeric \in [count : Nat, min : Int, max : Int]
    /\ \A v \in Values :
          seen[v] > 0 /\ NumberOf[v] # Absent /\ TypeOf[v] \in {"integer", "float"} =>
            /\ stats.numeric.count > 0
            /\ stats.numeric.min <= NumberOf[v] /\ NumberOf[v] <= stats.numeric.max

LEMMA WidenedCovers ==
    ASSUME NEW range \in [count : Nat, min : Int, max : Int], NEW x \in Int
    PROVE  /\ Widened(range, x, 1) \in [count : Nat, min : Int, max : Int]
           /\ Widened(range, x, 1).count > 0
           /\ Widened(range, x, 1).min <= x /\ x <= Widened(range, x, 1).max
           /\ range.count > 0 => /\ Widened(range, x, 1).min <= range.min
                                 /\ range.max <= Widened(range, x, 1).max
BY DEF Widened

LEMMA RangingInit == ConstantsOK => (ParamInit => Ranging)
<1> SUFFICES ASSUME ConstantsOK, ParamInit PROVE Ranging
  OBVIOUS
<1>1. stats = NoStats /\ sample \subseteq Values /\ seen = [v \in Values |-> 0]
  BY DEF ParamInit, ConstantsOK
<1>2. /\ NoStats.type_counts = [t \in Types |-> 0] /\ NoStats.total = 0
      /\ NoStats.numeric \in [count : Nat, min : Int, max : Int]
  BY DEF NoStats, NoNumbers
<1>3. QED BY <1>1, <1>2 DEF Ranging

LEMMA RangingStep == ConstantsOK => (Ranging /\ [ParamNext]_paramVars => Ranging')
<1> SUFFICES ASSUME ConstantsOK, Ranging, [ParamNext]_paramVars PROVE Ranging'
  OBVIOUS
<1>1. CASE UNCHANGED paramVars
  BY <1>1 DEF paramVars, Ranging
<1>2. ASSUME NEW v \in sample, Observe(v) PROVE Ranging'
  <2>1. v \in Values /\ TypeOf[v] \in Types
    BY DEF Ranging, ConstantsOK
  <2>2. /\ stats'.type_counts = [stats.type_counts EXCEPT ![TypeOf[v]] = @ + 1]
        /\ stats'.total = stats.total + 1
        /\ stats'.numeric = Recorded(stats, v)
        /\ seen' = [seen EXCEPT ![v] = @ + 1] /\ sample' = sample
    BY <1>2 DEF Observe, Counted
  <2>3. /\ stats'.type_counts \in [Types -> Nat] /\ stats'.total \in Nat
        /\ \A t \in Types : stats'.type_counts[t] <= stats'.total
        /\ stats'.type_counts[TypeOf[v]] > 0
    BY <2>1, <2>2 DEF Ranging
  <2>4. sample' \subseteq Values /\ seen' \in [Values -> Nat]
    BY <2>1, <2>2 DEF Ranging
  <2>5. /\ stats'.numeric \in [count : Nat, min : Int, max : Int]
        /\ NumberOf[v] # Absent /\ TypeOf[v] \in {"integer", "float"} =>
             /\ stats'.numeric.count > 0
             /\ stats'.numeric.min <= NumberOf[v] /\ NumberOf[v] <= stats'.numeric.max
        /\ stats.numeric.count > 0 =>
             /\ stats'.numeric.count > 0
             /\ stats'.numeric.min <= stats.numeric.min
             /\ stats.numeric.max <= stats'.numeric.max
    <3>1. stats.numeric \in [count : Nat, min : Int, max : Int]
      BY DEF Ranging
    <3>2. CASE TypeOf[v] \in {"integer", "float"} /\ NumberOf[v] # Absent
      <4>1. NumberOf[v] \in Int
        BY <2>1, <3>2 DEF ConstantsOK
      <4>2. stats'.numeric = Widened(stats.numeric, NumberOf[v], 1)
        BY <2>2, <3>2 DEF Recorded
      <4>3. QED BY <3>1, <4>1, <4>2, WidenedCovers
    <3>3. CASE ~(TypeOf[v] \in {"integer", "float"} /\ NumberOf[v] # Absent)
      <4>1. stats'.numeric = stats.numeric
        BY <2>2, <3>3 DEF Recorded
      <4>2. QED BY <3>1, <3>3, <4>1
    <3>4. QED BY <3>2, <3>3
  <2>6. ASSUME NEW w \in Values, seen'[w] > 0, NumberOf[w] # Absent,
               TypeOf[w] \in {"integer", "float"}
        PROVE  /\ stats'.numeric.count > 0
               /\ stats'.numeric.min <= NumberOf[w] /\ NumberOf[w] <= stats'.numeric.max
    <3>1. CASE w = v
      BY <2>5, <2>6, <3>1
    <3>2. CASE w # v
      <4>1. seen[w] > 0
        BY <2>1, <2>2, <2>6, <3>2 DEF Ranging
      <4>2. /\ stats.numeric.count > 0
            /\ stats.numeric.min <= NumberOf[w] /\ NumberOf[w] <= stats.numeric.max
        BY <2>6, <4>1 DEF Ranging
      <4>3. /\ NumberOf[w] \in Int
            /\ stats.numeric \in [count : Nat, min : Int, max : Int]
        BY <2>6 DEF Ranging, ConstantsOK
      <4>4. QED BY <2>5, <4>2, <4>3
    <3>3. QED BY <3>1, <3>2
  <2>7. QED BY <2>1, <2>3, <2>4, <2>5, <2>6 DEF Ranging
<1>3. QED BY <1>1, <1>2 DEF ParamNext

\* Only its own rung of the ladder answers a year, a status or an enum.
LEMMA OwnRung ==
    ASSUME ConstantsOK, Ranging
    PROVE  /\ ParamType(stats) = "year" => IsYear(stats)
           /\ ParamType(stats) = "http_status" => IsHttpStatus(stats)
           /\ ParamType(stats) = "enum" => stats.total > 0 /\ IsEnum(stats)
<1> DEFINE other == Types \union {NameHint, "literal", "number", "string", "date"}
<1>1. "year" \notin other /\ "http_status" \notin other /\ "enum" \notin other
  BY DEF ConstantsOK
<1>2. /\ stats.type_counts \in [Types -> Nat] /\ stats.total \in Nat
      /\ \A t \in Types : stats.type_counts[t] <= stats.total
      /\ Occurring(stats) \subseteq Types
      /\ stats.total # 0 => \E t \in Types : t \in Occurring(stats)
  BY DEF Ranging, Occurring
<1>3. ASSUME stats.total # 0 PROVE DominantType(stats) \in Types /\ DominantType(stats) \in Occurring(stats)
  <2>1. PICK t \in Occurring(stats) : TRUE
    BY <1>2, <1>3
  <2>2. DominantType(stats) \in Occurring(stats)
    BY <1>2, <2>1, SomeMostCounted DEF DominantType
  <2>3. QED BY <1>2, <2>2
<1>4. ASSUME stats.total # 0, DominantType(stats) = "date" PROVE DateOrElse(stats) \in other
  <2>1. CASE Occurring(stats) = {"date"}
    BY <2>1 DEF DateOrElse
  <2>2. CASE Occurring(stats) # {"date"}
    <3>1. PICK t \in Occurring(stats) \ {"date"} : TRUE
      BY <1>3, <1>4, <2>2
    <3>2. MostCounted(stats.type_counts, Occurring(stats) \ {"date"}) \in Types
      BY <1>2, <3>1, SomeMostCounted
    <3>3. QED BY <2>2, <3>2 DEF DateOrElse
  <2>3. QED BY <2>1, <2>2
<1>5. ASSUME stats.total # 0 PROVE Generic(stats) \in other
  BY <1>3, <1>5 DEF Generic
<1> HIDE DEF other
<1>6. "literal" \in other /\ "number" \in other
  BY DEF other
<1>7. QED BY <1>1, <1>2, <1>4, <1>5, <1>6 DEF ParamType

\* Whatever was observed, past the cap too, a parameter is called a year or a status
\* code only while every finite number seen is in that range (cluster.rs
\* `is_year_position`, `is_http_status_position`).
THEOREM RangesAlwaysVouched == ParamSpec => []RangeVouched
<1>1. ParamSpec => []Ranging
  <2>1. ParamInit => Ranging
    BY ConstantsAssumption, RangingInit
  <2>2. Ranging /\ [ParamNext]_paramVars => Ranging'
    BY ConstantsAssumption, RangingStep
  <2>3. QED BY <2>1, <2>2, PTL DEF ParamSpec
<1>2. Ranging => RangeVouched
  <2> SUFFICES ASSUME Ranging,
                      NEW v \in Values, seen[v] > 0, NumberOf[v] # Absent,
                      TypeOf[v] \in {"integer", "float"}
               PROVE  /\ ParamType(stats) = "year" => NumberOf[v] \in 1900..2100
                      /\ ParamType(stats) = "http_status" => NumberOf[v] \in 100..599
    BY DEF RangeVouched
  <2>1. /\ NumberOf[v] \in Int /\ stats.numeric \in [count : Nat, min : Int, max : Int]
        /\ stats.numeric.min <= NumberOf[v] /\ NumberOf[v] <= stats.numeric.max
    BY ConstantsAssumption DEF Ranging, ConstantsOK
  <2>2. ASSUME ParamType(stats) = "year" PROVE NumberOf[v] \in 1900..2100
    <3>1. stats.numeric.min \in 1900..2100 /\ stats.numeric.max \in 1900..2100
      BY <2>2, ConstantsAssumption, OwnRung DEF IsYear, Ranged
    <3>2. 1900 <= NumberOf[v]
      BY <2>1, <3>1
    <3>3. NumberOf[v] <= 2100
      BY <2>1, <3>1
    <3>4. QED BY <2>1, <3>2, <3>3
  <2>3. ASSUME ParamType(stats) = "http_status" PROVE NumberOf[v] \in 100..599
    <3>1. stats.numeric.min \in 100..599 /\ stats.numeric.max \in 100..599
      BY <2>3, ConstantsAssumption, OwnRung DEF IsHttpStatus, Ranged
    <3>2. 100 <= NumberOf[v]
      BY <2>1, <3>1
    <3>3. NumberOf[v] <= 599
      BY <2>1, <3>1
    <3>4. QED BY <2>1, <3>2, <3>3
  <2>4. QED BY <2>2, <2>3
<1>3. QED BY <1>1, <1>2, PTL

\* A parameter's counts keep their types, and its range is made of numbers observed.
LEMMA CountedTypes ==
    ASSUME ConstantsOK, TypeOK, NEW v \in sample, Observe(v)
    PROVE  TypeOK'
<1>1. v \in Values /\ TypeOf[v] \in Types
  BY DEF TypeOK, ConstantsOK
<1>2. /\ stats' = Counted(stats, v) /\ sample' = sample
      /\ seen' = [seen EXCEPT ![v] = @ + 1]
  BY DEF Observe
<1>3. sample' \in Samples /\ seen' \in [Values -> Nat]
  BY <1>1, <1>2 DEF TypeOK
<1>4. /\ stats'.value_counts \in [Values -> Nat] /\ stats'.type_counts \in [Types -> Nat]
      /\ stats'.total \in Nat
  BY <1>1, <1>2 DEF TypeOK, Counted
<1>5. stats'.numeric \in [count : Nat, min : Numbers, max : Numbers]
  <2>1. stats'.numeric = Recorded(stats, v)
    BY <1>2 DEF Counted
  <2>2. CASE TypeOf[v] \in {"integer", "float"} /\ NumberOf[v] # Absent
    <3>1. NumberOf[v] \in Numbers
      BY <1>1, <2>2 DEF Numbers
    <3>2. QED BY <2>1, <2>2, <3>1 DEF TypeOK, Recorded, Widened
  <2>3. CASE ~(TypeOf[v] \in {"integer", "float"} /\ NumberOf[v] # Absent)
    BY <2>1, <2>3 DEF TypeOK, Recorded
  <2>4. QED BY <2>2, <2>3
<1>6. QED BY <1>3, <1>4, <1>5 DEF TypeOK

LEMMA ParamInitTyped == ParamInit => TypeOK
<1> SUFFICES ASSUME ParamInit PROVE TypeOK
  OBVIOUS
<1>1. sample \in Samples /\ seen = [v \in Values |-> 0] /\ stats = NoStats
  BY DEF ParamInit
<1>2. /\ NoStats.value_counts = [v \in Values |-> 0]
      /\ NoStats.type_counts = [t \in Types |-> 0] /\ NoStats.total = 0
      /\ NoStats.numeric \in [count : Nat, min : Numbers, max : Numbers]
  BY DEF NoStats, NoNumbers, Numbers
<1>3. QED BY <1>1, <1>2 DEF TypeOK

\* The counts are counts, of values and types there are, and the ends of the range are
\* numbers of values observed or 0 (position_stats.rs `PositionStats`).
THEOREM ParamCountsTyped == ParamSpec => []TypeOK
<1>1. ParamInit => TypeOK
  BY ParamInitTyped
<1>2. TypeOK /\ [ParamNext]_paramVars => TypeOK'
  <2> SUFFICES ASSUME TypeOK, [ParamNext]_paramVars PROVE TypeOK'
    OBVIOUS
  <2>1. CASE UNCHANGED paramVars
    BY <2>1 DEF TypeOK, paramVars
  <2>2. CASE ParamNext
    BY <2>2, ConstantsAssumption, CountedTypes DEF ParamNext, TypeOK
  <2>3. QED BY <2>1, <2>2
<1>3. QED BY <1>1, <1>2, PTL DEF ParamSpec

-----------------------------------------------------------------------------
(* An enum and its established values. *)

\* Two sums over one set, where the second function is one greater at one value.
AddFirst(a, total, x) == a.f[x] + total
AddSecond(b, total, x) == b.g[x] + total
OneMore(a, b, s, t, u) ==
    t \in Int /\ u = t + (IF a.v \in s THEN 1 ELSE 0)

LEMMA NaturalsOrdered == \A N \in SUBSET Nat : N # {} => \E i \in N : \A j \in N : i <= j
<1> SUFFICES ASSUME NEW N \in SUBSET Nat, NEW k \in N PROVE \E i \in N : \A j \in N : i <= j
  OBVIOUS
<1>1. N \subseteq Nat
  OBVIOUS
<1>2. QED BY ONLY <1>1, k \in N, LeastNumber

\* The parts of a finite set are sized by their members.
LEMMA PartsCounted ==
    ASSUME NEW S, IsFiniteSet(S)
    PROVE  \E size : \A s \in SUBSET S :
               size[s] \in Nat /\ size[s] <= size[S] /\ \A x \in s : size[s \ {x}] < size[s]
<1> DEFINE size == [s \in SUBSET S |-> Cardinality(s)]
<1>1. \A s \in SUBSET S : /\ IsFiniteSet(s) /\ Cardinality(s) \in Nat
                          /\ Cardinality(s) <= Cardinality(S)
  BY FS_Subset, FS_CardinalityType
<1>2. ASSUME NEW s \in SUBSET S, NEW x \in s PROVE size[s \ {x}] < size[s]
  <2>1. Cardinality(s \ {x}) = Cardinality(s) - 1
    BY <1>1, FS_RemoveElement
  <2>2. QED BY <1>1, <2>1
<1>3. \A s \in SUBSET S : size[s] \in Nat /\ size[s] <= size[S]
  BY <1>1
<1> HIDE DEF size
<1>4. QED BY <1>2, <1>3

Sums == INSTANCE FoldSteps WITH OpA <- AddFirst, OpB <- AddSecond, Rel <- OneMore
LEMMA SumsOrdered == Sums!WellOrdered
BY NaturalsOrdered DEF Sums!WellOrdered

\* Adding one to one of the values summed adds one to their sum.
LEMMA SumGrows ==
    ASSUME NEW D, NEW f \in [D -> Nat], NEW S, S \subseteq D, IsFiniteSet(S), NEW v \in S,
           NEW g, g = [f EXCEPT ![v] = @ + 1]
    PROVE  /\ SumFunctionOnSet(f, S) \in Int
           /\ SumFunctionOnSet(g, S) = SumFunctionOnSet(f, S) + 1
<1> DEFINE a == [f |-> f, v |-> v]
           b == [g |-> g]
<1>1. OneMore(a, b, {}, 0, 0)
  BY DEF OneMore
<1>2. \A s \in SUBSET S : \A x \in s : \A t, u :
        OneMore(a, b, s \ {x}, t, u) => OneMore(a, b, s, AddFirst(a, t, x), AddSecond(b, u, x))
  <2> SUFFICES ASSUME NEW s \in SUBSET S, NEW x \in s, NEW t \in Int, NEW u,
                      u = t + (IF v \in s \ {x} THEN 1 ELSE 0)
               PROVE  f[x] + t \in Int /\ g[x] + u = (f[x] + t) + (IF v \in s THEN 1 ELSE 0)
    BY DEF OneMore, AddFirst, AddSecond
  <2>1. f[x] \in Nat /\ x \in D
    OBVIOUS
  <2>2. CASE x = v
    BY <2>1, <2>2
  <2>3. CASE x # v
    BY <2>1, <2>3
  <2>4. QED BY <2>2, <2>3
<1>3. OneMore(a, b, S, Sums!SetA(a, 0, S), Sums!SetB(b, 0, S))
  <2> HIDE DEF a, b
  <2>1. Sums!Counted(S)
    BY PartsCounted DEF Sums!Counted
  <2>2. QED BY <1>1, <1>2, <2>1, SumsOrdered, Sums!SetFolds
<1>4. SumFunctionOnSet(f, S) = Sums!SetA(a, 0, S)
  BY DEF SumFunctionOnSet, FoldFunctionOnSet, MapThenFoldSet, Sums!SetA, AddFirst
<1>5. SumFunctionOnSet(g, S) = Sums!SetB(b, 0, S)
  BY DEF SumFunctionOnSet, FoldFunctionOnSet, MapThenFoldSet, Sums!SetB, AddSecond
<1>6. QED BY <1>3, <1>4, <1>5 DEF OneMore

\* Only finitely many values are ever tracked.
Tracking == TypeOK /\ IsFiniteSet(Tracked(stats))

LEMMA TrackingStep == Tracking /\ [ParamNext]_paramVars => Tracking'
<1> SUFFICES ASSUME Tracking, [ParamNext]_paramVars PROVE Tracking'
  OBVIOUS
<1>1. CASE UNCHANGED paramVars
  BY <1>1 DEF Tracking, TypeOK, Tracked, paramVars
<1>2. ASSUME NEW v \in sample, Observe(v) PROVE Tracking'
  <2>1. TypeOK'
    BY <1>2, ConstantsAssumption, CountedTypes DEF Tracking
  <2>2. v \in Values /\ stats.value_counts \in [Values -> Nat]
    BY ConstantsAssumption DEF Tracking, TypeOK, ConstantsOK
  <2>3. stats'.value_counts =
          [stats.value_counts EXCEPT ![v] = IF Keeps(stats, v) THEN @ + 1 ELSE @]
    BY <1>2 DEF Observe, Counted
  <2>4. Tracked(stats)' \subseteq Tracked(stats) \union {v}
    BY <2>2, <2>3 DEF Tracked
  <2>5. IsFiniteSet(Tracked(stats) \union {v})
    BY FS_AddElement DEF Tracking
  <2>6. QED BY <2>1, <2>4, <2>5, FS_Subset DEF Tracking
<1>3. QED BY <1>1, <1>2 DEF ParamNext

\* One more sight of an established value leaves the same values established, and its
\* count among theirs.
LEMMA EnumKept ==
    ASSUME Tracking, IsEnum(stats), NEW v \in Established(stats), Observe(v)
    PROVE  IsEnum(stats) /\ IsEnum(stats')
<1>1. /\ stats.value_counts \in [Values -> Nat] /\ stats.total \in Nat
      /\ v \in Values /\ stats.value_counts[v] >= 3 /\ v \in Tracked(stats)
  BY DEF Tracking, TypeOK, Established, Tracked, ENUM_MIN_VALUE_COUNT
<1>2. /\ stats'.value_counts = [stats.value_counts EXCEPT ![v] = @ + 1]
      /\ stats'.total = stats.total + 1
  BY <1>1 DEF Observe, Counted, Keeps
<1>3. Established(stats') = Established(stats)
  BY <1>1, <1>2 DEF Established, ENUM_MIN_VALUE_COUNT
<1>4. IsFiniteSet(Established(stats)) /\ Established(stats) \subseteq Values
  <2>1. Established(stats) \subseteq Tracked(stats)
    BY <1>1 DEF Established, Tracked, ENUM_MIN_VALUE_COUNT
  <2>2. QED BY <2>1, FS_Subset DEF Tracking, Established
<1> DEFINE before == SumFunctionOnSet(stats.value_counts, Established(stats))
           after == SumFunctionOnSet(stats'.value_counts, Established(stats))
<1>5. before \in Int /\ after = before + 1
  BY <1>1, <1>2, <1>4, SumGrows
<1>6. stats.total >= 20 /\ 100 * before >= 90 * stats.total
  BY DEF IsEnum, AtLeast, ENUM_MIN_OBSERVATIONS
<1> HIDE DEF before, after
<1>7. stats'.total >= 20 /\ 100 * after >= 90 * stats'.total
  BY <1>1, <1>2, <1>5, <1>6
<1>8. QED BY <1>3, <1>7 DEF IsEnum, AtLeast, ENUM_MIN_OBSERVATIONS, after

\* For any values and any cap, seeing an established value of an enum once more leaves
\* it one, unless it makes a more specific verdict true (cluster.rs `is_enum`,
\* `param_type_for`).
THEOREM EnumsHold == ParamSpec => EnumHolds
<1>1. ParamInit => Tracking /\ Ranging
  <2>1. ParamInit => Tracked(stats) = {}
    BY DEF ParamInit, NoStats, Tracked
  <2>2. QED BY <2>1, FS_EmptySet, ParamInitTyped, ConstantsAssumption, RangingInit DEF Tracking
<1>2. Tracking /\ Ranging /\ [ParamNext]_paramVars => (Tracking /\ Ranging)'
  BY TrackingStep, RangingStep, ConstantsAssumption
<1>3. ASSUME Tracking, Ranging, [ParamNext]_paramVars, ParamType(stats) = "enum",
             NEW v \in Established(stats), stats'.value_counts[v] > stats.value_counts[v]
      PROVE  ParamType(stats') \in {"enum", "year", "http_status", "boolean"}
  <2>1. stats.value_counts \in [Values -> Nat] /\ v \in Values /\ stats.value_counts[v] \in Nat
    BY <1>3 DEF Tracking, TypeOK, Established
  <2>2. PICK w \in sample : Observe(w)
    BY <1>3, <2>1 DEF ParamNext, paramVars
  <2>3. w = v
    <3>1. stats'.value_counts =
            [stats.value_counts EXCEPT ![w] = IF Keeps(stats, w) THEN @ + 1 ELSE @]
      BY <2>2 DEF Observe, Counted
    <3>2. QED BY <1>3, <2>1, <3>1
  <2>4. IsEnum(stats') /\ stats'.total # 0
    <3>1. IsEnum(stats)
      BY <1>3, ConstantsAssumption, OwnRung
    <3>2. IsEnum(stats')
      BY <1>3, <2>2, <2>3, <3>1, EnumKept
    <3>3. QED BY <3>2 DEF IsEnum, ENUM_MIN_OBSERVATIONS
  <2>5. CASE DominantType(stats') # "boolean"
    BY <2>4, <2>5 DEF ParamType
  <2>6. CASE DominantType(stats') = "boolean"
    <3>1. ~IsMixedNumber(stats') /\ Generic(stats') = "boolean"
      BY <2>6 DEF IsMixedNumber, Generic
    <3>2. QED BY <2>4, <2>6, <3>1 DEF ParamType
  <2>7. QED BY <2>5, <2>6
<1>4. Tracking /\ Ranging /\ [ParamNext]_paramVars =>
        [ParamType(stats) = "enum"
         /\ (\E v \in Established(stats) : stats'.value_counts[v] > stats.value_counts[v])
         => ParamType(stats') \in {"enum", "year", "http_status", "boolean"}]_paramVars
  BY <1>3
<1>5. QED BY <1>1, <1>2, <1>4, PTL DEF ParamSpec, EnumHolds

=============================================================================
