--------------------------- MODULE Stream_proofs ---------------------------
(***************************************************************************)
(* What a stream observes and prints is the input's lines, in order, each   *)
(* once; what it prints stays committed; what it read is saved; and it never*)
(* waits for input with the corpus locked: for any number of lines, any     *)
(* buffer capacity and any observations by another process.                 *)
(*                                                                          *)
(* And of the turns in which streams and others take that lock (LockTurns): *)
(* for any times and any number of processes, a turn and a wait end when    *)
(* they should and a pause is left; for two processes whose pause outlasts  *)
(* a poll, neither ever gives up waiting for the other.                     *)
(***************************************************************************)
EXTENDS Stream, LockTurns, SequenceTheorems, WellFoundedInduction, TLAPS

-----------------------------------------------------------------------------
(* The first end of a line in a buffer. *)

LEMMA LeastNumber ==
    ASSUME NEW S \in SUBSET Nat, S # {}
    PROVE  Min(S) \in S /\ \A y \in S : Min(S) <= y
<1>1. PICK x \in S : \A y \in S : ~ (<<y, x>> \in OpToRel(<, Nat))
  BY NatLessThanWellFounded, WFMin
<1>2. \A y \in S : ~ (y < x)
  BY <1>1, Zenon DEF OpToRel
<1>3. x \in Nat /\ \A y \in S : y \in Nat
  OBVIOUS
<1>4. \A y \in S : x <= y
  BY <1>2, <1>3
<1>5. QED BY <1>4 DEF Min

LEMMA FirstEnd ==
    ASSUME NEW pieces \in Seq(Piece), HasEnd(pieces)
    PROVE  LET n == SelectInSeq(pieces, LAMBDA p : p.end)
           IN  n \in 1..Len(pieces) /\ pieces[n].end /\ \A i \in 1..(n - 1) : ~pieces[i].end
<1> DEFINE ends == {i \in 1..Len(pieces) : pieces[i].end}
<1>1. ends # {} /\ ends \in SUBSET Nat
  BY DEF HasEnd
<1>2. Min(ends) \in ends /\ \A i \in ends : Min(ends) <= i
  BY <1>1, LeastNumber
<1>3. SelectInSeq(pieces, LAMBDA p : p.end) = Min(ends)
  BY <1>1 DEF SelectInSeq
<1>4. \A i \in 1..(Min(ends) - 1) : i \in 1..Len(pieces) /\ ~ (Min(ends) <= i)
  BY <1>2
<1>5. QED BY <1>2, <1>3, <1>4

-----------------------------------------------------------------------------
(* The input: whatever is being read is made of pieces of lines written. *)

Input ==
    /\ texts \in Seq(Texts) /\ Len(texts) <= MaxLines
    /\ pipe \in Seq(Piece) /\ buffer \in Seq(Piece) /\ line \in Seq(Piece)
    /\ pipe # <<>> \/ buffer # <<>> \/ line # <<>> => texts # <<>>
    /\ at \in {"begin", "observe"} => line # <<>>

LEMMA InputInit == Init => Input
BY BoundsAssumption DEF Init, Input

\* The line read is a line of the input.
LEMMA LineRead ==
    ASSUME Input, line # <<>>
    PROVE  Last(line) \in Piece /\ Last(line).line \in 1..MaxLines
<1>1. Last(line) \in Piece
  BY DEF Input, Last
<1>2. QED BY <1>1 DEF Piece

LEMMA InputWrite ==
    ASSUME Input, Write
    PROVE  Input'
<1>1. PICK end \in BOOLEAN :
        \/ /\ Len(texts) < MaxLines
           /\ \E text \in Texts : texts' = Append(texts, text)
           /\ pipe' = Append(pipe, [line |-> Len(texts) + 1, end |-> end])
        \/ /\ Unended
           /\ pipe' = Append(pipe, [line |-> Len(texts), end |-> TRUE])
           /\ texts' = texts
  BY DEF Write
<1>2. UNCHANGED <<buffer, line, at>> /\ MaxLines \in Nat /\ Len(texts) \in Nat
  BY BoundsAssumption DEF Write, Input
<1>3. CASE /\ Len(texts) < MaxLines
           /\ \E text \in Texts : texts' = Append(texts, text)
           /\ pipe' = Append(pipe, [line |-> Len(texts) + 1, end |-> end])
  <2>1. [line |-> Len(texts) + 1, end |-> end] \in Piece
    BY <1>2, <1>3 DEF Piece
  <2>2. texts' \in Seq(Texts) /\ Len(texts') = Len(texts) + 1
    BY <1>3 DEF Input
  <2>3. pipe' \in Seq(Piece)
    BY <1>3, <2>1 DEF Input
  <2>4. QED BY <1>2, <1>3, <2>2, <2>3 DEF Input
<1>4. CASE /\ Unended
           /\ pipe' = Append(pipe, [line |-> Len(texts), end |-> TRUE])
           /\ texts' = texts
  <2>1. texts # <<>>
    BY <1>4 DEF Unended, Input
  <2>2. Len(texts) \in 1..MaxLines
    BY <1>2, <2>1 DEF Input
  <2>3. [line |-> Len(texts), end |-> TRUE] \in Piece
    BY <2>2 DEF Piece
  <2>4. QED BY <1>2, <1>4, <2>1, <2>3 DEF Input
<1>5. QED BY <1>1, <1>3, <1>4

LEMMA InputFill ==
    ASSUME Input, Fill
    PROVE  Input'
<1>1. PICK n \in 1..Capacity :
        n <= Len(pipe) /\ buffer' = SubSeq(pipe, 1, n) /\ pipe' = SubSeq(pipe, n + 1, Len(pipe))
  BY DEF Fill
<1>2. UNCHANGED <<texts, line, at>> /\ n \in Nat \ {0}
  BY CapacityAssumption DEF Fill, source
<1>3. buffer' \in Seq(Piece) /\ pipe' \in Seq(Piece) /\ pipe # <<>>
  BY <1>1, <1>2 DEF Input
<1>4. QED BY <1>2, <1>3 DEF Input

LEMMA InputTakeBuffered ==
    ASSUME Input, TakeBuffered
    PROVE  Input' /\ line' # <<>>
<1> DEFINE n == IF HasEnd(buffer) THEN SelectInSeq(buffer, LAMBDA p : p.end) ELSE Len(buffer)
<1>1. /\ buffer # <<>> /\ buffer \in Seq(Piece) /\ line \in Seq(Piece) /\ texts # <<>>
      /\ line' = line \o SubSeq(buffer, 1, n)
      /\ buffer' = SubSeq(buffer, n + 1, Len(buffer))
      /\ UNCHANGED <<texts, pipe>>
  BY DEF TakeBuffered, Input, source
<1>2. n \in 1..Len(buffer)
  BY <1>1, FirstEnd
<1> HIDE DEF n
<1>3. line' \in Seq(Piece) /\ line' # <<>> /\ buffer' \in Seq(Piece)
  <2>1. SubSeq(buffer, 1, n) \in Seq(Piece) /\ Len(SubSeq(buffer, 1, n)) = n
    BY <1>1, <1>2
  <2>2. line' \in Seq(Piece) /\ Len(line') = Len(line) + n
    BY <1>1, <1>2, <2>1
  <2>3. line' # <<>>
    BY <1>1, <1>2, <2>2
  <2>4. buffer' \in Seq(Piece)
    BY <1>1, <1>2
  <2>5. QED BY <2>2, <2>3, <2>4
<1>4. QED BY <1>1, <1>3 DEF Input

LEMMA InputStep == Input /\ [Next]_vars => Input'
<1> SUFFICES ASSUME Input, [Next]_vars PROVE Input'
  OBVIOUS
<1>1. CASE Write
  BY <1>1, InputWrite
<1>2. CASE Fill
  BY <1>2, InputFill
<1>3. CASE TakeBuffered
  BY <1>3, InputTakeBuffered
<1>4. CASE EndOfInput \/ ReadFails
  BY <1>4 DEF EndOfInput, ReadFails, Reading, NoLine, GotLine, source, Input
<1>5. CASE BeginChunk \/ LockTimeout \/ ChunkFails \/ Commit
  BY <1>5 DEF BeginChunk, LockTimeout, ChunkFails, Commit, source, Input
<1>6. CASE Observe
  BY <1>6 DEF Observe, source, Input
<1>7. CASE WriteOut \/ WriteOutFails \/ Save
  BY <1>7 DEF WriteOut, WriteOutFails, Save, AfterWriteOut, source, Input
<1>8. CASE Kill \/ CloseInput \/ CloseStdout \/ OtherBegins \/ OtherEnds
  BY <1>8 DEF Kill, CloseInput, CloseStdout, OtherBegins, OtherEnds, source, Input
<1>9. CASE UNCHANGED vars
  BY <1>9 DEF vars, Input
<1>10. QED BY <1>1, <1>2, <1>3, <1>4, <1>5, <1>6, <1>7, <1>8, <1>9 DEF Next, Progress, Happens

-----------------------------------------------------------------------------
(* The lock is held within a chunk, and a chunk reads on only what is buffered. *)

Chunk == {"observe", "more", "commit"}

Locking ==
    /\ at = "more" => HasEnd(buffer)
    /\ lock = "stream" => Sqlite /\ at \in Chunk
    /\ Sqlite /\ at \in Chunk => lock = "stream"

LEMMA LockingInit == Init => Locking
BY NoneAssumption DEF Init, Locking, Chunk

LEMMA LockingReads ==
    ASSUME Locking, Fill \/ TakeBuffered \/ EndOfInput \/ ReadFails
    PROVE  Locking'
<1>1. UNCHANGED <<opts, lock>> /\ (at = "reading" \/ at = "more")
  BY DEF Fill, TakeBuffered, EndOfInput, ReadFails, Reading, corpus
<1>2. ~HasEnd(<<>>)
  BY DEF HasEnd
<1>3. at = "more" => TakeBuffered /\ HasEnd(buffer)
  BY <1>2 DEF Locking, Fill, EndOfInput, ReadFails
<1>4. CASE at = "reading"
  <2>1. at' \in {"reading", "begin", "ended"}
    BY <1>4 DEF Fill, TakeBuffered, EndOfInput, ReadFails, GotLine, NoLine
  <2>2. QED BY <1>1, <1>4, <2>1 DEF Locking, Chunk, Sqlite
<1>5. CASE at = "more"
  <2>1. at' \in {"observe", "commit"} /\ ~Fill
    BY <1>2, <1>3, <1>5 DEF TakeBuffered, GotLine, NoLine, Fill
  <2>2. QED BY <1>1, <1>5, <2>1 DEF Locking, Chunk, Sqlite
<1>6. QED BY <1>1, <1>4, <1>5

LEMMA LockingStep == Locking /\ [Next]_vars => Locking'
<1> SUFFICES ASSUME Locking, [Next]_vars PROVE Locking'
  OBVIOUS
<1> USE NoneAssumption DEF Locking, Chunk, Sqlite
<1>1. CASE Fill \/ TakeBuffered \/ EndOfInput \/ ReadFails
  BY <1>1, LockingReads
<1>2. CASE BeginChunk \/ Commit
  BY <1>2 DEF BeginChunk, Commit
<1>3. CASE LockTimeout \/ ChunkFails
  <2>1. at' = "save" /\ lock' # "stream"
    BY <1>3 DEF LockTimeout, ChunkFails, corpus
  <2>2. QED BY <2>1
<1>4. CASE Observe
  BY <1>4 DEF Observe, LineBuffered, HasEnd
<1>5. CASE WriteOut \/ WriteOutFails \/ Save
  BY <1>5 DEF WriteOut, WriteOutFails, Due, Save, AfterWriteOut, corpus
<1>6. CASE Kill \/ OtherBegins \/ OtherEnds
  BY <1>6 DEF Kill, OtherBegins, OtherEnds, HasEnd
<1>7. CASE Write \/ CloseInput \/ CloseStdout
  BY <1>7 DEF Write, CloseInput, CloseStdout, corpus, HasEnd
<1>8. CASE UNCHANGED vars
  BY <1>8 DEF vars, HasEnd
<1>9. QED BY <1>1, <1>2, <1>3, <1>4, <1>5, <1>6, <1>7, <1>8 DEF Next, Progress, Happens

-----------------------------------------------------------------------------
(* What is rendered and printed is in the corpus. *)

Entries == Seq([line : Nat, from : Nat])

In(entries, log) ==
    \A i \in 1..Len(entries) :
        entries[i].from \in 1..Len(log) /\ log[entries[i].from] = entries[i].line

Grows(old, new) ==
    Len(old) <= Len(new) /\ \A i \in 1..Len(old) : new[i] = old[i]

\* Within a chunk the corpus as this process sees it adds to the committed one,
\* and holds what is rendered; outside, the committed one does.
InCorpus ==
    Sqlite =>
        /\ lock = "stream" => Grows(stored, seen)
        /\ at \in Chunk => In(rendered, seen)
        /\ at \in {"reading", "begin", "print", "ended"} => In(rendered, stored)
        /\ In(printed, stored)

Committed ==
    /\ stored \in Seq(Nat) /\ seen \in Seq(Nat)
    /\ rendered \in Entries /\ printed \in Entries
    /\ InCorpus

LEMMA GrowsTypes ==
    /\ \A log \in Seq(Nat) : Grows(log, log) /\ Len(log) \in Nat
    /\ \A log \in Seq(Nat), n \in Nat : Append(log, n) \in Seq(Nat) /\ Grows(log, Append(log, n))
BY DEF Grows

LEMMA GrowsOn ==
    ASSUME NEW a \in Seq(Nat), NEW b \in Seq(Nat), NEW n \in Nat, Grows(a, b)
    PROVE  Grows(a, Append(b, n))
BY DEF Grows

LEMMA StaysIn ==
    ASSUME NEW entries \in Entries, NEW old \in Seq(Nat), NEW new \in Seq(Nat),
           Grows(old, new), In(entries, old)
    PROVE  In(entries, new)
BY DEF Grows, In

LEMMA RenderedIn ==
    ASSUME NEW entries \in Entries, NEW log \in Seq(Nat), NEW n \in Nat, In(entries, log)
    PROVE  LET new == Append(entries, [line |-> n, from |-> Len(log) + 1])
           IN  new \in Entries /\ In(new, Append(log, n))
<1> DEFINE entry == [line |-> n, from |-> Len(log) + 1]
           new == Append(entries, entry)
<1>1. entry \in [line : Nat, from : Nat] /\ entry.from = Len(log) + 1 /\ entry.line = n
  OBVIOUS
<1>2. new \in Entries /\ Len(new) = Len(entries) + 1
  BY <1>1 DEF Entries
<1>3. \A i \in 1..Len(new) : IF i = Len(entries) + 1 THEN new[i] = entry ELSE new[i] = entries[i]
  BY <1>1 DEF Entries
<1>4. In(entries, Append(log, n))
  BY StaysIn, GrowsTypes
<1>5. In(new, Append(log, n))
  <2> SUFFICES ASSUME NEW i \in 1..Len(new)
               PROVE  /\ new[i].from \in 1..Len(Append(log, n))
                      /\ Append(log, n)[new[i].from] = new[i].line
    BY DEF In
  <2>1. CASE i = Len(entries) + 1
    BY <1>1, <1>3, <2>1
  <2>2. CASE i # Len(entries) + 1
    <3>1. i \in 1..Len(entries)
      BY <1>2, <2>2 DEF Entries
    <3>2. QED BY <1>3, <1>4, <2>2, <3>1 DEF In
  <2>3. QED BY <2>1, <2>2
<1>6. QED BY <1>2, <1>5

LEMMA PrintedIn ==
    ASSUME NEW a \in Entries, NEW b \in Entries, NEW log, In(a, log), In(b, log)
    PROVE  In(a \o b, log)
<1>1. Len(a \o b) = Len(a) + Len(b) /\ Len(a) \in Nat /\ Len(b) \in Nat
  BY DEF Entries
<1>2. \A i \in 1..Len(a \o b) :
        IF i <= Len(a) THEN (a \o b)[i] = a[i] ELSE (a \o b)[i] = b[i - Len(a)]
  BY DEF Entries
<1>3. SUFFICES ASSUME NEW i \in 1..Len(a \o b)
               PROVE  /\ (a \o b)[i].from \in 1..Len(log)
                      /\ log[(a \o b)[i].from] = (a \o b)[i].line
  BY DEF In
<1>4. CASE i <= Len(a)
  BY <1>1, <1>2, <1>4 DEF In
<1>5. CASE ~ (i <= Len(a))
  <2>1. i - Len(a) \in 1..Len(b)
    BY <1>1, <1>5
  <2>2. QED BY <1>2, <1>5, <2>1 DEF In
<1>6. QED BY <1>4, <1>5

LEMMA EntriesJoin ==
    ASSUME NEW a \in Entries, NEW b \in Entries
    PROVE  a \o b \in Entries
BY DEF Entries

LEMMA Beginning ==
    ASSUME NEW S, NEW b \in Seq(S), NEW n \in Nat, n <= Len(b)
    PROVE  /\ SubSeq(b, 1, n) \in Seq(S)
           /\ Len(SubSeq(b, 1, n)) = n
           /\ \A i \in 1..n : SubSeq(b, 1, n)[i] = b[i]
OBVIOUS

\* A write cut short wrote a beginning.
LEMMA CutIn ==
    ASSUME NEW b \in Entries, NEW n \in 0..Len(b) - 1
    PROVE  /\ SubSeq(b, 1, n) \in Entries
           /\ \A log : In(b, log) => In(SubSeq(b, 1, n), log)
<1>1. n \in Nat /\ n <= Len(b) /\ Len(b) \in Nat
  BY DEF Entries
<1>2. /\ SubSeq(b, 1, n) \in Seq([line : Nat, from : Nat])
      /\ Len(SubSeq(b, 1, n)) = n
      /\ \A i \in 1..n : SubSeq(b, 1, n)[i] = b[i]
  BY <1>1, Beginning DEF Entries
<1>3. \A i \in 1..n : i \in 1..Len(b)
  BY <1>1
<1>4. QED BY <1>2, <1>3 DEF Entries, In

LEMMA CommittedInit == Init => Committed
BY NoneAssumption DEF Init, Committed, InCorpus, In, Grows, Entries, Sqlite

LEMMA CommittedObserve ==
    ASSUME Input, Locking, Committed, Observe
    PROVE  Committed'
<1> DEFINE n == Last(line).line
<1>1. n \in Nat
  BY LineRead, BoundsAssumption DEF Observe, Input
<1>2. UNCHANGED <<opts, stored, printed, lock>> /\ at = "observe" /\ at' \in Chunk
  BY DEF Observe, Chunk
<1>3. CASE texts[n] = "iri"
  <2>1. seen' = Append(seen, n) /\ rendered' = Append(rendered, [line |-> n, from |-> Len(seen) + 1])
    BY <1>3 DEF Observe
  <2>2. seen' \in Seq(Nat) /\ rendered' \in Entries
    BY <1>1, <2>1 DEF Committed, Entries
  <2>3. Sqlite => Grows(stored', seen') /\ In(rendered', seen')
    BY <1>1, <1>2, <2>1, GrowsOn, RenderedIn DEF Committed, InCorpus, Locking, Chunk
  <2>4. QED BY <1>2, <2>2, <2>3 DEF Committed, InCorpus, Chunk, Sqlite
<1>4. CASE texts[n] # "iri"
  <2>1. UNCHANGED <<seen, rendered>>
    BY <1>4 DEF Observe
  <2>2. QED BY <1>2, <2>1 DEF Committed, InCorpus, Chunk, Sqlite
<1>5. QED BY <1>3, <1>4

LEMMA CommittedCommit ==
    ASSUME Locking, Committed, Commit
    PROVE  Committed'
<1>1. at = "commit" /\ at' = "print" /\ UNCHANGED <<opts, rendered, printed, seen>>
  BY DEF Commit, output
<1>2. CASE Sqlite
  <2>1. stored' = seen /\ lock' = None
    BY <1>2 DEF Commit
  <2>2. Grows(stored, seen) /\ In(rendered, seen) /\ In(printed, stored)
    BY <1>1, <1>2 DEF Committed, InCorpus, Locking, Chunk
  <2>3. In(printed, seen)
    BY <2>2, StaysIn DEF Committed
  <2>4. QED BY <1>1, <2>1, <2>2, <2>3, NoneAssumption DEF Committed, InCorpus, Chunk
<1>3. CASE ~Sqlite
  BY <1>1, <1>3 DEF Commit, Committed, InCorpus, Sqlite
<1>4. QED BY <1>2, <1>3

LEMMA CommittedWriteOut ==
    ASSUME Locking, Committed, WriteOut
    PROVE  Committed'
<1>1. /\ UNCHANGED <<opts, stored, seen, lock>> /\ at \in {"print", "ended"}
      /\ at' \in {"save", "reading", "ended"}
  BY DEF WriteOut, AfterWriteOut, corpus
<1>2. Sqlite => lock # "stream" /\ In(rendered, stored) /\ In(printed, stored)
  BY <1>1 DEF Committed, InCorpus, Locking, Chunk
<1>3. CASE Due
  <2>1. printed' = printed \o rendered /\ rendered' = <<>>
    BY <1>3 DEF WriteOut
  <2>2. printed' \in Entries /\ rendered' \in Entries
    BY <2>1, EntriesJoin DEF Committed, Entries
  <2>3. Sqlite => In(printed', stored)
    BY <1>2, <2>1, PrintedIn DEF Committed
  <2>4. In(<<>>, stored)
    BY DEF In
  <2>5. QED BY <1>1, <1>2, <2>1, <2>2, <2>3, <2>4 DEF Committed, InCorpus, Chunk, Sqlite
<1>4. CASE ~Due
  <2>1. UNCHANGED <<printed, rendered>>
    BY <1>4 DEF WriteOut
  <2>2. QED BY <1>1, <1>2, <2>1 DEF Committed, InCorpus, Chunk, Sqlite
<1>5. QED BY <1>3, <1>4

LEMMA CommittedWriteOutFails ==
    ASSUME Locking, Committed, WriteOutFails
    PROVE  Committed'
<1>1. /\ UNCHANGED <<opts, stored, seen, lock, rendered>> /\ at \in {"print", "ended"}
      /\ at' = "save"
  BY DEF WriteOutFails, Due, corpus
<1>2. PICK n \in 0..Len(rendered) - 1 : printed' = printed \o SubSeq(rendered, 1, n)
  BY DEF WriteOutFails
<1>3. SubSeq(rendered, 1, n) \in Entries /\ printed' \in Entries
  BY <1>2, CutIn, EntriesJoin DEF Committed
<1>4. Sqlite => In(printed', stored)
  <2>1. Sqlite => In(rendered, stored) /\ In(printed, stored)
    BY <1>1 DEF Committed, InCorpus
  <2>2. Sqlite => In(SubSeq(rendered, 1, n), stored)
    BY <2>1, CutIn DEF Committed
  <2>3. QED BY <1>2, <1>3, <2>1, <2>2, PrintedIn DEF Committed
<1>5. QED BY <1>1, <1>3, <1>4 DEF Committed, InCorpus, Locking, Chunk, Sqlite

LEMMA CommittedOtherEnds ==
    ASSUME Locking, Committed, OtherEnds
    PROVE  Committed'
<1>1. /\ UNCHANGED <<opts, seen, rendered, printed, at>> /\ lock = "other" /\ lock' = None
      /\ stored' = Append(stored, 0) \/ stored' = stored
  BY DEF OtherEnds, output
<1>2. stored' \in Seq(Nat) /\ Grows(stored, stored')
  BY <1>1, GrowsTypes DEF Committed
<1>3. Sqlite => at \notin Chunk
  BY <1>1 DEF Locking
<1>4. Sqlite => In(printed, stored')
  BY <1>2, StaysIn DEF Committed, InCorpus
<1>5. Sqlite /\ at \in {"reading", "begin", "print", "ended"} => In(rendered, stored')
  BY <1>2, StaysIn DEF Committed, InCorpus
<1>6. QED BY <1>1, <1>2, <1>3, <1>4, <1>5, NoneAssumption DEF Committed, InCorpus, Sqlite

LEMMA CommittedStep == Input /\ Locking /\ Committed /\ [Next]_vars => Committed'
<1> SUFFICES ASSUME Input, Locking, Committed, [Next]_vars PROVE Committed'
  OBVIOUS
<1>1. CASE Fill \/ TakeBuffered \/ EndOfInput \/ ReadFails
  <2>1. UNCHANGED <<opts, stored, seen, lock, rendered, printed>> /\ (at = "reading" \/ at = "more")
    BY <1>1 DEF Fill, TakeBuffered, EndOfInput, ReadFails, Reading, corpus, output
  <2>2. at = "more" => TakeBuffered /\ HasEnd(buffer)
    BY <1>1 DEF Locking, Fill, EndOfInput, ReadFails, HasEnd
  <2>3. at = "reading" => at' \in {"reading", "begin", "ended"}
    BY <1>1 DEF Fill, TakeBuffered, EndOfInput, ReadFails, GotLine, NoLine
  <2>4. at = "more" => at' \in Chunk
    BY <2>2 DEF TakeBuffered, GotLine, NoLine, Chunk
  <2>5. QED BY <2>1, <2>3, <2>4 DEF Committed, InCorpus, Chunk, Sqlite
<1>2. CASE BeginChunk
  <2>1. /\ UNCHANGED <<opts, stored, rendered, printed>> /\ at = "begin" /\ at' = "observe"
        /\ Sqlite => seen' = stored
        /\ ~Sqlite => seen' = seen
    BY <1>2 DEF BeginChunk, output
  <2>2. QED BY <2>1, GrowsTypes DEF Committed, InCorpus, Chunk, Sqlite
<1>3. CASE LockTimeout \/ ChunkFails
  <2>1. /\ UNCHANGED <<opts, stored, rendered, printed>> /\ at' = "save"
        /\ seen' = stored \/ seen' = seen
        /\ lock' # "stream"
    BY <1>3, NoneAssumption DEF LockTimeout, ChunkFails, output, corpus, Locking, Chunk
  <2>2. QED BY <2>1 DEF Committed, InCorpus, Chunk, Sqlite
<1>4. CASE Observe
  BY <1>4, CommittedObserve
<1>5. CASE Commit
  BY <1>5, CommittedCommit
<1>6. CASE WriteOut
  BY <1>6, CommittedWriteOut
<1>7. CASE WriteOutFails
  BY <1>7, CommittedWriteOutFails
<1>8. CASE Save
  <2>1. /\ UNCHANGED <<opts, seen, rendered, printed, lock>> /\ at' = "exited" /\ at = "save"
        /\ stored' = stored \/ (~Sqlite /\ stored' = seen)
    BY <1>8 DEF Save, output
  <2>2. QED BY <2>1 DEF Committed, InCorpus, Locking, Chunk, Sqlite
<1>9. CASE Kill
  <2>1. UNCHANGED <<opts, stored, seen, rendered, printed>> /\ at' = "killed" /\ lock' # "stream"
    BY <1>9, NoneAssumption DEF Kill, output
  <2>2. QED BY <2>1 DEF Committed, InCorpus, Chunk, Sqlite
<1>10. CASE OtherBegins
  <2>1. UNCHANGED <<opts, stored, seen, rendered, printed, at>> /\ lock' = "other"
    BY <1>10 DEF OtherBegins, output
  <2>2. QED BY <2>1 DEF Committed, InCorpus, Sqlite
<1>11. CASE OtherEnds
  BY <1>11, CommittedOtherEnds
<1>12. CASE Write \/ CloseInput \/ CloseStdout \/ UNCHANGED vars
  <2>1. UNCHANGED <<opts, stored, seen, rendered, printed, lock, at>>
    BY <1>12 DEF Write, CloseInput, CloseStdout, vars, output, corpus
  <2>2. QED BY <2>1 DEF Committed, InCorpus, Sqlite
<1>13. QED BY <1>1, <1>2, <1>3, <1>4, <1>5, <1>6, <1>7, <1>8, <1>9, <1>10, <1>11, <1>12
           DEF Next, Progress, Happens

-----------------------------------------------------------------------------
(* The pieces not yet observed, in the order they were written. *)

Pieces == line \o buffer \o pipe

\* The number of the line the first of them is part of, or will be.
Current == IF Pieces = <<>> THEN Len(texts) + 1 ELSE Pieces[1].line

Ends(s, i, j) == \E k \in i..(j - 1) : s[k].end

\* A piece is of the line of the one before it, or of the next one after an end.
Joined(s) ==
    /\ \A i, j \in 1..Len(s) : i < j =>
          IF Ends(s, i, j) THEN s[i].line < s[j].line ELSE s[i].line = s[j].line
    /\ \A i \in 1..(Len(s) - 1) : s[i + 1].line <= s[i].line + 1

Contiguous ==
    /\ Joined(Pieces)
    /\ Pieces # <<>> => Pieces[Len(Pieces)].line = Len(texts)

LEMMA PieceType ==
    ASSUME NEW s \in Seq(Piece), NEW i \in 1..Len(s)
    PROVE  s[i].line \in Nat \ {0} /\ s[i].end \in BOOLEAN /\ s[i] \in Piece
<1>1. s[i] \in Piece
  OBVIOUS
<1>2. QED BY <1>1, BoundsAssumption DEF Piece

LEMMA PiecesType ==
    ASSUME Input
    PROVE  /\ Pieces \in Seq(Piece)
           /\ Len(Pieces) = Len(line) + Len(buffer) + Len(pipe)
           /\ \A i \in 1..Len(line) : Pieces[i] = line[i]
           /\ \A i \in 1..Len(buffer) : Pieces[Len(line) + i] = buffer[i]
           /\ \A i \in 1..Len(pipe) : Pieces[Len(line) + Len(buffer) + i] = pipe[i]
           /\ Len(line) \in Nat /\ Len(buffer) \in Nat /\ Len(pipe) \in Nat /\ Len(texts) \in Nat
<1>1. line \in Seq(Piece) /\ buffer \in Seq(Piece) /\ pipe \in Seq(Piece) /\ texts \in Seq(Texts)
  BY DEF Input
<1>2. /\ line \o buffer \in Seq(Piece)
      /\ Len(line \o buffer) = Len(line) + Len(buffer)
      /\ \A i \in 1..Len(line) + Len(buffer) :
            (line \o buffer)[i] = IF i <= Len(line) THEN line[i] ELSE buffer[i - Len(line)]
  BY <1>1, ConcatProperties
<1>3. /\ Pieces \in Seq(Piece)
      /\ Len(Pieces) = Len(line \o buffer) + Len(pipe)
      /\ \A i \in 1..Len(line \o buffer) + Len(pipe) :
            Pieces[i] = IF i <= Len(line \o buffer) THEN (line \o buffer)[i]
                        ELSE pipe[i - Len(line \o buffer)]
  BY <1>1, <1>2, ConcatProperties DEF Pieces
<1>4. Len(line) \in Nat /\ Len(buffer) \in Nat /\ Len(pipe) \in Nat /\ Len(texts) \in Nat
  BY <1>1
<1>5. \A i \in 1..Len(line) : Pieces[i] = line[i]
  BY <1>2, <1>3, <1>4
<1>6. \A i \in 1..Len(buffer) : Pieces[Len(line) + i] = buffer[i]
  BY <1>2, <1>3, <1>4
<1>7. \A i \in 1..Len(pipe) : Pieces[Len(line) + Len(buffer) + i] = pipe[i]
  BY <1>2, <1>3, <1>4
<1>8. QED BY <1>2, <1>3, <1>4, <1>5, <1>6, <1>7

LEMMA JoinedAppend ==
    ASSUME NEW s \in Seq(Piece), NEW x \in Piece, Joined(s),
           s = <<>> \/ x.line = s[Len(s)].line + (IF s[Len(s)].end THEN 1 ELSE 0)
    PROVE  Joined(Append(s, x))
<1> DEFINE t == Append(s, x)
           m == Len(s)
<1>1. /\ t \in Seq(Piece) /\ Len(t) = m + 1 /\ t[m + 1] = x /\ m \in Nat
      /\ \A i \in 1..m : t[i] = s[i]
  OBVIOUS
<1> HIDE DEF t, m
<1>2. \A i \in 1..m : s[i].line \in Nat /\ s[i].end \in BOOLEAN
  BY PieceType DEF m
<1>3. m > 0 => x.line = s[m].line + (IF s[m].end THEN 1 ELSE 0)
  BY DEF m
<1>4. \A i, j \in 1..m : Ends(t, i, j) = Ends(s, i, j)
  BY <1>1 DEF Ends
<1>5. \A i, j \in 1..m : i < j =>
          IF Ends(s, i, j) THEN s[i].line < s[j].line ELSE s[i].line = s[j].line
  BY DEF Joined, m
<1>6. \A i \in 1..m : Ends(t, i, m + 1) <=> Ends(s, i, m) \/ s[m].end
  BY <1>1 DEF Ends
<1>7. \A i \in 1..m :
          IF Ends(t, i, m + 1) THEN s[i].line < x.line ELSE s[i].line = x.line
  <2> TAKE i \in 1..m
  <2>1. m \in 1..m /\ ~Ends(s, m, m)
    BY <1>1 DEF Ends
  <2>2. CASE i = m
    BY <2>1, <2>2, <1>2, <1>3, <1>6
  <2>3. CASE i < m
    BY <2>1, <2>3, <1>2, <1>3, <1>5, <1>6
  <2>4. QED BY <1>1, <2>2, <2>3
<1>8. \A i, j \in 1..Len(t) : i < j =>
          IF Ends(t, i, j) THEN t[i].line < t[j].line ELSE t[i].line = t[j].line
  <2> TAKE i, j \in 1..Len(t)
  <2>1. CASE j = m + 1
    BY <1>1, <1>7, <2>1
  <2>2. CASE j # m + 1
    <3>1. j \in 1..m /\ (i < j => i \in 1..m)
      BY <1>1, <2>2
    <3>2. t[j] = s[j] /\ (i < j => t[i] = s[i] /\ (Ends(t, i, j) <=> Ends(s, i, j)))
      BY <1>1, <1>4, <3>1
    <3>3. QED BY <1>5, <3>1, <3>2
  <2>3. QED BY <2>1, <2>2
<1>9. \A i \in 1..(Len(t) - 1) : t[i + 1].line <= t[i].line + 1
  <2> TAKE i \in 1..(Len(t) - 1)
  <2>1. CASE i = m
    BY <1>1, <1>2, <1>3, <2>1
  <2>2. CASE i # m
    <3>1. i \in 1..(m - 1) /\ i + 1 \in 1..m
      BY <1>1, <2>2
    <3>2. QED BY <1>1, <3>1 DEF Joined, m
  <2>3. QED BY <2>1, <2>2
<1>10. QED BY <1>8, <1>9 DEF Joined, t

LEMMA JoinedRest ==
    ASSUME NEW s \in Seq(Piece), NEW t \in Seq(Piece), NEW n \in Nat, Joined(s),
           Len(s) = n + Len(t), \A i \in 1..Len(t) : t[i] = s[n + i]
    PROVE  Joined(t)
<1>1. \A i, j \in 1..Len(t) : Ends(t, i, j) <=> Ends(s, n + i, n + j)
  <2> TAKE i, j \in 1..Len(t)
  <2>1. ASSUME Ends(t, i, j) PROVE Ends(s, n + i, n + j)
    <3>1. PICK k \in i..(j - 1) : t[k].end
      BY <2>1 DEF Ends
    <3>2. n + k \in (n + i)..(n + j - 1) /\ t[k] = s[n + k]
      BY <3>1
    <3>3. QED BY <3>1, <3>2 DEF Ends
  <2>2. ASSUME Ends(s, n + i, n + j) PROVE Ends(t, i, j)
    <3>1. PICK k \in (n + i)..(n + j - 1) : s[k].end
      BY <2>2 DEF Ends
    <3>2. k - n \in i..(j - 1) /\ t[k - n] = s[n + (k - n)] /\ n + (k - n) = k
      <4>1. n + (k - n) = k
        OBVIOUS
      <4>2. k - n \in i..(j - 1)
        BY <3>1
      <4>3. k - n \in 1..Len(t)
        BY <4>2
      <4>4. QED BY <4>1, <4>2, <4>3
    <3>3. QED BY <3>1, <3>2 DEF Ends
  <2>3. QED BY <2>1, <2>2
<1>2. \A i \in 1..Len(t) : n + i \in 1..Len(s)
  OBVIOUS
<1>3. \A i, j \in 1..Len(t) : i < j =>
          IF Ends(t, i, j) THEN t[i].line < t[j].line ELSE t[i].line = t[j].line
  <2> TAKE i, j \in 1..Len(t)
  <2> DEFINE a == n + i
             b == n + j
  <2>1. a \in 1..Len(s) /\ b \in 1..Len(s) /\ (i < j => a < b)
    BY <1>2
  <2>2. t[i] = s[a] /\ t[j] = s[b] /\ (Ends(t, i, j) <=> Ends(s, a, b))
    BY <1>1
  <2> HIDE DEF a, b
  <2>3. QED BY <2>1, <2>2 DEF Joined
<1>4. \A i \in 1..(Len(t) - 1) : t[i + 1].line <= t[i].line + 1
  <2> TAKE i \in 1..(Len(t) - 1)
  <2>1. /\ n + i \in 1..(Len(s) - 1) /\ i + 1 \in 1..Len(t) /\ i \in 1..Len(t)
        /\ n + (i + 1) = (n + i) + 1
    OBVIOUS
  <2>2. QED BY <2>1 DEF Joined
<1>5. QED BY <1>3, <1>4 DEF Joined

LEMMA PiecesWritten ==
    ASSUME Input, Write
    PROVE  \E x \in Piece :
              /\ Pieces' = Append(Pieces, x)
              /\ x.line = Len(texts')
              /\ UNCHANGED <<buffer, line>> /\ pipe' = Append(pipe, x)
              /\ \/ texts' = texts /\ Unended
                 \/ ~Unended /\ \E text \in Texts : texts' = Append(texts, text)
<1>1. PICK end \in BOOLEAN :
        \/ /\ ~Unended /\ Len(texts) < MaxLines
           /\ \E text \in Texts : texts' = Append(texts, text)
           /\ pipe' = Append(pipe, [line |-> Len(texts) + 1, end |-> end])
        \/ /\ Unended
           /\ pipe' = Append(pipe, [line |-> Len(texts), end |-> TRUE])
           /\ texts' = texts
  BY DEF Write
<1>2. UNCHANGED <<buffer, line>>
  BY DEF Write
<1>3. \E x : pipe' = Append(pipe, x) /\ x.line = Len(texts')
  BY <1>1 DEF Input
<1>4. PICK x : pipe' = Append(pipe, x) /\ x.line = Len(texts')
  BY <1>3
<1>5. x \in Piece
  <2>1. pipe' \in Seq(Piece) /\ Len(pipe') = Len(pipe) + 1 /\ Len(pipe) \in Nat
    BY <1>4, InputWrite DEF Input
  <2>2. pipe'[Len(pipe')] = x
    BY <1>4, <2>1 DEF Input
  <2>3. QED BY <2>1, <2>2
<1>6. Pieces' = Append(Pieces, x)
  BY <1>2, <1>4, <1>5 DEF Input, Pieces
<1>7. QED BY <1>1, <1>2, <1>4, <1>5, <1>6

\* Whether the last line written has its end yet.
LEMMA LastPiece ==
    ASSUME Input
    PROVE  Unended <=> Pieces # <<>> /\ ~Pieces[Len(Pieces)].end
<1> USE DEF Input
<1>1. CASE pipe # <<>>
  <2>1. Len(pipe) \in 1..Len(pipe) /\ Len(Pieces) = Len(line) + Len(buffer) + Len(pipe)
    BY <1>1, PiecesType
  <2>2. Pieces[Len(Pieces)] = Last(pipe) /\ Pieces # <<>>
    BY <2>1, PiecesType DEF Last
  <2>3. QED BY <1>1, <2>2 DEF Unended
<1>2. CASE pipe = <<>> /\ buffer # <<>>
  <2>1. /\ Len(buffer) \in 1..Len(buffer) /\ Len(pipe) = 0
        /\ Len(Pieces) = Len(line) + Len(buffer)
    BY <1>2, PiecesType
  <2>2. Pieces[Len(Pieces)] = Last(buffer) /\ Pieces # <<>>
    BY <2>1, PiecesType DEF Last
  <2>3. QED BY <1>2, <2>2 DEF Unended
<1>3. CASE pipe = <<>> /\ buffer = <<>>
  <2>1. Pieces = line
    BY <1>3 DEF Pieces
  <2>2. QED BY <1>3, <2>1 DEF Unended, Last
<1>4. QED BY <1>1, <1>2, <1>3

LEMMA ContiguousWrite ==
    ASSUME Input, Contiguous, Write
    PROVE  Contiguous' /\ Current' = Current
<1>1. PICK x \in Piece :
        /\ Pieces' = Append(Pieces, x)
        /\ x.line = Len(texts')
        /\ \/ texts' = texts /\ Unended
           \/ ~Unended /\ \E text \in Texts : texts' = Append(texts, text)
  BY PiecesWritten
<1>2. Pieces \in Seq(Piece) /\ Len(Pieces) \in Nat /\ texts \in Seq(Texts) /\ Len(texts) \in Nat
  BY PiecesType DEF Input
<1>3. Pieces = <<>> \/ x.line = Pieces[Len(Pieces)].line + (IF Pieces[Len(Pieces)].end THEN 1 ELSE 0)
  <2>1. CASE texts' = texts /\ Unended
    BY <1>1, <2>1, LastPiece DEF Contiguous
  <2>2. CASE ~Unended /\ \E text \in Texts : texts' = Append(texts, text)
    <3>1. Len(texts') = Len(texts) + 1
      BY <1>2, <2>2
    <3>2. QED BY <1>1, <1>2, <2>2, <3>1, LastPiece DEF Contiguous
  <2>3. QED BY <1>1, <2>1, <2>2
<1>4. Joined(Pieces')
  BY <1>1, <1>2, <1>3, JoinedAppend DEF Contiguous
<1>5. Pieces'[Len(Pieces')].line = Len(texts')
  BY <1>1, <1>2
<1>6. Current' = Current
  <2>1. CASE Pieces = <<>>
    <3>1. texts' # texts /\ Len(texts') = Len(texts) + 1
      BY <1>1, <1>2, <2>1, LastPiece
    <3>2. Pieces'[1] = x /\ Pieces' # <<>>
      BY <1>1, <1>2, <2>1
    <3>3. QED BY <1>1, <2>1, <3>1, <3>2 DEF Current
  <2>2. CASE Pieces # <<>>
    <3>1. 1 \in 1..Len(Pieces)
      BY <1>2, <2>2
    <3>2. Pieces'[1] = Pieces[1] /\ Pieces' # <<>>
      BY <1>1, <1>2, <3>1
    <3>3. QED BY <2>2, <3>2 DEF Current
  <2>3. QED BY <2>1, <2>2
<1>7. QED BY <1>4, <1>5, <1>6 DEF Contiguous

LEMMA Regroup ==
    ASSUME NEW a \in Seq(Piece), NEW b \in Seq(Piece), NEW c \in Seq(Piece)
    PROVE  (a \o b) \o c = a \o (b \o c)
OBVIOUS

\* Reading moves pieces on, in order.
LEMMA PiecesFill == ASSUME Input, Fill PROVE Pieces' = Pieces
<1>1. PICK n \in 1..Capacity :
        n <= Len(pipe) /\ buffer' = SubSeq(pipe, 1, n) /\ pipe' = SubSeq(pipe, n + 1, Len(pipe))
  BY DEF Fill
<1>2. line' = line /\ buffer = <<>> /\ pipe \in Seq(Piece) /\ line \in Seq(Piece) /\ n \in 1..Len(pipe)
  BY <1>1, CapacityAssumption DEF Fill, Input
<1>3. SubSeq(pipe, 1, n) \o SubSeq(pipe, n + 1, Len(pipe)) = pipe
  BY <1>2, ConcatAdjacentSubSeq, SubSeqFull
<1>4. SubSeq(pipe, 1, n) \in Seq(Piece) /\ SubSeq(pipe, n + 1, Len(pipe)) \in Seq(Piece)
  BY <1>2
<1>5. Pieces' = line \o (SubSeq(pipe, 1, n) \o SubSeq(pipe, n + 1, Len(pipe)))
  <2> DEFINE a == SubSeq(pipe, 1, n)
             b == SubSeq(pipe, n + 1, Len(pipe))
  <2>1. a \in Seq(Piece) /\ b \in Seq(Piece) /\ Pieces' = (line \o a) \o b
    BY <1>1, <1>2, <1>4 DEF Pieces
  <2> HIDE DEF a, b
  <2>2. (line \o a) \o b = line \o (a \o b)
    BY <1>2, <2>1, Regroup
  <2>3. QED BY <2>1, <2>2 DEF a, b
<1>6. Pieces = line \o pipe
  BY <1>2, ConcatEmptySeq DEF Pieces
<1>7. QED BY <1>3, <1>5, <1>6

\* How far into the buffer a line reaches.
Taken == IF HasEnd(buffer) THEN SelectInSeq(buffer, LAMBDA p : p.end) ELSE Len(buffer)

LEMMA TakenType == ASSUME Input, buffer # <<>> PROVE Taken \in 1..Len(buffer)
BY FirstEnd DEF Taken, Input

LEMMA PiecesTakeBuffered == ASSUME Input, TakeBuffered PROVE Pieces' = Pieces
<1> DEFINE n == Taken
<1>1. /\ buffer # <<>> /\ buffer \in Seq(Piece) /\ line \in Seq(Piece) /\ pipe \in Seq(Piece)
      /\ line' = line \o SubSeq(buffer, 1, n)
      /\ buffer' = SubSeq(buffer, n + 1, Len(buffer))
      /\ pipe' = pipe
  BY DEF TakeBuffered, Input, Taken
<1>2. n \in 1..Len(buffer)
  BY <1>1, TakenType
<1> HIDE DEF n
<1>3. SubSeq(buffer, 1, n) \o SubSeq(buffer, n + 1, Len(buffer)) = buffer
  BY <1>1, <1>2, ConcatAdjacentSubSeq, SubSeqFull
<1>4. SubSeq(buffer, 1, n) \in Seq(Piece) /\ SubSeq(buffer, n + 1, Len(buffer)) \in Seq(Piece)
  BY <1>1, <1>2
<1>5. line' \o buffer' = line \o (SubSeq(buffer, 1, n) \o SubSeq(buffer, n + 1, Len(buffer)))
  <2> DEFINE a == SubSeq(buffer, 1, n)
             b == SubSeq(buffer, n + 1, Len(buffer))
  <2>1. a \in Seq(Piece) /\ b \in Seq(Piece) /\ line' \o buffer' = (line \o a) \o b
    BY <1>1, <1>4
  <2> HIDE DEF a, b
  <2>2. (line \o a) \o b = line \o (a \o b)
    BY <1>1, <2>1, Regroup
  <2>3. QED BY <2>1, <2>2 DEF a, b
<1>6. QED BY <1>1, <1>3, <1>5 DEF Pieces

-----------------------------------------------------------------------------
(* Where the line being read ends. *)

\* The current line can not be read, nor any after it.
Garbled == Current <= Len(texts) /\ texts[Current] = "invalid"

\* No whole line is left of what was read.
Unfinished == ~HasEnd(line) /\ ~HasEnd(buffer)

LineTaken ==
    /\ line # <<>> /\ \A i \in 1..(Len(line) - 1) : ~line[i].end
    /\ line[Len(line)].end \/ (buffer = <<>> /\ pipe = <<>> /\ ~open)
    /\ texts[Current] # "invalid"

Placed ==
    /\ at \in {"reading", "more"} => failure = None /\ ~HasEnd(line)
    /\ at \in {"begin", "observe"} => failure = None /\ LineTaken
    /\ at \in {"commit", "print", "ended"} =>
          \/ failure \in {None, "read"} /\ Unfinished
          \/ failure = "read" /\ Garbled
    /\ at \in {"save", "exited"} /\ failure \notin {"corpus", "save"} => Unfinished \/ Garbled

LEMMA CurrentType ==
    ASSUME Input, Contiguous
    PROVE  /\ Current \in 1..(Len(texts) + 1)
           /\ line # <<>> => Current = line[1].line /\ Current <= Len(texts)
           /\ Pieces # <<>> => Current <= Len(texts)
<1>1. Len(Pieces) \in Nat /\ Len(texts) \in Nat
  BY PiecesType
<1>2. CASE Pieces = <<>>
  <2>1. line = <<>>
    BY <1>1, <1>2, PiecesType DEF Input
  <2>2. QED BY <1>1, <1>2, <2>1 DEF Current
<1>3. CASE Pieces # <<>>
  <2>1. 1 \in 1..Len(Pieces) /\ Len(Pieces) \in 1..Len(Pieces)
    BY <1>1, <1>3, PiecesType
  <2>2. Pieces[1].line \in Nat \ {0} /\ Pieces[Len(Pieces)].line = Len(texts)
    BY <1>3, <2>1, PieceType, PiecesType DEF Contiguous
  <2>3. Pieces[1].line <= Pieces[Len(Pieces)].line
    BY <1>1, <2>1, <2>2 DEF Contiguous, Joined
  <2>4. line # <<>> => Pieces[1] = line[1]
    BY PiecesType DEF Input
  <2>5. QED BY <1>1, <1>3, <2>2, <2>3, <2>4 DEF Current
<1>4. QED BY <1>2, <1>3

\* A piece that no end comes before is of the current line.
LEMMA SameLine ==
    ASSUME Input, Contiguous, NEW j \in 1..Len(Pieces), \A k \in 1..(j - 1) : ~Pieces[k].end
    PROVE  Pieces[j].line = Current
<1>1. Pieces # <<>> /\ 1 \in 1..Len(Pieces) /\ Current = Pieces[1].line
  BY PiecesType DEF Current
<1>2. ~Ends(Pieces, 1, j)
  BY DEF Ends
<1>3. CASE j = 1
  BY <1>1, <1>3
<1>4. CASE 1 < j
  BY <1>1, <1>2, <1>4 DEF Contiguous, Joined
<1>5. QED BY <1>3, <1>4

LEMMA LineIsCurrent ==
    ASSUME Input, Contiguous, line # <<>>, \A i \in 1..(Len(line) - 1) : ~line[i].end
    PROVE  Last(line).line = Current
<1>1. Len(line) \in 1..Len(line) /\ Len(line) \in 1..Len(Pieces)
  BY PiecesType DEF Input
<1>2. \A k \in 1..(Len(line) - 1) : ~Pieces[k].end
  <2> TAKE k \in 1..(Len(line) - 1)
  <2>1. k \in 1..Len(line) /\ ~line[k].end
    BY <1>1
  <2>2. QED BY <2>1, PiecesType
<1>3. Pieces[Len(line)].line = Current
  BY <1>1, <1>2, SameLine
<1>4. QED BY <1>1, <1>3, PiecesType DEF Last

LEMMA PlacedTakeBuffered ==
    ASSUME Input, Contiguous, Placed, TakeBuffered
    PROVE  Placed'
<1> DEFINE n == Taken
<1>1. /\ buffer # <<>> /\ buffer \in Seq(Piece) /\ line \in Seq(Piece)
      /\ line' = line \o SubSeq(buffer, 1, n)
      /\ ~HasEnd(line) /\ failure = None /\ at \in {"reading", "more"}
      /\ texts' = texts /\ texts \in Seq(Texts)
  BY DEF TakeBuffered, Input, Taken, Placed, Reading, source
<1>2. n \in 1..Len(buffer) /\ \A i \in 1..(n - 1) : ~buffer[i].end
  BY <1>1, TakenType, FirstEnd DEF Taken, HasEnd
<1>3. HasEnd(buffer) => buffer[n].end
  BY <1>1, FirstEnd DEF Taken
<1>4. Pieces' = Pieces /\ Current' = Current
  BY <1>1, PiecesTakeBuffered DEF Current
<1> HIDE DEF n
<1>5. /\ Len(line') = Len(line) + n /\ Len(line) \in Nat
      /\ \A i \in 1..Len(line) : line'[i] = line[i]
      /\ \A i \in 1..n : line'[Len(line) + i] = buffer[i]
  BY <1>1, <1>2
<1>6. \A i \in 1..(Len(line') - 1) : ~line'[i].end
  <2> TAKE i \in 1..(Len(line') - 1)
  <2>1. CASE i <= Len(line)
    BY <1>1, <1>5, <2>1 DEF HasEnd
  <2>2. CASE ~ (i <= Len(line))
    <3>1. i - Len(line) \in 1..(n - 1) /\ i = Len(line) + (i - Len(line))
      BY <1>2, <1>5, <2>2
    <3>2. i - Len(line) \in 1..n /\ ~buffer[i - Len(line)].end
      BY <1>2, <3>1
    <3>3. line'[i] = buffer[i - Len(line)]
      BY <1>5, <3>1, <3>2
    <3>4. QED BY <3>2, <3>3
  <2>3. QED BY <2>1, <2>2
<1>7. line'[Len(line')] = buffer[n] /\ line' # <<>>
  BY <1>2, <1>5
<1>8. buffer[n].line = Current
  <2> DEFINE j == Len(line) + n
  <2>1. j \in 1..Len(Pieces) /\ Pieces[j] = buffer[n]
    BY <1>2, PiecesType
  <2>2. \A k \in 1..(j - 1) : ~Pieces[k].end
    <3> TAKE k \in 1..(j - 1)
    <3>1. CASE k <= Len(line)
      <4>1. k \in 1..Len(line)
        BY <3>1
      <4>2. Pieces[k] = line[k] /\ ~line[k].end
        BY <1>1, <4>1, PiecesType DEF HasEnd
      <4>3. QED BY <4>2
    <3>2. CASE ~ (k <= Len(line))
      <4>1. k - Len(line) \in 1..(n - 1) /\ k = Len(line) + (k - Len(line))
        BY <1>2, <1>5, <3>2
      <4>2. k - Len(line) \in 1..Len(buffer)
        BY <1>2, <4>1
      <4>3. Pieces[Len(line) + (k - Len(line))] = buffer[k - Len(line)]
        BY <4>2, PiecesType
      <4>4. QED BY <1>2, <4>1, <4>3
    <3>3. QED BY <3>1, <3>2
  <2> HIDE DEF j
  <2>3. Pieces[j].line = Current
    BY <2>1, <2>2, SameLine
  <2>4. QED BY <2>1, <2>3
<1>9. Current <= Len(texts)
  <2>1. Len(Pieces) \in Nat /\ Len(Pieces) > 0
    BY <1>2, PiecesType
  <2>2. QED BY <2>1, CurrentType
<1>10. CASE ~HasEnd(buffer)
  <2>1. UNCHANGED <<at, failure>>
    BY <1>10 DEF TakeBuffered
  <2>2. n = Len(buffer)
    BY <1>10 DEF n, Taken
  <2>3. \A i \in 1..Len(buffer) : ~buffer[i].end
    BY <1>10 DEF HasEnd
  <2>4. ~HasEnd(line')
    <3>1. ~line'[Len(line')].end
      BY <1>2, <1>7, <2>2, <2>3
    <3>2. \A i \in 1..Len(line') : ~line'[i].end
      <4> TAKE i \in 1..Len(line')
      <4>1. Len(line') \in Nat
        BY <1>2, <1>5
      <4>2. i = Len(line') \/ i \in 1..(Len(line') - 1)
        BY <4>1
      <4>3. QED BY <1>6, <3>1, <4>2
    <3>3. QED BY <3>2 DEF HasEnd
  <2>5. QED BY <1>1, <2>1, <2>4 DEF Placed
<1>11. CASE HasEnd(buffer) /\ texts[buffer[n].line] = "invalid"
  <2>1. at' \in {"ended", "commit"} /\ failure' = "read"
    BY <1>1, <1>11 DEF TakeBuffered, NoLine, n, Taken
  <2>2. Garbled'
    BY <1>1, <1>4, <1>8, <1>9, <1>11 DEF Garbled
  <2>3. QED BY <2>1, <2>2 DEF Placed
<1>12. CASE HasEnd(buffer) /\ texts[buffer[n].line] # "invalid"
  <2>1. at' \in {"begin", "observe"} /\ failure' = None
    BY <1>1, <1>12 DEF TakeBuffered, GotLine, n, Taken
  <2>2. LineTaken'
    BY <1>1, <1>3, <1>4, <1>6, <1>7, <1>8, <1>12 DEF LineTaken
  <2>3. QED BY <2>1, <2>2 DEF Placed
<1>13. QED BY <1>10, <1>11, <1>12

LEMMA PlacedEndOfInput ==
    ASSUME Input, Contiguous, Placed, EndOfInput
    PROVE  Placed'
<1>1. /\ UNCHANGED <<texts, open, pipe, buffer, line>> /\ buffer = <<>> /\ pipe = <<>> /\ ~open
      /\ ~HasEnd(line) /\ failure = None /\ at \in {"reading", "more"}
  BY DEF EndOfInput, Placed, Reading, source
<1>2. Pieces' = Pieces /\ Current' = Current
  BY <1>1 DEF Pieces, Current
<1>3. Unfinished'
  BY <1>1 DEF Unfinished, HasEnd
<1>4. CASE line = <<>> \/ texts[Last(line).line] = "invalid"
  <2>1. at' \in {"ended", "commit"} /\ failure' \in {None, "read"}
    BY <1>1, <1>4 DEF EndOfInput, NoLine
  <2>2. QED BY <1>3, <2>1 DEF Placed
<1>5. CASE line # <<>> /\ texts[Last(line).line] # "invalid"
  <2>1. at' \in {"begin", "observe"} /\ failure' = None
    BY <1>1, <1>5 DEF EndOfInput, GotLine
  <2>2. \A i \in 1..(Len(line) - 1) : ~line[i].end
    <3>1. Len(line) \in Nat
      BY PiecesType
    <3>2. QED BY <1>1, <3>1 DEF HasEnd
  <2>3. Last(line).line = Current
    BY <1>5, <2>2, LineIsCurrent
  <2>4. LineTaken'
    BY <1>1, <1>2, <1>5, <2>2, <2>3 DEF LineTaken
  <2>5. QED BY <2>1, <2>4 DEF Placed
<1>6. QED BY <1>4, <1>5

LEMMA PlacedWrite ==
    ASSUME Input, Contiguous, Placed, Write
    PROVE  Placed'
<1>1. UNCHANGED <<buffer, line, at, failure>> /\ open
  BY DEF Write
<1>2. Current' = Current
  BY ContiguousWrite
<1>3. Current <= Len(texts) => Current \in 1..Len(texts) /\ texts'[Current] = texts[Current] /\ Current <= Len(texts')
  <2>1. texts' = texts \/ \E text \in Texts : texts' = Append(texts, text)
    BY DEF Write
  <2>2. Current \in 1..(Len(texts) + 1) /\ texts \in Seq(Texts) /\ Len(texts) \in Nat
    BY CurrentType, PiecesType DEF Input
  <2>3. QED BY <2>1, <2>2
<1>4. Garbled => Garbled'
  BY <1>2, <1>3 DEF Garbled
<1>5. LineTaken => LineTaken'
  BY <1>1, <1>2, <1>3, CurrentType DEF LineTaken
<1>6. QED BY <1>1, <1>4, <1>5 DEF Placed, Unfinished

LEMMA PlacedStep == Input /\ Contiguous /\ Placed /\ [Next]_vars => Placed'
<1> SUFFICES ASSUME Input, Contiguous, Placed, [Next]_vars PROVE Placed'
  OBVIOUS
<1>1. CASE Write
  BY <1>1, PlacedWrite
<1>2. CASE Fill
  BY <1>2 DEF Fill, Placed, Reading, Unfinished
<1>3. CASE TakeBuffered
  BY <1>3, PlacedTakeBuffered
<1>4. CASE EndOfInput
  BY <1>4, PlacedEndOfInput
<1>5. CASE ReadFails
  <2>1. /\ UNCHANGED <<line, buffer>> /\ ~HasEnd(line) /\ buffer = <<>> /\ failure' = "read"
        /\ at' \in {"ended", "commit"}
    BY <1>5 DEF ReadFails, NoLine, Reading, Placed
  <2>2. Unfinished'
    BY <2>1 DEF Unfinished, HasEnd
  <2>3. QED BY <2>1, <2>2 DEF Placed
<1>6. CASE Observe
  <2>1. line' = <<>> /\ buffer' = buffer /\ failure' = failure /\ failure = None
    BY <1>6 DEF Observe, Placed
  <2>2. (HasEnd(buffer) /\ at' = "more") \/ (~HasEnd(buffer) /\ at' = "commit")
    BY <1>6 DEF Observe, LineBuffered
  <2>3. ~HasEnd(line')
    BY <2>1 DEF HasEnd
  <2>4. QED BY <2>1, <2>2, <2>3 DEF Placed, Unfinished
<1>7. ASSUME UNCHANGED <<texts, open, pipe, buffer, line>>
      PROVE  /\ Garbled' <=> Garbled
             /\ Unfinished' <=> Unfinished
             /\ LineTaken' <=> LineTaken
  BY <1>7 DEF Garbled, Unfinished, LineTaken, Current, Pieces, HasEnd
<1>8. CASE BeginChunk \/ LockTimeout \/ ChunkFails \/ Commit
  <2>1. UNCHANGED <<texts, open, pipe, buffer, line>>
    BY <1>8 DEF BeginChunk, LockTimeout, ChunkFails, Commit, source
  <2>2. QED BY <1>7, <1>8, <2>1 DEF BeginChunk, LockTimeout, ChunkFails, Commit, Placed
<1>9. CASE WriteOut \/ WriteOutFails
  <2>1. UNCHANGED <<texts, open, pipe, buffer, line>>
    BY <1>9 DEF WriteOut, WriteOutFails, source
  <2>2. Unfinished => ~HasEnd(line')
    BY <2>1 DEF Unfinished
  <2>3. QED BY <1>7, <1>9, <2>1, <2>2, NoneAssumption DEF WriteOut, WriteOutFails, Due, AfterWriteOut, Placed
<1>10. CASE Save \/ Kill
  <2>1. UNCHANGED <<texts, open, pipe, buffer, line>>
    BY <1>10 DEF Save, Kill, source
  <2>2. QED BY <1>7, <1>10, <2>1 DEF Save, Kill, Placed
<1>11. CASE CloseInput
  <2>1. UNCHANGED <<texts, pipe, buffer, line, at, failure>> /\ ~open'
    BY <1>11 DEF CloseInput
  <2>2. Current' = Current
    BY <2>1 DEF Current, Pieces
  <2>3. QED BY <1>11, <2>1, <2>2 DEF CloseInput, Placed, Garbled, Unfinished, LineTaken, HasEnd
<1>12. CASE CloseStdout \/ OtherBegins \/ OtherEnds \/ UNCHANGED vars
  <2>1. UNCHANGED <<texts, open, pipe, buffer, line, at, failure>>
    BY <1>12 DEF CloseStdout, OtherBegins, OtherEnds, source, vars
  <2>2. QED BY <1>7, <2>1 DEF Placed, HasEnd
<1>13. QED BY <1>1, <1>2, <1>3, <1>4, <1>5, <1>6, <1>8, <1>9, <1>10, <1>11, <1>12
           DEF Next, Progress, Happens

\* Observing takes the line's pieces away; the next line is then the current one.
LEMMA PiecesObserve ==
    ASSUME Input, Contiguous, Placed, Observe
    PROVE  Contiguous' /\ Current' = Current + 1 /\ Last(line).line = Current
<1>1. /\ line # <<>> /\ (\A i \in 1..(Len(line) - 1) : ~line[i].end)
      /\ line[Len(line)].end \/ (buffer = <<>> /\ pipe = <<>>)
      /\ line' = <<>> /\ UNCHANGED <<texts, buffer, pipe>>
  BY DEF Placed, LineTaken, Observe, source
<1>2. Last(line).line = Current /\ Current <= Len(texts) /\ Current \in Nat
  BY <1>1, LineIsCurrent, CurrentType
<1>3. Input'
  BY InputStep DEF Next, Progress
<1>4. /\ Pieces' \in Seq(Piece) /\ Len(Pieces) = Len(line) + Len(Pieces')
      /\ \A i \in 1..Len(Pieces') : Pieces'[i] = Pieces[Len(line) + i]
      /\ Len(line) \in Nat \ {0} /\ Len(Pieces') \in Nat
  <2>1. Pieces' = buffer \o pipe
    BY <1>1 DEF Input, Pieces
  <2>2. /\ Pieces' \in Seq(Piece) /\ Len(Pieces') = Len(buffer) + Len(pipe)
        /\ \A i \in 1..Len(Pieces') : Pieces'[i] = IF i <= Len(buffer) THEN buffer[i] ELSE pipe[i - Len(buffer)]
    BY <2>1 DEF Input
  <2>3. Len(line) \in Nat \ {0} /\ Len(Pieces') \in Nat /\ Len(Pieces) = Len(line) + Len(Pieces')
    BY <1>1, <2>2, PiecesType DEF Input
  <2>4. \A i \in 1..Len(Pieces') : Pieces'[i] = Pieces[Len(line) + i]
    <3> TAKE i \in 1..Len(Pieces')
    <3>1. CASE i <= Len(buffer)
      BY <2>2, <3>1, PiecesType
    <3>2. CASE ~ (i <= Len(buffer))
      <4>1. i - Len(buffer) \in 1..Len(pipe) /\ Len(line) + i = Len(line) + Len(buffer) + (i - Len(buffer))
        BY <2>2, <3>2, PiecesType
      <4>2. QED BY <2>2, <3>2, <4>1, PiecesType
    <3>3. QED BY <3>1, <3>2
  <2>5. QED BY <2>2, <2>3, <2>4
<1>5. Pieces \in Seq(Piece)
  BY PiecesType
<1>6. Joined(Pieces')
  BY <1>4, <1>5, JoinedRest DEF Contiguous
<1>7. Pieces' # <<>> => Pieces'[Len(Pieces')].line = Len(texts')
  <2>1. Pieces' # <<>> => Len(Pieces') \in 1..Len(Pieces') /\ Len(line) + Len(Pieces') = Len(Pieces)
    BY <1>4
  <2>2. QED BY <1>1, <1>4, <2>1 DEF Contiguous
<1>8. Current' = Current + 1
  <2> DEFINE m == Len(line)
  <2>1. m \in 1..Len(Pieces) /\ Pieces[m] = line[m] /\ Pieces[m].line = Current
    <3>1. m \in 1..Len(line) /\ m \in 1..Len(Pieces)
      BY <1>4
    <3>2. Pieces[m] = line[m]
      BY <3>1, PiecesType
    <3>3. QED BY <1>2, <3>1, <3>2 DEF Last
  <2>2. CASE Pieces' = <<>>
    <3>1. m = Len(Pieces) /\ Pieces # <<>>
      BY <1>4, <2>2
    <3>2. Current = Len(texts)
      BY <2>1, <3>1 DEF Contiguous
    <3>3. QED BY <1>1, <2>2, <3>2 DEF Current
  <2>3. CASE Pieces' # <<>>
    <3>1. 1 \in 1..Len(Pieces') /\ m + 1 \in 1..Len(Pieces)
      BY <1>4, <2>3
    <3>2. Current' = Pieces[m + 1].line
      BY <1>4, <2>3, <3>1 DEF Current
    <3>3. line[m].end
      <4>1. ~ (buffer = <<>> /\ pipe = <<>>)
        BY <1>1, <2>3 DEF Pieces
      <4>2. QED BY <1>1, <4>1
    <3>4. Ends(Pieces, m, m + 1)
      BY <1>4, <2>1, <3>3 DEF Ends
    <3>5. Pieces[m].line < Pieces[m + 1].line
      BY <1>4, <2>1, <3>1, <3>4 DEF Contiguous, Joined
    <3>6. Pieces[m + 1].line <= Pieces[m].line + 1
      <4>1. m \in 1..(Len(Pieces) - 1)
        BY <1>4, <2>1, <3>1
      <4>2. QED BY <4>1 DEF Contiguous, Joined
    <3>7. Pieces[m + 1].line \in Nat
      BY <1>5, <3>1, PieceType
    <3>8. QED BY <1>2, <2>1, <3>2, <3>5, <3>6, <3>7
  <2>4. QED BY <2>2, <2>3
<1>9. QED BY <1>2, <1>6, <1>7, <1>8 DEF Contiguous

LEMMA ContiguousStep ==
    ASSUME Input, Contiguous, Placed, [Next]_vars
    PROVE  /\ Contiguous'
           /\ Current' = IF Observe THEN Current + 1 ELSE Current
           /\ ~Write => UNCHANGED texts
<1>1. CASE Write
  <2>1. ~Observe
    BY <1>1 DEF Write, Observe, Unended
  <2>2. QED BY <1>1, <2>1, ContiguousWrite
<1>2. CASE Observe
  BY <1>2, PiecesObserve DEF Observe, source
<1>3. ASSUME ~Write, ~Observe
      PROVE  Pieces' = Pieces /\ UNCHANGED texts
  <2>1. CASE Fill
    BY <2>1, PiecesFill DEF Fill, source
  <2>2. CASE TakeBuffered
    BY <2>2, PiecesTakeBuffered DEF TakeBuffered, source
  <2>3. CASE EndOfInput \/ ReadFails \/ BeginChunk \/ LockTimeout \/ ChunkFails \/ Commit
    BY <2>3 DEF EndOfInput, ReadFails, BeginChunk, LockTimeout, ChunkFails, Commit, source, Pieces
  <2>4. CASE WriteOut \/ WriteOutFails \/ Save \/ Kill
    BY <2>4 DEF WriteOut, WriteOutFails, Save, Kill, source, Pieces
  <2>5. CASE CloseInput \/ CloseStdout \/ OtherBegins \/ OtherEnds \/ UNCHANGED vars
    BY <2>5 DEF CloseInput, CloseStdout, OtherBegins, OtherEnds, vars, source, Pieces
  <2>6. QED BY <1>3, <2>1, <2>2, <2>3, <2>4, <2>5 DEF Next, Progress, Happens
<1>4. CASE ~Write /\ ~Observe
  BY <1>3, <1>4 DEF Contiguous, Current
<1>5. QED BY <1>1, <1>2, <1>4

LEMMA CutInit == Init => Contiguous /\ Placed
BY DEF Init, Contiguous, Joined, Ends, Pieces, Placed, HasEnd

-----------------------------------------------------------------------------
(* What was observed of the lines before the current one. *)

Settled(b) == {n \in Observable(Len(texts)) : n < b}

\* The corpus `log` holds what there is to observe before some line already read.
Log(log) == Ascending(log) /\ \E b \in 1..Current : Own(log) = Settled(b)

Working == {"reading", "more", "begin", "observe", "commit", "print", "ended"}

Kept ==
    /\ \A j \in 1..(Current - 1) : texts[j] # "invalid"
    /\ Log(stored) /\ Log(seen)
    /\ at \in Working => Own(seen) = Settled(Current)
    /\ Sqlite /\ at \in {"reading", "begin", "print", "ended"} => Own(stored) = Settled(Current)
    /\ at = "save" /\ failure # "corpus" =>
          Own(IF Sqlite THEN stored ELSE seen) = Settled(Current)
    /\ at = "exited" /\ failure \notin {"corpus", "save"} => Own(stored) = Settled(Current)

LEMMA OwnAppend ==
    ASSUME NEW log \in Seq(Nat), NEW n \in Nat
    PROVE  Own(Append(log, n)) = Own(log) \cup ({n} \ {0})
<1>1. /\ Append(log, n) \in Seq(Nat) /\ Len(Append(log, n)) = Len(log) + 1 /\ Len(log) \in Nat
      /\ \A i \in 1..(Len(log) + 1) : Append(log, n)[i] = IF i = Len(log) + 1 THEN n ELSE log[i]
  OBVIOUS
<1>2. Range(log) = {log[i] : i \in 1..Len(log)}
  BY RangeEquality
<1>3. Range(Append(log, n)) = {Append(log, n)[i] : i \in 1..(Len(log) + 1)}
  BY <1>1, RangeEquality
<1>4. \A i \in 1..Len(log) : i \in 1..(Len(log) + 1) /\ i # Len(log) + 1
  BY <1>1
<1>5. \A i \in 1..(Len(log) + 1) : i = Len(log) + 1 \/ i \in 1..Len(log)
  BY <1>1
<1>6. Len(log) + 1 \in 1..(Len(log) + 1)
  BY <1>1
<1>7. Range(Append(log, n)) = Range(log) \cup {n}
  BY <1>1, <1>2, <1>3, <1>4, <1>5, <1>6
<1>8. QED BY <1>7 DEF Own

LEMMA AscendingAppend ==
    ASSUME NEW log \in Seq(Nat), NEW n \in Nat, Ascending(log),
           n # 0 => \A m \in Own(log) : m < n
    PROVE  Ascending(Append(log, n))
<1> DEFINE new == Append(log, n)
<1>1. /\ Len(new) = Len(log) + 1 /\ Len(log) \in Nat
      /\ \A i \in 1..(Len(log) + 1) : new[i] = IF i = Len(log) + 1 THEN n ELSE log[i]
  OBVIOUS
<1>2. \A i \in 1..Len(log) : log[i] # 0 => log[i] \in Own(log)
  BY RangeEquality DEF Own
<1> HIDE DEF new
<1>3. SUFFICES ASSUME NEW i \in 1..Len(new), NEW j \in 1..Len(new),
                      i < j, new[i] # 0, new[j] # 0
               PROVE  new[i] < new[j]
  BY DEF Ascending, new
<1>4. i \in 1..Len(log) /\ new[i] = log[i]
  BY <1>1, <1>3
<1>5. CASE j = Len(log) + 1
  BY <1>1, <1>2, <1>3, <1>4, <1>5
<1>6. CASE j # Len(log) + 1
  <2>1. j \in 1..Len(log) /\ new[j] = log[j]
    BY <1>1, <1>6
  <2>2. QED BY <1>3, <1>4, <2>1 DEF Ascending
<1>7. QED BY <1>5, <1>6

\* Lines are only added after the current one.
LEMMA SettledStays ==
    ASSUME Input, Contiguous, Placed, [Next]_vars
    PROVE  /\ Current \in Nat \ {0} /\ Current' \in {Current, Current + 1}
           /\ \A j \in 1..(Current - 1) : texts'[j] = texts[j]
           /\ \A b \in 1..Current : Settled(b)' = Settled(b)
<1>1. Current \in 1..(Len(texts) + 1) /\ Current' \in {Current, Current + 1}
  BY CurrentType, ContiguousStep
<1>2. CASE ~Write
  <2>1. texts' = texts
    BY <1>2, ContiguousStep
  <2>2. QED BY <1>1, <2>1 DEF Settled, Observable
<1>3. CASE Write
  <2>1. texts' = texts \/ \E text \in Texts : texts' = Append(texts, text)
    BY <1>3 DEF Write
  <2>2. texts \in Seq(Texts) /\ Len(texts) \in Nat
    BY DEF Input
  <2>3. /\ \A j \in 1..Len(texts) : texts'[j] = texts[j]
        /\ Len(texts') \in {Len(texts), Len(texts) + 1}
    BY <2>1, <2>2
  <2>4. ASSUME NEW b \in 1..Current
        PROVE  Settled(b)' = Settled(b)
    <3>1. \A n \in Nat : n < b => (n \in 1..Len(texts') <=> n \in 1..Len(texts))
      BY <1>1, <2>2, <2>3
    <3>2. \A n \in 1..Len(texts) : \A j \in 1..n : j \in 1..Len(texts)
      BY <2>2
    <3>3. \A n \in 1..Len(texts) : n < b => (n \in Observable(Len(texts))' <=> n \in Observable(Len(texts)))
      BY <2>3, <3>1, <3>2 DEF Observable
    <3>4. QED BY <3>1, <3>3 DEF Settled, Observable
  <2>5. QED BY <1>1, <2>2, <2>3, <2>4
<1>4. QED BY <1>2, <1>3

LEMMA LogStays ==
    ASSUME Input, Contiguous, Placed, [Next]_vars
    PROVE  /\ Log(stored) /\ stored' = stored => Log(stored)'
           /\ Log(seen) /\ seen' = seen => Log(seen)'
           /\ Log(seen) /\ stored' = seen => Log(stored)'
           /\ Log(stored) /\ seen' = stored => Log(seen)'
<1>1. /\ Current \in Nat \ {0} /\ Current' \in {Current, Current + 1}
      /\ \A b \in 1..Current : Settled(b)' = Settled(b)
  BY SettledStays
<1>2. \A b \in 1..Current : b \in 1..Current'
  BY <1>1
<1>3. QED BY <1>1, <1>2 DEF Log, Own, Ascending, Range

LEMMA KeptObserve ==
    ASSUME Input, Contiguous, Placed, Committed, Kept, Observe
    PROVE  Kept'
<1>1. [Next]_vars
  BY DEF Next, Progress
<1>2. /\ Current' = Current + 1 /\ Last(line).line = Current /\ texts' = texts
      /\ Current \in 1..(Len(texts) + 1) /\ Len(texts) \in Nat /\ Current <= Len(texts)
  BY <1>1, PiecesObserve, CurrentType, PiecesType DEF Observe, source, Placed, LineTaken
<1>3. /\ at = "observe" /\ at' \in {"more", "commit"} /\ UNCHANGED <<stored, opts, failure>>
      /\ texts[Current] # "invalid"
      /\ IF texts[Current] = "iri" THEN seen' = Append(seen, Current) ELSE seen' = seen
  BY <1>2 DEF Observe, Placed, LineTaken
<1>4. \A j \in 1..Current : texts[j] # "invalid"
  <2>1. \A j \in 1..Current : j = Current \/ j \in 1..(Current - 1)
    BY <1>2
  <2>2. QED BY <1>3, <2>1 DEF Kept
<1>5. Own(seen) = Settled(Current) /\ seen \in Seq(Nat) /\ Ascending(seen)
  BY <1>3 DEF Kept, Working, Committed, Log
<1>6. Settled(Current + 1) = Settled(Current) \cup (IF texts[Current] = "iri" THEN {Current} ELSE {})
  <2>1. Current \in Observable(Len(texts)) <=> texts[Current] = "iri"
    BY <1>2, <1>4 DEF Observable
  <2>2. \A n \in Observable(Len(texts)) : n < Current + 1 <=> n < Current \/ n = Current
    BY <1>2 DEF Observable
  <2>3. QED BY <1>2, <2>1, <2>2 DEF Settled
<1>7. Settled(Current)' = Settled(Current + 1)
  BY <1>2 DEF Settled, Observable
<1>8. Own(seen') = Settled(Current)'
  <2>1. CASE texts[Current] = "iri"
    <3>1. Own(Append(seen, Current)) = Own(seen) \cup ({Current} \ {0})
      BY <1>2, <1>5, OwnAppend
    <3>2. {Current} \ {0} = {Current}
      BY <1>2
    <3>3. QED BY <1>3, <1>5, <1>6, <1>7, <2>1, <3>1, <3>2
  <2>2. CASE texts[Current] # "iri"
    BY <1>3, <1>5, <1>6, <1>7, <2>2
  <2>3. QED BY <2>1, <2>2
<1>9. Ascending(seen')
  <2>1. \A m \in Own(seen) : m < Current
    BY <1>5 DEF Settled
  <2>2. Ascending(Append(seen, Current))
    BY <1>2, <1>5, <2>1, AscendingAppend
  <2>3. QED BY <1>3, <1>5, <2>2
<1>10. Log(seen)'
  <2>1. Current' \in 1..Current'
    BY <1>2
  <2>2. QED BY <1>8, <1>9, <2>1 DEF Log, Own, Ascending
<1>11. Log(stored)'
  BY <1>1, <1>3, LogStays DEF Kept
<1>12. \A j \in 1..(Current' - 1) : texts'[j] # "invalid"
  BY <1>2, <1>4
<1>13. Own(seen)' = Settled(Current)'
  BY <1>8 DEF Own
<1>14. QED BY <1>3, <1>10, <1>11, <1>12, <1>13 DEF Kept

LEMMA KeptStep ==
    ASSUME Input, Contiguous, Placed, Committed, Kept, [Next]_vars
    PROVE  Kept'
<1>1. CASE Observe
  BY <1>1, KeptObserve
<1> SUFFICES ASSUME ~Observe PROVE Kept'
  BY <1>1
<1>2. /\ Current' = Current /\ Current \in Nat \ {0}
      /\ \A j \in 1..(Current' - 1) : texts'[j] # "invalid"
      /\ Settled(Current)' = Settled(Current)
  <2>1. Current' = Current /\ Current \in Nat \ {0} /\ Current \in 1..Current
    BY SettledStays, ContiguousStep
  <2>2. \A b \in 1..Current : Settled(b)' = Settled(b)
    BY SettledStays
  <2>3. {n \in Observable(Len(texts))' : n < Current} = Settled(Current)
    BY <2>1, <2>2 DEF Settled
  <2>4. Settled(Current)' = Settled(Current)
    BY <2>1, <2>3 DEF Settled
  <2>5. QED BY <2>1, <2>4, SettledStays DEF Kept
<1>3. ASSUME stored' \in {stored, seen}, seen' \in {seen, stored}
      PROVE  Log(stored)' /\ Log(seen)'
  BY <1>3, LogStays DEF Kept
<1> DEFINE OwnIs(log) == Own(log) = Settled(Current)
<1>4. /\ stored' = stored => (Own(stored)' = Settled(Current)' <=> OwnIs(stored))
      /\ stored' = seen => (Own(stored)' = Settled(Current)' <=> OwnIs(seen))
      /\ seen' = seen => (Own(seen)' = Settled(Current)' <=> OwnIs(seen))
      /\ seen' = stored => (Own(seen)' = Settled(Current)' <=> OwnIs(stored))
  BY <1>2 DEF Own, Range
<1> USE DEF Kept
<1>5. CASE Write \/ Fill \/ CloseInput \/ CloseStdout \/ OtherBegins \/ UNCHANGED vars
  <2>1. UNCHANGED <<opts, stored, seen, at, failure>>
    BY <1>5 DEF Write, Fill, CloseInput, CloseStdout, OtherBegins, corpus, vars
  <2>2. QED BY <1>2, <1>3, <1>4, <2>1 DEF Sqlite
<1>6. CASE TakeBuffered \/ EndOfInput \/ ReadFails
  <2>1. UNCHANGED <<opts, stored, seen>> /\ at \in {"reading", "more"}
    BY <1>6 DEF TakeBuffered, EndOfInput, ReadFails, Reading, corpus
  <2>2. /\ at = "reading" => at' \in {"reading", "begin", "ended"}
        /\ at = "more" => at' \in {"more", "observe", "commit"}
    BY <1>6 DEF TakeBuffered, EndOfInput, ReadFails, GotLine, NoLine
  <2>3. QED BY <1>2, <1>3, <1>4, <2>1, <2>2 DEF Sqlite, Working
<1>7. CASE BeginChunk
  <2>1. /\ UNCHANGED <<opts, stored>> /\ at = "begin" /\ at' = "observe"
        /\ IF Sqlite THEN seen' = stored ELSE seen' = seen
    BY <1>7 DEF BeginChunk
  <2>2. QED BY <1>2, <1>3, <1>4, <2>1 DEF Sqlite, Working
<1>8. CASE LockTimeout \/ ChunkFails
  <2>1. /\ UNCHANGED <<opts, stored>> /\ at' = "save" /\ failure' = "corpus"
        /\ seen' \in {seen, stored}
    BY <1>8 DEF LockTimeout, ChunkFails, corpus
  <2>2. QED BY <1>2, <1>3, <1>4, <2>1 DEF Working
<1>9. CASE Commit
  <2>1. /\ UNCHANGED <<opts, seen>> /\ at = "commit" /\ at' = "print"
        /\ IF Sqlite THEN stored' = seen ELSE stored' = stored
    BY <1>9 DEF Commit
  <2>2. QED BY <1>2, <1>3, <1>4, <2>1 DEF Sqlite, Working
<1>10. CASE WriteOut \/ WriteOutFails
  <2>1. /\ UNCHANGED <<opts, stored, seen>> /\ at \in {"print", "ended"}
        /\ at' \in {"save", "reading", "ended"}
    BY <1>10 DEF WriteOut, WriteOutFails, Due, AfterWriteOut, corpus
  <2>2. QED BY <1>2, <1>3, <1>4, <2>1 DEF Sqlite, Working
<1>11. CASE Save
  <2>1. /\ UNCHANGED <<opts, seen>> /\ at = "save" /\ at' = "exited"
        /\ \/ failure' = failure /\ stored' = IF Sqlite THEN stored ELSE seen
           \/ failure' = "save" /\ stored' = stored
    BY <1>11 DEF Save
  <2>2. QED BY <1>2, <1>3, <1>4, <2>1 DEF Sqlite, Working
<1>12. CASE Kill
  <2>1. UNCHANGED <<stored, seen>> /\ at' = "killed"
    BY <1>12 DEF Kill
  <2>2. QED BY <1>2, <1>3, <1>4, <2>1 DEF Working
<1>13. CASE OtherEnds
  <2>1. /\ UNCHANGED <<opts, seen, at, failure>> /\ stored \in Seq(Nat)
        /\ stored' = stored \/ stored' = Append(stored, 0)
    BY <1>13 DEF OtherEnds, Committed
  <2>2. CASE stored' = stored
    BY <1>2, <1>3, <1>4, <2>1, <2>2 DEF Sqlite
  <2>3. CASE stored' = Append(stored, 0)
    <3>1. Own(stored') = Own(stored) /\ Ascending(stored')
      BY <2>1, <2>3, OwnAppend, AscendingAppend DEF Log
    <3>2. \A b \in 1..Current : Settled(b)' = Settled(b)
      BY SettledStays
    <3>3. Log(stored)'
      BY <1>2, <3>1, <3>2 DEF Log, Own, Ascending
    <3>4. Log(seen)'
      BY <2>1, LogStays
    <3>5. Own(stored)' = Settled(Current)' <=> Own(stored) = Settled(Current)
      BY <1>2, <3>1 DEF Own
    <3>6. QED BY <1>2, <1>4, <2>1, <3>3, <3>4, <3>5 DEF Sqlite
  <2>4. QED BY <2>1, <2>2, <2>3
<1>14. QED BY <1>5, <1>6, <1>7, <1>8, <1>9, <1>10, <1>11, <1>12, <1>13
           DEF Next, Progress, Happens

LEMMA KeptInit == Init => Kept
<1> SUFFICES ASSUME Init PROVE Kept
  OBVIOUS
<1>1. Current = 1 /\ Len(texts) = 0 /\ stored = <<>> /\ seen = <<>> /\ at = "reading"
  BY DEF Init, Current, Pieces
<1>2. Own(<<>>) = {} /\ Settled(1) = {}
  BY <1>1 DEF Own, Settled, Observable, Range
<1>3. Own(stored) = Settled(1) /\ Own(seen) = Settled(1) /\ Own(seen) = Settled(Current)
  BY <1>1, <1>2
<1>4. Log(stored) /\ Log(seen)
  <2>1. 1 \in 1..Current
    BY <1>1
  <2>2. QED BY <1>1, <1>3, <2>1 DEF Log, Ascending
<1>5. Own(stored) = Settled(Current)
  BY <1>1, <1>3
<1>6. \A j \in 1..(Current - 1) : FALSE
  BY <1>1
<1>7. QED BY <1>1, <1>3, <1>4, <1>5, <1>6 DEF Kept

-----------------------------------------------------------------------------
(* What was printed of what was observed. *)

LinesOf(entries) == {entries[i].line : i \in 1..Len(entries)}

Rising(entries) == \A i, j \in 1..Len(entries) : i < j => entries[i].line < entries[j].line

Ordered ==
    /\ at \in Working => Rising(printed \o rendered) /\ LinesOf(printed \o rendered) = Own(seen)
    /\ Rising(printed)
    /\ Begins(LinesOf(printed), Own(IF Sqlite THEN stored ELSE seen))

LEMMA Elements ==
    ASSUME NEW S, NEW s \in Seq(S)
    PROVE  Len(s) \in Nat /\ \A i \in 1..Len(s) : s[i] \in S
OBVIOUS

LEMMA Appended ==
    ASSUME NEW S, NEW s \in Seq(S), NEW x \in S
    PROVE  /\ Len(Append(s, x)) = Len(s) + 1 /\ Len(s) \in Nat
           /\ \A i \in 1..(Len(s) + 1) :
                 Append(s, x)[i] = IF i = Len(s) + 1 THEN x ELSE s[i]
OBVIOUS

LEMMA EntryType ==
    ASSUME NEW e \in Entries
    PROVE  Len(e) \in Nat /\ \A i \in 1..Len(e) : e[i].line \in Nat
<1>1. Len(e) \in Nat /\ \A i \in 1..Len(e) : e[i] \in [line : Nat, from : Nat]
  BY Elements DEF Entries
<1>2. QED BY <1>1

LEMMA RisingBeginning ==
    ASSUME NEW e \in Entries, NEW p \in Entries, Rising(e), Len(p) <= Len(e),
           \A i \in 1..Len(p) : p[i] = e[i]
    PROVE  Rising(p) /\ Begins(LinesOf(p), LinesOf(e))
<1>1. Len(p) \in Nat /\ Len(e) \in Nat /\ \A i \in 1..Len(p) : i \in 1..Len(e)
  BY EntryType
<1>2. Rising(p)
  BY <1>1 DEF Rising
<1>3. LinesOf(p) \subseteq LinesOf(e)
  BY <1>1 DEF LinesOf
<1>4. ASSUME NEW i \in 1..Len(p), NEW j \in 1..Len(e), e[j].line < p[i].line
      PROVE  e[j].line \in LinesOf(p)
  <2>1. i \in 1..Len(e) /\ p[i] = e[i] /\ e[i].line \in Nat /\ e[j].line \in Nat
    BY <1>1, EntryType
  <2>2. ~ (i <= j)
    BY <1>4, <2>1 DEF Rising
  <2>3. j \in 1..Len(p)
    BY <1>1, <2>2
  <2>4. QED BY <2>3 DEF LinesOf
<1>5. QED BY <1>2, <1>3, <1>4 DEF LinesOf, Begins

LEMMA RisingAppend ==
    ASSUME NEW e \in Entries, NEW x \in [line : Nat, from : Nat], Rising(e),
           \A n \in LinesOf(e) : n < x.line
    PROVE  Rising(Append(e, x)) /\ LinesOf(Append(e, x)) = LinesOf(e) \cup {x.line}
<1> DEFINE new == Append(e, x)
           Entry == [line : Nat, from : Nat]
<1>0. e \in Seq(Entry) /\ x \in Entry
  BY DEF Entries
<1> HIDE DEF Entry
<1>1. /\ Len(new) = Len(e) + 1 /\ Len(e) \in Nat
      /\ \A i \in 1..(Len(e) + 1) : new[i] = IF i = Len(e) + 1 THEN x ELSE e[i]
  BY <1>0, Appended
<1> HIDE DEF new
<1>2. \A i \in 1..Len(new) : i = Len(e) + 1 \/ (i \in 1..Len(e) /\ i # Len(e) + 1)
  BY <1>1
<1>3. \A i \in 1..Len(e) : i \in 1..Len(new) /\ new[i] = e[i] /\ e[i].line \in LinesOf(e)
  BY <1>1 DEF LinesOf
<1>4. Len(e) + 1 \in 1..Len(new) /\ new[Len(e) + 1] = x
  BY <1>1
<1>5. LinesOf(new) = LinesOf(e) \cup {x.line}
  BY <1>2, <1>3, <1>4 DEF LinesOf
<1>6. Rising(new)
  <2> SUFFICES ASSUME NEW i \in 1..Len(new), NEW j \in 1..Len(new), i < j
               PROVE  new[i].line < new[j].line
    BY DEF Rising
  <2>1. i \in 1..Len(e)
    BY <1>1, <1>2
  <2>2. CASE j = Len(e) + 1
    BY <1>3, <1>4, <2>1, <2>2
  <2>3. CASE j \in 1..Len(e)
    BY <1>3, <2>1, <2>3 DEF Rising
  <2>4. QED BY <1>2, <2>2, <2>3
<1>7. QED BY <1>5, <1>6 DEF new

LEMMA JoinAppend ==
    ASSUME NEW a \in Entries, NEW b \in Entries, NEW x \in [line : Nat, from : Nat]
    PROVE  a \o Append(b, x) = Append(a \o b, x)
BY DEF Entries

LEMMA JoinBeginning ==
    ASSUME NEW a \in Entries, NEW b \in Entries
    PROVE  /\ a \o b \in Entries /\ a \o <<>> = a
           /\ Len(a) <= Len(a \o b) /\ \A i \in 1..Len(a) : (a \o b)[i] = a[i]
BY DEF Entries

LEMMA JoinCut ==
    ASSUME NEW a \in Entries, NEW b \in Entries, NEW n \in 0..Len(b) - 1
    PROVE  LET p == a \o SubSeq(b, 1, n)
           IN  p \in Entries /\ Len(p) <= Len(a \o b) /\ \A i \in 1..Len(p) : p[i] = (a \o b)[i]
<1> DEFINE c == SubSeq(b, 1, n)
<1>1. c \in Entries /\ Len(c) = n /\ \A i \in 1..n : c[i] = b[i]
  <2>1. n \in Nat /\ n <= Len(b)
    BY EntryType
  <2>2. QED BY <2>1, Beginning DEF Entries
<1> HIDE DEF c
<1>2. /\ Len(a \o b) = Len(a) + Len(b) /\ Len(a) \in Nat /\ Len(b) \in Nat
      /\ \A i \in 1..(Len(a) + Len(b)) : (a \o b)[i] = IF i <= Len(a) THEN a[i] ELSE b[i - Len(a)]
  BY DEF Entries
<1>3. /\ a \o c \in Entries /\ Len(a \o c) = Len(a) + n
      /\ \A i \in 1..(Len(a) + n) : (a \o c)[i] = IF i <= Len(a) THEN a[i] ELSE c[i - Len(a)]
  BY <1>1, ConcatProperties DEF Entries
<1>4. ASSUME NEW i \in 1..(Len(a) + n)
      PROVE  (a \o c)[i] = (a \o b)[i]
  <2>1. i \in 1..(Len(a) + Len(b))
    BY <1>2
  <2>2. i <= Len(a) \/ i - Len(a) \in 1..n
    BY <1>2
  <2>3. QED BY <1>1, <1>2, <1>3, <2>1, <2>2
<1>5. QED BY <1>2, <1>3, <1>4 DEF c

\* A log ahead of another keeps what it begins with.
LEMMA BeginsOn ==
    ASSUME NEW b \in Nat, NEW c \in Nat, b <= c, NEW lines,
           Begins(lines, Settled(b))
    PROVE  Begins(lines, Settled(c))
<1>1. \A n \in Observable(Len(texts)) : n \in Int
  BY DEF Observable
<1>2. \A n \in Settled(b) : n \in Settled(c)
  BY <1>1 DEF Settled
<1>3. \A n \in Settled(b), m \in Settled(c) : m < n => m \in Settled(b)
  BY <1>1 DEF Settled
<1>4. QED BY <1>2, <1>3 DEF Begins

LEMMA OrderedObserve ==
    ASSUME Input, Contiguous, Placed, Committed, Kept, Ordered, Observe
    PROVE  Ordered'
<1>1. /\ Current' = Current + 1 /\ Last(line).line = Current /\ Current \in Nat
  BY PiecesObserve, CurrentType, PiecesType DEF Observe, Placed, LineTaken
<1>2. /\ UNCHANGED <<opts, stored, printed>> /\ at \in Working
      /\ printed \in Entries /\ rendered \in Entries /\ printed \o rendered \in Entries
      /\ seen \in Seq(Nat)
  BY JoinBeginning DEF Observe, Working, Committed
<1>3. Own(seen) = Settled(Current)
  BY <1>2 DEF Kept
<1>4. CASE texts[Current] = "iri"
  <2> DEFINE x == [line |-> Current, from |-> Len(seen) + 1]
  <2>1. seen' = Append(seen, Current) /\ rendered' = Append(rendered, x)
    BY <1>1, <1>4 DEF Observe
  <2>2. x \in [line : Nat, from : Nat] /\ x.line = Current
    BY <1>1, <1>2
  <2> HIDE DEF x
  <2>3. (printed \o rendered)' = Append(printed \o rendered, x)
    BY <1>2, <2>1, <2>2, JoinAppend
  <2>4. \A n \in LinesOf(printed \o rendered) : n < x.line
    BY <1>2, <1>3, <2>2 DEF Ordered, Settled
  <2>5. Own(seen') = Own(seen) \cup {Current}
    <3>1. Current \in 1..(Len(texts) + 1)
      BY CurrentType
    <3>2. QED BY <1>1, <1>2, <2>1, <3>1, OwnAppend
  <2>6. /\ Rising(Append(printed \o rendered, x))
        /\ LinesOf(Append(printed \o rendered, x)) = Own(seen')
    BY <1>2, <2>2, <2>4, <2>5, RisingAppend DEF Ordered
  <2>7. Begins(LinesOf(printed), Own(IF Sqlite THEN stored ELSE seen'))
    <3>1. CASE Sqlite
      BY <3>1 DEF Ordered
    <3>2. CASE ~Sqlite
      <4>1. Begins(LinesOf(printed), Own(seen))
        BY <3>2 DEF Ordered
      <4>2. \A n \in LinesOf(printed) : n \in Own(seen) /\ n < Current /\ n \in Int
        BY <1>3, <4>1 DEF Begins, Settled, Observable
      <4>3. \A n \in LinesOf(printed) : ~ (Current < n)
        BY <1>1, <4>2
      <4>4. QED BY <2>5, <3>2, <4>1, <4>2, <4>3 DEF Begins
    <3>3. QED BY <3>1, <3>2
  <2>8. QED BY <1>2, <2>3, <2>6, <2>7 DEF Ordered, Rising, LinesOf, Own, Sqlite
<1>5. CASE texts[Current] # "iri"
  <2>1. UNCHANGED <<seen, rendered>>
    BY <1>1, <1>5 DEF Observe
  <2>2. QED BY <1>2, <2>1 DEF Ordered, Sqlite
<1>6. QED BY <1>4, <1>5

LEMMA OrderedWriteOut ==
    ASSUME Committed, Kept, Ordered, WriteOut \/ WriteOutFails
    PROVE  Ordered'
<1> DEFINE log == IF Sqlite THEN stored ELSE seen
           all == printed \o rendered
<1>1. /\ UNCHANGED <<opts, stored, seen>> /\ at \in {"print", "ended"} /\ at \in Working
      /\ printed \in Entries /\ rendered \in Entries /\ all \in Entries
  BY JoinBeginning DEF WriteOut, WriteOutFails, Due, Working, Committed, corpus
<1>2. Rising(all) /\ LinesOf(all) = Own(seen) /\ Own(log) = Own(seen)
  BY <1>1 DEF Ordered, Kept
<1> HIDE DEF log
<1>3. Own(log)' = Own(log)
  BY <1>1 DEF Own, log, Sqlite
<1>4. CASE WriteOut /\ Due
  <2>1. printed' = all /\ rendered' = <<>>
    BY <1>4 DEF WriteOut
  <2>2. printed' \o rendered' = all
    BY <1>1, <2>1, JoinBeginning
  <2>3. Begins(LinesOf(all), Own(log))
    BY <1>2 DEF Begins
  <2>4. QED BY <1>1, <1>2, <1>3, <2>1, <2>2, <2>3 DEF Ordered, Rising, LinesOf, log
<1>5. CASE WriteOut /\ ~Due
  <2>1. UNCHANGED <<printed, rendered>>
    BY <1>5 DEF WriteOut
  <2>2. QED BY <1>1, <2>1 DEF Ordered, Sqlite
<1>6. CASE WriteOutFails
  <2>1. PICK n \in 0..Len(rendered) - 1 : printed' = printed \o SubSeq(rendered, 1, n)
    BY <1>6 DEF WriteOutFails
  <2>2. /\ printed' \in Entries /\ Len(printed') <= Len(all)
        /\ \A i \in 1..Len(printed') : printed'[i] = all[i]
    BY <1>1, <2>1, JoinCut
  <2> HIDE DEF all
  <2>3. Rising(printed') /\ Begins(LinesOf(printed'), LinesOf(all))
    BY <1>1, <1>2, <2>2, RisingBeginning
  <2>4. at' = "save"
    BY <1>6 DEF WriteOutFails
  <2>5. QED BY <1>1, <1>2, <1>3, <2>3, <2>4 DEF Ordered, Rising, LinesOf, Working, log
<1>7. QED BY <1>4, <1>5, <1>6

LEMMA OrderedStep ==
    ASSUME Input, Contiguous, Placed, Committed, Kept, Ordered, [Next]_vars
    PROVE  Ordered'
<1>1. CASE Observe
  BY <1>1, OrderedObserve
<1>2. CASE WriteOut \/ WriteOutFails
  BY <1>2, OrderedWriteOut
<1>3. CASE Write \/ Fill \/ CloseInput \/ CloseStdout \/ OtherBegins \/ UNCHANGED vars
  <2>1. UNCHANGED <<opts, stored, seen, at, printed, rendered>>
    BY <1>3 DEF Write, Fill, CloseInput, CloseStdout, OtherBegins, corpus, output, vars
  <2>2. QED BY <2>1 DEF Ordered, Sqlite
<1>4. CASE TakeBuffered \/ EndOfInput \/ ReadFails
  <2>1. UNCHANGED <<opts, stored, seen, printed, rendered>> /\ at \in Working
    BY <1>4 DEF TakeBuffered, EndOfInput, ReadFails, Reading, corpus, output, Working
  <2>2. QED BY <2>1 DEF Ordered, Sqlite
<1>5. CASE BeginChunk
  <2>1. /\ UNCHANGED <<opts, stored, printed, rendered>> /\ at = "begin" /\ at \in Working
        /\ IF Sqlite THEN seen' = stored ELSE seen' = seen
    BY <1>5 DEF BeginChunk, output, Working
  <2>2. Sqlite => Own(stored) = Own(seen)
    BY <2>1 DEF Kept
  <2>3. Own(seen') = Own(seen)
    BY <2>1, <2>2
  <2>4. Own(seen)' = Own(seen)
    BY <2>3 DEF Own
  <2>5. Own(IF Sqlite THEN stored ELSE seen)' = Own(IF Sqlite THEN stored ELSE seen)
    BY <2>1, <2>3 DEF Own, Sqlite
  <2>6. QED BY <2>1, <2>4, <2>5 DEF Ordered, Rising, LinesOf
<1>6. CASE LockTimeout \/ ChunkFails
  <2>1. UNCHANGED <<opts, stored, printed>> /\ Sqlite /\ at' = "save"
    BY <1>6 DEF LockTimeout, ChunkFails, output, corpus
  <2>2. QED BY <2>1 DEF Ordered, Sqlite, Working
<1>7. CASE Commit
  <2>1. /\ UNCHANGED <<opts, seen, printed, rendered>> /\ at = "commit" /\ at \in Working
        /\ IF Sqlite THEN stored' = seen ELSE stored' = stored
    BY <1>7 DEF Commit, output, Working
  <2>2. CASE ~Sqlite
    BY <2>1, <2>2 DEF Ordered, Sqlite
  <2>3. CASE Sqlite
    <3>1. PICK b \in 1..Current : Own(stored) = Settled(b)
      BY DEF Kept, Log
    <3>2. Current \in Nat /\ b \in Nat /\ b <= Current
      BY CurrentType, <3>1
    <3>3. Own(seen) = Settled(Current)
      BY <2>1 DEF Kept
    <3>4. Begins(LinesOf(printed), Settled(b))
      BY <2>3, <3>1 DEF Ordered
    <3>5. Begins(LinesOf(printed), Own(seen))
      BY <3>2, <3>3, <3>4, BeginsOn
    <3>6. Own(IF Sqlite THEN stored ELSE seen)' = Own(seen)
      BY <2>1, <2>3 DEF Own, Sqlite
    <3>7. QED BY <2>1, <3>5, <3>6 DEF Ordered, LinesOf
  <2>4. QED BY <2>2, <2>3
<1>8. CASE Save
  <2>1. /\ UNCHANGED <<opts, seen, printed>> /\ at' = "exited"
        /\ Sqlite => stored' = stored
    BY <1>8 DEF Save, output
  <2>2. QED BY <2>1 DEF Ordered, Sqlite, Working
<1>9. CASE Kill
  <2>1. UNCHANGED <<opts, stored, seen, printed>> /\ at' = "killed"
    BY <1>9 DEF Kill, output
  <2>2. QED BY <2>1 DEF Ordered, Sqlite, Working
<1>10. CASE OtherEnds
  <2>1. /\ UNCHANGED <<opts, seen, printed, rendered, at>> /\ stored \in Seq(Nat)
        /\ stored' = stored \/ stored' = Append(stored, 0)
    BY <1>10 DEF OtherEnds, output, Committed
  <2>2. Own(stored') = Own(stored)
    <3>1. 0 \in Nat /\ {0} \ {0} = {}
      OBVIOUS
    <3>2. Own(Append(stored, 0)) = Own(stored) \cup ({0} \ {0})
      BY <2>1, <3>1, OwnAppend
    <3>3. QED BY <2>1, <3>1, <3>2
  <2>3. Own(IF Sqlite THEN stored ELSE seen)' = Own(IF Sqlite THEN stored ELSE seen)
    BY <2>1, <2>2 DEF Own, Sqlite
  <2>4. QED BY <2>1, <2>3 DEF Ordered, LinesOf, Own
<1>11. QED BY <1>1, <1>2, <1>3, <1>4, <1>5, <1>6, <1>7, <1>8, <1>9, <1>10
           DEF Next, Progress, Happens

LEMMA OrderedInit == Init => Ordered
<1> SUFFICES ASSUME Init PROVE Ordered
  OBVIOUS
<1>1. printed = <<>> /\ rendered = <<>> /\ stored = <<>> /\ seen = <<>>
  BY DEF Init
<1>2. <<>> \o <<>> = <<>> /\ LinesOf(<<>>) = {} /\ Own(<<>>) = {} /\ Rising(<<>>)
  BY JoinBeginning DEF LinesOf, Own, Range, Rising, Entries
<1>3. QED BY <1>1, <1>2 DEF Ordered, Begins

-----------------------------------------------------------------------------
(* Together. *)

Reads == Input /\ Contiguous /\ Placed
Keeps == Locking /\ Committed /\ Kept /\ Ordered

LEMMA CutAlways == Spec => [](Reads /\ Keeps)
<1>1. Init => Reads /\ Keeps
  BY InputInit, CutInit, LockingInit, CommittedInit, KeptInit, OrderedInit DEF Reads, Keeps
<1>2. Reads /\ Keeps /\ [Next]_vars => (Reads /\ Keeps)'
  <2> SUFFICES ASSUME Reads, Keeps, [Next]_vars PROVE (Reads /\ Keeps)'
    OBVIOUS
  <2>1. Input' /\ Contiguous' /\ Placed'
    BY InputStep, ContiguousStep, PlacedStep DEF Reads
  <2>2. Locking' /\ Committed'
    BY LockingStep, CommittedStep DEF Reads, Keeps
  <2>3. Kept' /\ Ordered'
    BY KeptStep, OrderedStep DEF Reads, Keeps
  <2>4. QED BY <2>1, <2>2, <2>3 DEF Reads, Keeps
<1>3. QED BY <1>1, <1>2, PTL DEF Spec

\* A log of what a settled beginning of the input says begins all it says.
LEMMA SettledBegins ==
    ASSUME Input, Contiguous, NEW b \in 1..Current
    PROVE  Begins(Settled(b), Observable(Len(texts)))
<1>1. b \in Int /\ \A n \in Observable(Len(texts)) : n \in Int
  BY CurrentType DEF Observable
<1>2. QED BY <1>1 DEF Settled, Begins

\* The lines observed and printed are the input's, in order, each once, however
\* it was cut into reads and chunks (main.rs `next_line`, `chunk`).
THEOREM ObservedInOrderOnce == Spec => []InOrderOnce
<1>1. Reads /\ Keeps => InOrderOnce
  <2> SUFFICES ASSUME Reads, Keeps PROVE InOrderOnce
    OBVIOUS
  <2>1. Ascending(stored) /\ Ascending(seen)
    BY DEF Keeps, Kept, Log
  <2>2. /\ Begins(Own(stored), Observable(Len(texts)))
        /\ Begins(Own(seen), Observable(Len(texts)))
    BY SettledBegins DEF Reads, Keeps, Kept, Log
  <2>3. DOMAIN Printed = 1..Len(printed) /\ Len(printed) \in Nat /\ printed \in Entries
    BY EntryType DEF Printed, Keeps, Committed
  <2>4. Printed \in Seq(Nat) /\ Len(Printed) = Len(printed)
    BY <2>3, EntryType DEF Printed
  <2>5. Range(Printed) = LinesOf(printed)
    BY <2>3 DEF Range, Printed, LinesOf
  <2>6. Ascending(Printed)
    BY <2>3, <2>4 DEF Ascending, Printed, Keeps, Ordered, Rising
  <2>7. QED BY <2>1, <2>2, <2>5, <2>6 DEF InOrderOnce, Keeps, Ordered
<1>2. QED BY <1>1, CutAlways, PTL

\* What was read of the input, to the end of a line, is before the current line,
\* or the current line is not text.
LEMMA ReadIsSettled ==
    ASSUME Reads, Kept, Unfinished \/ Garbled
    PROVE  Observable(WholeLinesRead) \subseteq Settled(Current)
<1> USE DEF Reads
<1>1. Current \in 1..(Len(texts) + 1) /\ Len(texts) \in Nat
  BY CurrentType, PiecesType
<1>2. WholeLinesRead \in Int /\ WholeLinesRead <= Len(texts)
  <2>1. CASE pipe = <<>>
    BY <1>1, <2>1 DEF WholeLinesRead
  <2>2. CASE pipe # <<>>
    <3> DEFINE k == Len(line) + Len(buffer) + 1
    <3>1. k \in 1..Len(Pieces) /\ Pieces[k] = pipe[1] /\ Pieces \in Seq(Piece)
      BY <2>2, PiecesType DEF Input
    <3> HIDE DEF k
    <3>2. Len(Pieces) \in 1..Len(Pieces) /\ Pieces[Len(Pieces)].line = Len(texts)
      BY <3>1, PiecesType DEF Contiguous
    <3>3. Pieces[k].line \in Nat /\ Pieces[k].line <= Len(texts)
      <4>1. Pieces[k].line \in Nat
        BY <3>1, PieceType
      <4>2. CASE k = Len(Pieces)
        BY <1>1, <3>2, <4>2
      <4>3. CASE k < Len(Pieces)
        BY <1>1, <3>1, <3>2, <4>1, <4>3 DEF Contiguous, Joined
      <4>4. QED BY <3>1, <4>1, <4>2, <4>3
    <3>4. WholeLinesRead = Pieces[k].line - 1
      BY <2>2, <3>1 DEF WholeLinesRead, Input
    <3>5. QED BY <1>1, <3>3, <3>4
  <2>3. QED BY <2>1, <2>2
<1>3. Observable(WholeLinesRead) \subseteq Observable(Len(texts))
  BY <1>1, <1>2 DEF Observable
<1>4. ASSUME NEW n \in Observable(WholeLinesRead)
      PROVE  n < Current
  <2>1. n \in 1..WholeLinesRead /\ \A j \in 1..n : texts[j] # "invalid"
    BY <1>4 DEF Observable
  <2>2. CASE Garbled
    <3>1. ~ (Current \in 1..n)
      BY <2>1, <2>2 DEF Garbled
    <3>2. QED BY <1>1, <1>2, <2>1, <3>1
  <2>3. CASE Unfinished
    <3>1. WholeLinesRead <= Current - 1
      <4>1. CASE Pieces = <<>>
        <5>1. Current = Len(texts) + 1
          BY <4>1 DEF Current
        <5>2. QED BY <1>1, <1>2, <5>1
      <4>2. CASE pipe = <<>> /\ Pieces # <<>>
        <5>1. Len(Pieces) = Len(line) + Len(buffer) /\ Len(Pieces) \in 1..Len(Pieces)
          BY <4>2, PiecesType
        <5>2. \A i \in 1..Len(Pieces) : ~Pieces[i].end
          <6> TAKE i \in 1..Len(Pieces)
          <6>1. CASE i <= Len(line)
            BY <2>3, <6>1, PiecesType DEF Unfinished, HasEnd
          <6>2. CASE ~ (i <= Len(line))
            <7>1. i - Len(line) \in 1..Len(buffer) /\ i = Len(line) + (i - Len(line))
              BY <5>1, <6>2, PiecesType
            <7>2. Pieces[Len(line) + (i - Len(line))] = buffer[i - Len(line)]
              BY <7>1, PiecesType
            <7>3. QED BY <2>3, <7>1, <7>2 DEF Unfinished, HasEnd
          <6>3. QED BY <6>1, <6>2
        <5>3. Pieces[Len(Pieces)].line = Current
          BY <5>1, <5>2, SameLine
        <5>4. Current = Len(texts)
          BY <4>2, <5>3 DEF Contiguous
        <5>5. Unended
          BY <4>2, <5>1, <5>2, LastPiece
        <5>6. QED BY <1>1, <4>2, <5>4, <5>5 DEF WholeLinesRead
      <4>3. CASE pipe # <<>>
        <5> DEFINE k == Len(line) + Len(buffer) + 1
        <5>1. k \in 1..Len(Pieces) /\ Pieces[k] = pipe[1]
          BY <4>3, PiecesType DEF Input
        <5>2. \A i \in 1..(k - 1) : ~Pieces[i].end
          <6> TAKE i \in 1..(k - 1)
          <6>1. CASE i <= Len(line)
            <7>1. i \in 1..Len(line)
              BY <6>1, PiecesType
            <7>2. QED BY <2>3, <7>1, PiecesType DEF Unfinished, HasEnd
          <6>2. CASE ~ (i <= Len(line))
            <7>1. i - Len(line) \in 1..Len(buffer) /\ i = Len(line) + (i - Len(line))
              BY <6>2, PiecesType
            <7>2. Pieces[Len(line) + (i - Len(line))] = buffer[i - Len(line)]
              BY <7>1, PiecesType
            <7>3. QED BY <2>3, <7>1, <7>2 DEF Unfinished, HasEnd
          <6>3. QED BY <6>1, <6>2
        <5> HIDE DEF k
        <5>3. Pieces[k].line = Current
          BY <5>1, <5>2, SameLine
        <5>4. WholeLinesRead = Current - 1
          BY <4>3, <5>1, <5>3 DEF WholeLinesRead, Input
        <5>5. QED BY <1>1, <5>4
      <4>4. QED BY <4>1, <4>2, <4>3
    <3>2. QED BY <1>1, <1>2, <2>1, <3>1
  <2>4. QED BY <2>2, <2>3
<1>5. QED BY <1>3, <1>4 DEF Settled

\* Unless the corpus itself failed, a process that exits, its reader gone or its
\* input failing, has saved every whole line it read (main.rs `run`).
THEOREM SavedWhatItRead == Spec => []SavesWhatItRead
<1>1. Reads /\ Keeps => SavesWhatItRead
  <2> SUFFICES ASSUME Reads, Keeps, at = "exited", failure \notin {"corpus", "save"}
               PROVE  Observable(WholeLinesRead) \subseteq Own(stored)
    BY DEF SavesWhatItRead
  <2>1. Unfinished \/ Garbled
    BY DEF Reads, Placed
  <2>2. Own(stored) = Settled(Current)
    BY DEF Keeps, Kept
  <2>3. QED BY <2>1, <2>2, ReadIsSettled DEF Keeps
<1>2. QED BY <1>1, CutAlways, PTL

\* No chunk waits for input: with the corpus locked, the next line is buffered
\* (main.rs `chunk`).
THEOREM LockNeverAwaitsInput == Spec => []NeverWaitsHoldingLock
<1>1. Keeps => NeverWaitsHoldingLock
  BY DEF Keeps, Locking, NeverWaitsHoldingLock, Reading, Chunk
<1>2. QED BY <1>1, CutAlways, PTL

\* Every line printed was rendered from a committed corpus, which keeps it
\* (main.rs `stream_per_iri_sections`).
THEOREM PrintedStaysCommitted == Spec => []PrintedWasCommitted
<1>1. Keeps => PrintedWasCommitted
  BY DEF Keeps, Committed, InCorpus, In, PrintedWasCommitted
<1>2. QED BY <1>1, CutAlways, PTL

-----------------------------------------------------------------------------
(* Clocks. *)

\* How late each place lets its process be, the holder's work, and who holds.
Timely(p) ==
    /\ holder = p <=> stage[p] \in {"working", "committing"}
    /\ stage[p] = "napping" => since[p] <= PollMax /\ waited[p] <= LockWait + since[p]
    /\ stage[p] = "working" =>
         since[p] <= WorkMax /\ (p \in turns => held <= LockTurn + since[p])
    /\ stage[p] = "committing" =>
         since[p] <= CommitMax /\ (p \in turns => held <= LockTurn + WorkMax + since[p])

Clocks == ClocksOK /\ \A p \in Procs : Timely(p)

LEMMA Times ==
    /\ LockWait \in Nat /\ LockTurn \in Nat /\ LockTurn > 0 /\ TurnPause \in Nat
    /\ BusyPoll \in Nat /\ BusyPoll > 0 /\ Late \in Nat /\ WorkMax \in Nat
    /\ CommitMax \in Nat
    /\ TurnMax \in Nat /\ PollMax \in Nat /\ PollMax = BusyPoll + Late
    /\ TurnMax = LockTurn + WorkMax + CommitMax
BY TimesAssumption DEF TurnMax, PollMax

LEMMA ClocksInit == LockInit => Clocks
BY Times, UnsetAssumption DEF LockInit, Clocks, ClocksOK, Timely, Stages

LEMMA TickKeepsClocks == Clocks /\ Tick => Clocks'
<1> SUFFICES ASSUME Clocks, Tick PROVE Clocks'
  OBVIOUS
<1> DEFINE top == PollMax + WorkMax + CommitMax
<1>1. top \in Nat
  BY Times
<1>2. ASSUME NEW p \in Procs
      PROVE  /\ since'[p] \in Nat /\ since'[p] = UpTo(since[p], top)
             /\ waited'[p] \in Nat
             /\ waited'[p] = IF stage[p] = "napping" THEN waited[p] + 1 ELSE waited[p]
             /\ pause'[p] \in (-Late..TurnPause) \union {Unset}
             /\ free'[p] \in (0..TurnPause) \union {Unset}
  BY <1>1, Times, UnsetAssumption DEF Clocks, ClocksOK, Tick, UpTo
<1>3. held' \in 0..TurnMax + 1 /\ held' <= held + 1
  BY Times DEF Clocks, ClocksOK, Tick, UpTo
<1>4. ClocksOK'
  <2>1. since' \in [Procs -> Nat] /\ waited' \in [Procs -> Nat]
    BY <1>2, <1>1 DEF Tick
  <2>2. /\ pause' \in [Procs -> (-Late..TurnPause) \union {Unset}]
        /\ free' \in [Procs -> (0..TurnPause) \union {Unset}]
    BY <1>2 DEF Tick
  <2>3. QED BY <1>3, <2>1, <2>2 DEF Clocks, ClocksOK, Tick
<1>5. ASSUME NEW p \in Procs PROVE Timely(p)'
  <2>1. MayWait(p) /\ stage' = stage /\ holder' = holder /\ turns' = turns
    BY DEF Tick
  <2>2. since[p] \in Nat /\ waited[p] \in Nat /\ held \in Nat
    BY Times DEF Clocks, ClocksOK
  <2>3. since'[p] <= since[p] + 1 /\ (since[p] < top => since'[p] = since[p] + 1)
    BY <1>1, <1>2, <2>2 DEF UpTo
  <2>4. CASE stage[p] = "napping"
    <3>1. since[p] < PollMax
      BY <2>1, <2>4 DEF MayWait
    <3>2. since'[p] = since[p] + 1
      BY <2>2, <2>3, <3>1, Times
    <3>3. QED BY <1>2, <2>1, <2>2, <2>4, <3>1, <3>2, Times DEF Clocks, Timely
  <2>5. CASE stage[p] = "working"
    <3>1. since[p] < WorkMax
      BY <2>1, <2>5 DEF MayWait
    <3>2. since'[p] = since[p] + 1
      BY <2>2, <2>3, <3>1, Times
    <3>3. QED BY <1>3, <2>1, <2>2, <2>5, <3>1, <3>2, Times DEF Clocks, Timely
  <2>6. CASE stage[p] = "committing"
    <3>1. since[p] < CommitMax
      BY <2>1, <2>6 DEF MayWait
    <3>2. since'[p] = since[p] + 1
      BY <2>2, <2>3, <3>1, Times
    <3>3. QED BY <1>3, <2>1, <2>2, <2>6, <3>1, <3>2, Times DEF Clocks, Timely
  <2>7. CASE stage[p] \notin {"napping", "working", "committing"}
    BY <2>1, <2>7 DEF Clocks, Timely
  <2>8. QED BY <2>4, <2>5, <2>6, <2>7
<1>6. QED BY <1>4, <1>5 DEF Clocks

LEMMA TakeKeepsClocks ==
    ASSUME Clocks, NEW p \in Procs, stage[p] \in {"asking", "napping"}, TakeLock(p),
           UNCHANGED <<turns, pause>>
    PROVE  Clocks'
<1>1. ClocksOK'
  BY Times DEF Clocks, ClocksOK, TakeLock, Goes, Stages
<1>2. ASSUME NEW q \in Procs PROVE Timely(q)'
  BY Times, UnsetAssumption DEF Clocks, ClocksOK, TakeLock, Goes, Timely
<1>3. QED BY <1>1, <1>2 DEF Clocks

LEMMA StepKeepsClocks ==
    ASSUME Clocks, NEW p \in Procs, Step(p)
    PROVE  Clocks'
<1> USE Times, UnsetAssumption
<1>1. CASE Call(p)
  <2>1. ClocksOK'
    BY <1>1 DEF Clocks, ClocksOK, Call, Goes, BatchStart, Stages
  <2>2. \A q \in Procs : Timely(q)'
    BY <1>1 DEF Clocks, ClocksOK, Call, Goes, BatchStart, Timely
  <2>3. QED BY <2>1, <2>2 DEF Clocks
<1>2. CASE Wake(p)
  <2>1. ClocksOK'
    BY <1>2 DEF Clocks, ClocksOK, Wake, Goes, Stages
  <2>2. \A q \in Procs : Timely(q)'
    BY <1>2 DEF Clocks, ClocksOK, Wake, Goes, Timely
  <2>3. QED BY <2>1, <2>2 DEF Clocks
<1>3. CASE Begin(p)
  <2>1. CASE TakeLock(p)
    BY <1>3, <2>1, TakeKeepsClocks DEF Begin
  <2>2. CASE ~TakeLock(p)
    <3>1. ClocksOK'
      <4>1. stage' \in [Procs -> Stages] /\ since' \in [Procs -> Nat]
        BY <1>3, <2>2 DEF Clocks, ClocksOK, Begin, Goes, Stages
      <4>2. waited' = [waited EXCEPT ![p] = 0] /\ short' = [short EXCEPT ![p] = FALSE]
        BY <1>3, <2>2 DEF Begin
      <4>3. waited' \in [Procs -> Nat] /\ short' \in [Procs -> BOOLEAN]
        BY <4>2 DEF Clocks, ClocksOK
      <4>4. QED BY <1>3, <2>2, <4>1, <4>3 DEF Clocks, ClocksOK, Begin
    <3>2. \A q \in Procs : Timely(q)'
      BY <1>3, <2>2 DEF Clocks, ClocksOK, Begin, Goes, Timely
    <3>3. QED BY <3>1, <3>2 DEF Clocks
  <2>3. QED BY <2>1, <2>2
<1>4. CASE Retry(p)
  <2>1. CASE TakeLock(p)
    BY <1>4, <2>1, TakeKeepsClocks DEF Retry
  <2>2. CASE ~TakeLock(p)
    <3>1. ClocksOK'
      BY <1>4, <2>2 DEF Clocks, ClocksOK, Retry, Goes, Stages
    <3>2. \A q \in Procs : Timely(q)'
      BY <1>4, <2>2 DEF Clocks, ClocksOK, Retry, GivesUp, Goes, Timely
    <3>3. QED BY <3>1, <3>2 DEF Clocks
  <2>3. QED BY <2>1, <2>2
<1>5. CASE TimeOut(p)
  <2>1. ClocksOK'
    BY <1>5 DEF Clocks, ClocksOK, TimeOut, Goes, Stages
  <2>2. \A q \in Procs : Timely(q)'
    BY <1>5 DEF Clocks, ClocksOK, TimeOut, Goes, Timely
  <2>3. QED BY <2>1, <2>2 DEF Clocks
<1>6. CASE ObserveOne(p)
  <2>1. ClocksOK'
    BY <1>6 DEF Clocks, ClocksOK, ObserveOne, Goes, Stages
  <2>2. \A q \in Procs : Timely(q)'
    BY <1>6 DEF Clocks, ClocksOK, ObserveOne, TurnOver, Goes, Timely
  <2>3. QED BY <2>1, <2>2 DEF Clocks
<1>7. CASE EndTurn(p)
  <2>1. ClocksOK'
    BY <1>7 DEF Clocks, ClocksOK, EndTurn, NextTurn, Goes, Stages
  <2>2. \A q \in Procs : Timely(q)'
    BY <1>7 DEF Clocks, ClocksOK, EndTurn, Goes, Timely
  <2>3. QED BY <2>1, <2>2 DEF Clocks
<1>8. CASE Release(p)
  <2>1. ClocksOK'
    BY <1>8 DEF Clocks, ClocksOK, Release, Shortened, BatchStart, Goes, Stages
  <2>2. \A q \in Procs : Timely(q)'
    BY <1>8 DEF Clocks, ClocksOK, Release, BatchStart, Goes, Timely
  <2>3. QED BY <2>1, <2>2 DEF Clocks
<1>9. CASE Crash(p)
  <2>1. ClocksOK'
    BY <1>9 DEF Clocks, ClocksOK, Crash, Shortened, Goes, Stages
  <2>2. \A q \in Procs : Timely(q)'
    BY <1>9 DEF Clocks, ClocksOK, Crash, Goes, Timely
  <2>3. QED BY <2>1, <2>2 DEF Clocks
<1>10. QED BY <1>1, <1>2, <1>3, <1>4, <1>5, <1>6, <1>7, <1>8, <1>9 DEF Step

LEMMA ClocksStep == Clocks /\ [LockNext]_lockVars => Clocks'
<1> SUFFICES ASSUME Clocks, [LockNext]_lockVars PROVE Clocks'
  OBVIOUS
<1>1. CASE UNCHANGED lockVars
  BY <1>1 DEF lockVars, Clocks, ClocksOK, Timely
<1>2. QED BY <1>1, TickKeepsClocks, StepKeepsClocks DEF LockNext

LEMMA ClocksAlways == LockSpec => []Clocks
<1>1. QED BY ClocksInit, ClocksStep, PTL DEF LockSpec

-----------------------------------------------------------------------------
(* Turns and waits end. *)

\* Every variable has its type (the clocks of SqliteStorage).
THEOREM LockTurnTypes == LockSpec => []ClocksOK
<1>1. Clocks => ClocksOK
  BY DEF Clocks
<1>2. QED BY <1>1, ClocksAlways, PTL

\* Whatever the times, no turn outlasts LOCK_TURN by more than one observation and
\* one COMMIT (corpus.rs `observe_all`).
THEOREM TurnsBounded == LockSpec => []TurnBounded
<1>1. Clocks => TurnBounded
  <2> SUFFICES ASSUME Clocks, holder \in turns PROVE held <= TurnMax
    BY DEF TurnBounded
  <2>1. holder \in Procs /\ Timely(holder) /\ held \in Nat /\ since[holder] \in Nat
    BY Times DEF Clocks, ClocksOK
  <2>2. QED BY <2>1, Times DEF Timely
<1>2. QED BY <1>1, ClocksAlways, PTL

\* Whatever the times and however many processes, a waiter is answered within
\* LOCK_WAIT and a poll (storage_sqlite.rs `wait_for_lock`).
THEOREM WaitsBounded == LockSpec => []WaitBounded
<1>1. Clocks => WaitBounded
  <2> SUFFICES ASSUME Clocks, NEW p \in Procs, stage[p] = "napping"
               PROVE  waited[p] <= LockWait + PollMax
    BY DEF WaitBounded
  <2>1. Timely(p) /\ since[p] \in Nat /\ waited[p] \in Nat
    BY DEF Clocks, ClocksOK
  <2>2. QED BY <2>1, Times DEF Timely
<1>2. QED BY <1>1, ClocksAlways, PTL

-----------------------------------------------------------------------------
(* The pause between two turns. *)

\* What is left of the pause, and how long the lock has been left free already.
Pausing(p) ==
    /\ stage[p] = "committing" =>
         /\ free[p] # Unset => free[p] = 0 /\ pause[p] # Unset
         /\ pause[p] # Unset => pause[p] >= TurnPause - since[p]
    /\ stage[p] = "resting" => pause[p] # Unset
    /\ stage[p] \in {"idle", "resting"} /\ free[p] # Unset =>
         /\ pause[p] # Unset
         /\ free[p] = TurnPause \/ free[p] + pause[p] >= TurnPause - CommitMax
    /\ stage[p] \in {"asking", "napping", "failed"} =>
         /\ pause[p] = Unset
         /\ free[p] # Unset => free[p] >= TurnPause - CommitMax
    /\ stage[p] = "working" => pause[p] = Unset

Pauses == Clocks /\ \A p \in Procs : Pausing(p)

LEMMA PausesInit == LockInit => Pauses
BY ClocksInit DEF LockInit, Pauses, Pausing

LEMMA TickKeepsPausing ==
    ASSUME Pauses, Tick, NEW p \in Procs
    PROVE  Pausing(p)'
<1>1. /\ MayWait(p) /\ stage' = stage
      /\ pause[p] \in Int \union {Unset} /\ free[p] \in Nat \union {Unset}
      /\ since[p] \in Nat /\ Pausing(p) /\ Timely(p)
  BY Times DEF Tick, Pauses, Clocks, ClocksOK
<1>2. pause'[p] = IF pause[p] = Unset THEN Unset
                  ELSE IF pause[p] > -Late THEN pause[p] - 1 ELSE pause[p]
  BY DEF Tick
<1>3. free'[p] = IF free[p] = Unset \/ stage[p] = "committing" THEN free[p]
                 ELSE UpTo(free[p], TurnPause)
  BY DEF Tick
<1>4. free[p] # Unset /\ stage[p] # "committing" =>
        free'[p] = IF free[p] < TurnPause THEN free[p] + 1 ELSE TurnPause
  BY <1>3 DEF UpTo
<1>5. (free[p] = Unset => free'[p] = Unset) /\ (free'[p] = Unset => free[p] = Unset)
      /\ (pause[p] = Unset => pause'[p] = Unset) /\ (pause'[p] = Unset => pause[p] = Unset)
  BY <1>1, <1>2, <1>3, <1>4, Times, UnsetAssumption
<1>6. CASE stage[p] = "committing"
  <2>1. since[p] < CommitMax
    BY <1>1, <1>6 DEF MayWait
  <2>2. since'[p] = since[p] + 1
    BY <1>1, <2>1, Times DEF Tick, UpTo
  <2>3. QED BY <1>1, <1>2, <1>3, <1>5, <1>6, <2>2, Times, UnsetAssumption DEF Pausing
<1>7. CASE stage[p] \in {"idle", "resting"}
  <2>1. free[p] # Unset => pause[p] # Unset /\ pause[p] \in Int /\ free[p] \in Nat
    BY <1>1, <1>7 DEF Pausing
  <2>2. free[p] # Unset =>
          (free'[p] = TurnPause \/ free'[p] + pause'[p] >= TurnPause - CommitMax)
    BY <1>1, <1>2, <1>4, <1>7, <2>1, Times DEF Pausing
  <2>3. QED BY <1>1, <1>5, <1>7, <2>1, <2>2 DEF Pausing
<1>8. CASE stage[p] \in {"asking", "napping", "failed", "working"}
  <2>1. free[p] # Unset => free'[p] \in Nat /\ (free'[p] >= free[p] \/ free'[p] = TurnPause)
    BY <1>1, <1>4, <1>8, Times
  <2>2. QED BY <1>1, <1>2, <1>5, <1>8, <2>1, Times DEF Pausing
<1>9. QED BY <1>1, <1>6, <1>7, <1>8 DEF Pauses, Clocks, ClocksOK, Stages

LEMMA StepKeepsPausing ==
    ASSUME Pauses, NEW q \in Procs, Step(q), NEW p \in Procs
    PROVE  Pausing(p)'
<1> USE Times, UnsetAssumption
<1>1. /\ pause[p] \in Int \union {Unset} /\ free[p] \in Nat \union {Unset}
      /\ since[p] \in Nat /\ held \in Nat /\ Pausing(p) /\ Timely(p)
  BY DEF Pauses, Clocks, ClocksOK
<1>2. stage \in [Procs -> Stages] /\ since \in [Procs -> Nat]
      /\ pause \in [Procs -> Int \union {Unset}] /\ free \in [Procs -> Nat \union {Unset}]
  BY DEF Pauses, Clocks, ClocksOK
<1>3. CASE p # q
  <2>1. stage'[p] = stage[p] /\ since'[p] = since[p] /\ pause'[p] = pause[p] /\ free'[p] = free[p]
    BY <1>2, <1>3 DEF Step, Call, Wake, Begin, Retry, TimeOut, ObserveOne, EndTurn, Release,
                      Crash, TakeLock, Goes
  <2>2. QED BY <1>1, <2>1 DEF Pausing
<1>4. CASE p = q
  <2>1. CASE Call(q)
    BY <1>1, <1>2, <1>4, <2>1 DEF Call, BatchStart, Goes, Pausing
  <2>2. CASE Wake(q)
    <3>1. stage[p] = "resting" /\ pause[p] # Unset /\ pause[p] <= 0
      BY <1>1, <1>4, <2>2 DEF Wake, Rested, Pausing
    <3>2. free[p] # Unset => free[p] >= TurnPause - CommitMax
      BY <1>1, <3>1 DEF Pausing
    <3>3. QED BY <1>2, <1>4, <2>2, <3>2 DEF Wake, Goes, Pausing
  <2>3. CASE Begin(q)
    BY <1>1, <1>2, <1>4, <2>3 DEF Begin, TakeLock, Goes, Pausing
  <2>4. CASE Retry(q)
    BY <1>1, <1>2, <1>4, <2>4 DEF Retry, TakeLock, Goes, Pausing
  <2>5. CASE TimeOut(q)
    BY <1>1, <1>2, <1>4, <2>5 DEF TimeOut, Goes, Pausing
  <2>6. CASE ObserveOne(q)
    BY <1>1, <1>2, <1>4, <2>6 DEF ObserveOne, Goes, Pausing
  <2>7. CASE EndTurn(q)
    BY <1>1, <1>2, <1>4, <2>7 DEF EndTurn, NextTurn, Goes, Pausing
  <2>8. CASE Release(q)
    BY <1>1, <1>2, <1>4, <2>8 DEF Release, BatchStart, Goes, Pausing, Timely
  <2>9. CASE Crash(q)
    BY <1>1, <1>2, <1>4, <2>9 DEF Crash, Goes, Pausing
  <2>10. QED BY <2>1, <2>2, <2>3, <2>4, <2>5, <2>6, <2>7, <2>8, <2>9 DEF Step
<1>5. QED BY <1>3, <1>4

LEMMA PausesStep == Pauses /\ [LockNext]_lockVars => Pauses'
<1> SUFFICES ASSUME Pauses, [LockNext]_lockVars PROVE Pauses'
  OBVIOUS
<1>1. Clocks'
  BY ClocksStep DEF Pauses
<1>2. ASSUME NEW p \in Procs PROVE Pausing(p)'
  <2>1. CASE UNCHANGED lockVars
    BY <2>1 DEF lockVars, Pauses, Pausing
  <2>2. QED BY <2>1, TickKeepsPausing, StepKeepsPausing DEF LockNext
<1>3. QED BY <1>1, <1>2 DEF Pauses

LEMMA PausesAlways == LockSpec => []Pauses
<1>1. QED BY PausesInit, PausesStep, PTL DEF LockSpec

\* A step that takes the lock is taken from outside the pause.
LEMMA TakenAfterPause ==
    ASSUME Pauses, [LockNext]_lockVars, NEW p \in Procs, holder # p, holder' = p, free[p] # Unset
    PROVE  free[p] >= TurnPause - CommitMax
<1>1. p # Unset
  BY UnsetAssumption
<1>2. stage[p] \in {"asking", "napping"}
  BY <1>1 DEF LockNext, lockVars, Tick, Step, Call, Wake, Begin, Retry, TimeOut, ObserveOne, EndTurn,
              Release, Crash, TakeLock
<1>3. QED BY <1>2 DEF Pauses, Pausing

\* Whatever the times, a process that used a whole turn leaves the lock free for the
\* pause less its COMMIT (storage_sqlite.rs `end_turn`, `batch_begin`).
THEOREM LockLeftFree == LockSpec => LeavesLockFree
<1>1. Pauses /\ [LockNext]_lockVars =>
        [\A p \in Procs :
           holder # p /\ holder' = p /\ free[p] # Unset
              => free[p] >= TurnPause - CommitMax]_lockVars
  BY TakenAfterPause
<1>2. QED BY <1>1, PausesAlways, PTL DEF LockSpec, LeavesLockFree

-----------------------------------------------------------------------------
(* A waiter beside one process that observes in turns. *)

Beside(q) == \E p \in Procs : Procs = {p, q} /\ Procs \ {q} \subseteq turns

\* r asks for the lock only after a poll of q's that is under way.
Away(r, q) ==
    /\ stage[r] \in {"idle", "resting"}
    /\ pause[r] # Unset
    /\ pause[r] > PollMax - since[q]

\* A waiter that saw no turn given back early has waited no longer than the holder
\* has held, and finds a free lock first.
Served(q) ==
    /\ stage[q] = "failed" => short[q]
    /\ stage[q] = "napping" /\ ~short[q] =>
         /\ holder # Unset => waited[q] <= held
         /\ holder = Unset => \A r \in Procs \ {q} : Away(r, q)

Turns == Pauses /\ \A q \in Procs : Beside(q) => Served(q)

LEMMA TurnsStart == LockInit => Turns
BY PausesInit DEF LockInit, Turns, Served

LEMMA TickKeepsServed ==
    ASSUME Pauses, NEW q \in Procs, Beside(q), Served(q), Tick
    PROVE  Served(q)'
<1>1. /\ stage' = stage /\ holder' = holder /\ short' = short /\ MayWait(q) /\ Timely(q)
  BY DEF Tick, Pauses, Clocks
<1>2. ASSUME stage[q] = "napping", ~short[q], holder # Unset PROVE waited'[q] <= held'
  <2>1. /\ holder \in Procs /\ Timely(holder) /\ held \in Nat
        /\ since[holder] \in Nat /\ waited[q] \in Nat
    BY <1>2, Times DEF Pauses, Clocks, ClocksOK
  <2>2. holder # q
    BY <1>1, <1>2 DEF Timely
  <2>3. holder \in turns
    BY <2>1, <2>2 DEF Beside
  <2>4. held <= TurnMax
    BY <2>1, <2>3, Times DEF Timely
  <2>5. waited'[q] = waited[q] + 1 /\ held' = held + 1
    BY <1>2, <2>1, <2>4, Times DEF Tick, UpTo
  <2>6. QED BY <1>1, <1>2, <2>1, <2>5 DEF Served
<1>3. ASSUME stage[q] = "napping", ~short[q], holder = Unset, NEW r \in Procs \ {q}
      PROVE  Away(r, q)'
  <2>1. /\ Away(r, q) /\ since[q] \in Nat /\ pause[r] \in Int /\ since[q] < PollMax
    BY <1>1, <1>3, Times DEF Served, Away, Pauses, Clocks, ClocksOK, MayWait
  <2>2. since'[q] = since[q] + 1
    BY <2>1, Times DEF Tick, UpTo
  <2>3. pause[r] > 0
    BY <2>1, Times DEF Away
  <2>4. pause'[r] = pause[r] - 1
    BY <2>1, <2>3, Times DEF Tick, Away
  <2>5. pause'[r] \in Int /\ pause'[r] # Unset
    BY <2>1, <2>4, UnsetAssumption
  <2>6. QED BY <1>1, <2>1, <2>2, <2>3, <2>4, <2>5, Times DEF Away
<1>4. QED BY <1>1, <1>2, <1>3 DEF Served

LEMMA StepKeepsServed ==
    ASSUME Pauses, PauseOutlastsPoll, NEW p \in Procs, Step(p),
           NEW q \in Procs, Beside(q), Served(q)
    PROVE  Served(q)'
<1> USE Times, UnsetAssumption
<1>1. /\ stage \in [Procs -> Stages] /\ since \in [Procs -> Nat]
      /\ waited \in [Procs -> Nat] /\ held \in Nat /\ short \in [Procs -> BOOLEAN]
      /\ pause \in [Procs -> Int \union {Unset}] /\ free \in [Procs -> Nat \union {Unset}]
  BY DEF Pauses, Clocks, ClocksOK
<1>2. \A r \in Procs : Timely(r) /\ Pausing(r)
  BY DEF Pauses, Clocks
<1>3. \A r \in Procs \ {q} : holder = r => held <= TurnMax
  BY <1>1, <1>2 DEF Beside, Timely
<1>4. \A r \in Procs : r = p \/ r = q \/ p = q
  BY DEF Beside
<1>5. ASSUME p # q, TakeLock(p), stage[p] \in {"asking", "napping"} PROVE Served(q)'
  <2>1. ~(stage[q] = "napping" /\ ~short[q])
    BY <1>5 DEF TakeLock, Served, Away
  <2>2. QED BY <1>1, <1>5, <2>1 DEF TakeLock, Goes, Served
<1>6. ASSUME p = q, TakeLock(p) PROVE Served(q)'
  BY <1>1, <1>6 DEF TakeLock, Goes, Served
<1>7. CASE Call(p)
  <2>1. CASE p = q
    BY <1>1, <1>7, <2>1 DEF Call, BatchStart, Goes, Served
  <2>2. CASE p # q
    BY <1>1, <1>4, <1>7, <2>2 DEF Call, BatchStart, Goes, Served, Away
  <2>3. QED BY <2>1, <2>2
<1>8. CASE Wake(p)
  <2>1. ~(stage[q] = "napping" /\ ~short[q] /\ holder = Unset /\ p # q)
    BY <1>1, <1>2, <1>8 DEF Wake, Rested, Served, Away, Timely, Pausing
  <2>2. QED BY <1>1, <1>4, <1>8, <2>1 DEF Wake, Goes, Served
<1>9. CASE Begin(p)
  <2>1. CASE TakeLock(p)
    BY <1>5, <1>6, <1>9, <2>1 DEF Begin
  <2>2. CASE ~TakeLock(p)
    BY <1>1, <1>9, <2>2 DEF Begin, Goes, Served
  <2>3. QED BY <2>1, <2>2
<1>10. CASE Retry(p)
  <2>1. CASE TakeLock(p)
    BY <1>5, <1>6, <1>10, <2>1 DEF Retry
  <2>2. CASE ~TakeLock(p)
    BY <1>1, <1>10, <2>2 DEF Retry, Goes, Served
  <2>3. QED BY <2>1, <2>2
<1>11. CASE TimeOut(p)
  <2>1. CASE p = q
    <3>1. holder \in Procs \ {q}
      BY <1>1, <1>2, <1>11, <2>1 DEF TimeOut, Timely, Pauses, Clocks, ClocksOK
    <3>2. held <= TurnMax /\ waited[q] >= LockWait
      BY <1>3, <1>11, <2>1, <3>1 DEF TimeOut, GivesUp
    <3>3. short[q]
      BY <1>1, <1>11, <2>1, <3>1, <3>2 DEF TimeOut, Served, PauseOutlastsPoll
    <3>4. QED BY <1>1, <1>11, <2>1, <3>3 DEF TimeOut, Goes, Served
  <2>2. CASE p # q
    BY <1>1, <1>11, <2>2 DEF TimeOut, Goes, Served
  <2>3. QED BY <2>1, <2>2
<1>12. CASE ObserveOne(p)
  BY <1>1, <1>2, <1>12 DEF ObserveOne, Goes, Served, Timely
<1>13. CASE EndTurn(p)
  BY <1>1, <1>2, <1>13 DEF EndTurn, Goes, Served, Timely
<1>14. CASE Release(p)
  <2>1. CASE p = q
    BY <1>1, <1>14, <2>1 DEF Release, BatchStart, Goes, Served
  <2>2. CASE p # q /\ stage[q] = "napping" /\ ~short'[q]
    <3>1. /\ stage[p] = "committing" /\ since[p] <= CommitMax /\ free[p] # Unset
          /\ ~short[q]
      BY <1>1, <1>2, <1>14, <2>2 DEF Release, Shortened, Timely
    <3>2. pause[p] # Unset /\ pause[p] \in Int /\ pause[p] >= TurnPause - CommitMax
      BY <1>1, <1>2, <3>1 DEF Pausing
    <3>3. /\ stage'[p] \in {"idle", "resting"} /\ stage'[q] = "napping"
          /\ since'[q] = since[q] /\ pause' = pause /\ holder' = Unset
      BY <1>1, <1>14, <2>2, <3>2 DEF Release, BatchStart, Goes
    <3>4. Away(p, q)'
      BY <1>1, <3>2, <3>3 DEF Away, PauseOutlastsPoll
    <3>5. QED BY <1>4, <2>2, <3>3, <3>4 DEF Served
  <2>3. CASE p # q /\ stage[q] = "napping" /\ short'[q]
    BY <1>1, <1>14, <2>3 DEF Release, Goes, Served
  <2>4. CASE p # q /\ stage[q] # "napping"
    BY <1>1, <1>14, <2>4 DEF Release, Shortened, Goes, Served
  <2>5. QED BY <2>1, <2>2, <2>3, <2>4
<1>15. CASE Crash(p)
  <2>1. CASE p = q
    BY <1>1, <1>15, <2>1 DEF Crash, Goes, Served
  <2>2. CASE p # q
    BY <1>1, <1>15, <2>2 DEF Crash, Shortened, Goes, Served
  <2>3. QED BY <2>1, <2>2
<1>16. QED
  BY <1>7, <1>8, <1>9, <1>10, <1>11, <1>12, <1>13, <1>14, <1>15 DEF Step

LEMMA TurnsStep == ASSUME PauseOutlastsPoll PROVE Turns /\ [LockNext]_lockVars => Turns'
<1> SUFFICES ASSUME Turns, [LockNext]_lockVars PROVE Turns'
  OBVIOUS
<1>1. Pauses'
  BY PausesStep DEF Turns
<1>2. turns' = turns
  BY DEF LockNext, lockVars, Tick, Step, Call, Wake, Begin, Retry, TimeOut, ObserveOne, EndTurn,
         Release, Crash
<1>3. ASSUME NEW q \in Procs, Beside(q) PROVE Served(q)'
  <2>1. Served(q)
    BY <1>3 DEF Turns
  <2>2. CASE UNCHANGED lockVars
    BY <2>1, <2>2 DEF lockVars, Served, Away
  <2>3. QED BY <1>3, <2>1, <2>2, TickKeepsServed, StepKeepsServed DEF LockNext, Turns
<1>4. QED BY <1>1, <1>2, <1>3 DEF Turns, Beside

\* Whatever the times and whenever callers come back: if the pause outlasts a COMMIT
\* and a late poll, and a turn is shorter than LOCK_WAIT, a writer beside one process
\* that observes in turns gives up only after that process gave a turn back early or
\* died (storage_sqlite.rs `end_turn`, `wait_for_lock`).
THEOREM TurnsServe == LockSpec => []WholeTurnsServe
<1>1. CASE PauseOutlastsPoll
  <2>1. Turns => WholeTurnsServe
    BY DEF Turns, Beside, Served, WholeTurnsServe
  <2>2. Turns /\ [LockNext]_lockVars => Turns'
    BY <1>1, TurnsStep
  <2>3. QED BY <2>1, <2>2, TurnsStart, PTL DEF LockSpec
<1>2. CASE ~PauseOutlastsPoll
  <2>1. WholeTurnsServe
    BY <1>2 DEF WholeTurnsServe
  <2>2. QED BY <2>1, PTL
<1>3. QED BY <1>1, <1>2

=============================================================================
