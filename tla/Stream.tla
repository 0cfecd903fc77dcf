------------------------------- MODULE Stream -------------------------------
(***************************************************************************)
(* `tail -f log | iriq -n | ...`: the command line streaming its input into *)
(* a corpus.  A chunk, every complete line already buffered, is observed in *)
(* one batch and printed after it commits.  Around it: the program writing  *)
(* the input, a piece of a line at a time; the one reading the output, which*)
(* may go away; another process using the corpus; and a kill.               *)
(*                                                                         *)
(* The corpus is its log of observed lines.  How its batches and rebuilds   *)
(* come to be atomic is in Corpus.                                          *)
(***************************************************************************)
EXTENDS Integers, Sequences, SequencesExt

CONSTANTS
    MaxLines,   \* bound: lines the input may have
    Capacity,   \* CHUNK_BYTES, in pieces of a line
    MaxOther,   \* bound: observations the other process makes
    None

ASSUME CapacityAssumption == Capacity \in Nat \ {0}
ASSUME BoundsAssumption == MaxLines \in Nat /\ MaxOther \in Nat
ASSUME NoneAssumption == None \notin {"stream", "other", "read", "stdout", "corpus", "save"}

VARIABLES
    opts,      \* which backend, and whether the output is one JSON array
    texts,     \* what each line written so far is
    pipe,      \* pieces written and not yet read
    open,      \* whether the input may still grow
    buffer,    \* the BufReader's buffer
    line,      \* the pieces of the line being read
    rendered,  \* output of chunks not printed yet
    printed,   \* output accepted by stdout
    stdout,    \* whether stdout still has a reader
    stored,    \* the corpus as other processes and later runs see it
    seen,      \* the corpus as this process sees it
    lock,      \* holder of the corpus's write lock
    at,        \* where the process is
    failure    \* why it stops, None while there is no reason to

vars == <<opts, texts, pipe, open, buffer, line, rendered, printed, stdout,
          stored, seen, lock, at, failure>>

source == <<texts, open>>
corpus == <<stored, seen, lock>>
output == <<rendered, printed, stdout>>

-----------------------------------------------------------------------------
(* The input: lines 1, 2, ... in pieces, the last one of a line ending it.  *)

Texts == {"iri", "prose", "invalid"}

Piece == [line : 1..MaxLines, end : BOOLEAN]

\* The lines with something to observe, up to one that is not UTF-8.
Observable(n) ==
    {i \in 1..n : texts[i] = "iri" /\ \A j \in 1..i : texts[j] # "invalid"}

Unended ==
    IF pipe # <<>> THEN ~Last(pipe).end
    ELSE IF buffer # <<>> THEN ~Last(buffer).end
    ELSE line # <<>> /\ ~Last(line).end

\* Someone writes a piece: a new line's first, or the last one of a line begun.
Write ==
    /\ open
    /\ at \notin {"exited", "killed"}
    /\ \E end \in BOOLEAN :
        \/ /\ ~Unended
           /\ Len(texts) < MaxLines
           /\ \E text \in Texts : texts' = Append(texts, text)
           /\ pipe' = Append(pipe, [line |-> Len(texts) + 1, end |-> end])
        \/ /\ Unended
           /\ end
           /\ pipe' = Append(pipe, [line |-> Len(texts), end |-> TRUE])
           /\ UNCHANGED texts
    /\ UNCHANGED <<opts, open, buffer, line, output, corpus, at, failure>>

CloseInput ==
    /\ open
    /\ open' = FALSE
    /\ UNCHANGED <<opts, texts, pipe, buffer, line, output, corpus, at, failure>>

-----------------------------------------------------------------------------
(* Reading lines: outside any batch ("reading") or within a chunk ("more"). *)

Reading == at \in {"reading", "more"}

\* A read answers what there is, or part of it.
Fill ==
    /\ Reading
    /\ buffer = <<>>
    /\ \E n \in 1..Capacity :
        /\ n <= Len(pipe)
        /\ buffer' = SubSeq(pipe, 1, n)
        /\ pipe' = SubSeq(pipe, n + 1, Len(pipe))
    /\ UNCHANGED <<opts, source, line, output, corpus, at, failure>>

\* A line was read, or there is none: its chunk begins, goes on or ends.
GotLine ==
    /\ at' = IF at = "reading" THEN "begin" ELSE "observe"
    /\ UNCHANGED failure

NoLine(why) ==
    /\ at' = IF at = "reading" THEN "ended" ELSE "commit"
    /\ failure' = why

HasEnd(pieces) == \E i \in 1..Len(pieces) : pieces[i].end

\* Take the buffer through the end of the line, or all of it.
TakeBuffered ==
    /\ Reading
    /\ buffer # <<>>
    /\ LET n == IF HasEnd(buffer) THEN SelectInSeq(buffer, LAMBDA p : p.end)
                ELSE Len(buffer)
       IN  /\ line' = line \o SubSeq(buffer, 1, n)
           /\ buffer' = SubSeq(buffer, n + 1, Len(buffer))
           /\ IF ~HasEnd(buffer) THEN UNCHANGED <<at, failure>>
              ELSE IF texts[buffer[n].line] = "invalid" THEN NoLine("read")
              ELSE GotLine
    /\ UNCHANGED <<opts, source, pipe, output, corpus>>

\* At the end of the input, what is left is the last line.
EndOfInput ==
    /\ Reading
    /\ buffer = <<>> /\ pipe = <<>> /\ ~open
    /\ IF line = <<>> THEN NoLine(None)
       ELSE IF texts[Last(line).line] = "invalid" THEN NoLine("read")
       ELSE GotLine
    /\ UNCHANGED <<opts, source, pipe, buffer, line, output, corpus>>

ReadFails ==
    /\ Reading
    /\ buffer = <<>>
    /\ NoLine("read")
    /\ UNCHANGED <<opts, source, pipe, buffer, line, output, corpus>>

-----------------------------------------------------------------------------
(* A chunk. *)

Sqlite == opts.backend = "sqlite"

BeginChunk ==
    /\ at = "begin"
    /\ IF Sqlite
       THEN lock = None /\ lock' = "stream" /\ seen' = stored
       ELSE UNCHANGED <<lock, seen>>
    /\ at' = "observe"
    /\ UNCHANGED <<opts, source, pipe, buffer, line, output, stored, failure>>

\* Another process kept the lock past LOCK_WAIT.
LockTimeout ==
    /\ at = "begin"
    /\ Sqlite
    /\ lock = "other"
    /\ at' = "save"
    /\ failure' = "corpus"
    /\ UNCHANGED <<opts, source, pipe, buffer, line, output, corpus>>

\* Whether the chunk takes another line.
AnyBuffered == buffer # <<>>
LineBuffered == HasEnd(buffer)

\* Observe the line, render it from the corpus as it now stands.
Observe ==
    /\ at = "observe"
    /\ LET n == Last(line).line
       IN  IF texts[n] = "iri"
           THEN /\ seen' = Append(seen, n)
                /\ rendered' = Append(rendered, [line |-> n, from |-> Len(seen) + 1])
           ELSE UNCHANGED <<seen, rendered>>
    /\ line' = <<>>
    /\ at' = IF LineBuffered THEN "more" ELSE "commit"
    /\ UNCHANGED <<opts, source, pipe, buffer, printed, stdout, stored, lock, failure>>

ChunkFailsPrinting ==
    /\ at \in {"observe", "commit"}
    /\ Sqlite
    /\ lock' = None
    /\ seen' = stored
    /\ at' = "print"
    /\ UNCHANGED <<opts, source, pipe, buffer, line, output, stored, failure>>

\* On SQLite a chunk may fail, to begin, to observe a line or to commit: it rolls back.
ChunkFails ==
    /\ at \in {"begin", "observe", "commit"}
    /\ Sqlite
    /\ lock' = IF at = "begin" THEN lock ELSE None
    /\ seen' = stored
    /\ at' = "save"
    /\ failure' = "corpus"
    /\ UNCHANGED <<opts, source, pipe, buffer, line, output, stored>>

Commit ==
    /\ at = "commit"
    /\ IF Sqlite THEN stored' = seen /\ lock' = None ELSE UNCHANGED <<stored, lock>>
    /\ at' = "print"
    /\ UNCHANGED <<opts, source, pipe, buffer, line, output, seen, failure>>

-----------------------------------------------------------------------------
(* Printing, saving, leaving. *)

\* What is due: the chunk, or the whole array once the input ended well.
Due ==
    \/ at = "print" /\ ~opts.wrapped
    \/ at = "ended" /\ opts.wrapped /\ failure = None

AfterWriteOut == IF at = "ended" THEN "save" ELSE IF failure = None THEN "reading" ELSE "ended"

WriteOutKeepingRendered ==
    /\ at \in {"print", "ended"}
    /\ Due /\ rendered # <<>> => stdout = "open"
    /\ printed' = IF Due THEN printed \o rendered ELSE printed
    /\ at' = AfterWriteOut
    /\ UNCHANGED <<opts, source, pipe, buffer, line, rendered, stdout, corpus, failure>>

WriteOut ==
    /\ at \in {"print", "ended"}
    /\ Due /\ rendered # <<>> => stdout = "open"
    /\ IF Due THEN printed' = printed \o rendered /\ rendered' = <<>>
       ELSE UNCHANGED <<printed, rendered>>
    /\ at' = AfterWriteOut
    /\ UNCHANGED <<opts, source, pipe, buffer, line, stdout, corpus, failure>>

\* The reader went away, perhaps in the middle of the write.
WriteOutFails ==
    /\ Due
    /\ stdout = "closed"
    /\ \E n \in 0..Len(rendered) - 1 : printed' = printed \o SubSeq(rendered, 1, n)
    /\ at' = "save"
    /\ failure' = "stdout"
    /\ UNCHANGED <<opts, source, pipe, buffer, line, rendered, stdout, corpus>>

SaveUnlessStdoutFailed ==
    /\ at = "save"
    /\ stored' = IF Sqlite \/ failure = "stdout" THEN stored ELSE seen
    /\ at' = "exited"
    /\ UNCHANGED <<opts, source, pipe, buffer, line, output, seen, lock, failure>>

\* SQLite has nothing to flush; a JSON corpus is written now, whatever happened.
Save ==
    /\ at = "save"
    /\ \/ /\ stored' = IF Sqlite THEN stored ELSE seen
          /\ UNCHANGED failure
       \/ /\ ~Sqlite
          /\ failure' = "save"
          /\ UNCHANGED stored
    /\ at' = "exited"
    /\ UNCHANGED <<opts, source, pipe, buffer, line, output, seen, lock>>

-----------------------------------------------------------------------------
(* Everyone else. *)

Kill ==
    /\ at \notin {"exited", "killed"}
    /\ at' = "killed"
    /\ lock' = IF lock = "stream" THEN None ELSE lock
    /\ UNCHANGED <<opts, source, pipe, buffer, line, output, stored, seen, failure>>

CloseStdout ==
    /\ stdout = "open"
    /\ stdout' = "closed"
    /\ UNCHANGED <<opts, source, pipe, buffer, line, rendered, printed, corpus, at, failure>>

\* Another process's batch on a SQLite corpus (0 stands for what it observes).
OtherBegins ==
    /\ Sqlite
    /\ lock = None
    /\ lock' = "other"
    /\ UNCHANGED <<opts, source, pipe, buffer, line, output, stored, seen, at, failure>>

OtherEnds ==
    /\ lock = "other"
    /\ lock' = None
    /\ \/ /\ Len(SelectSeq(stored, LAMBDA n : n = 0)) < MaxOther
          /\ stored' = Append(stored, 0)
       \/ UNCHANGED stored
    /\ UNCHANGED <<opts, source, pipe, buffer, line, output, seen, at, failure>>

Init ==
    /\ opts \in [backend : {"sqlite", "json"}, wrapped : BOOLEAN]
    /\ texts = <<>> /\ pipe = <<>> /\ open = TRUE
    /\ buffer = <<>> /\ line = <<>>
    /\ rendered = <<>> /\ printed = <<>> /\ stdout = "open"
    /\ stored = <<>> /\ seen = <<>> /\ lock = None
    /\ at = "reading" /\ failure = None

\* What the process does of its own accord.
Progress ==
    \/ Fill \/ TakeBuffered \/ EndOfInput
    \/ BeginChunk \/ LockTimeout \/ Observe \/ Commit
    \/ WriteOut \/ WriteOutFails \/ Save

\* What may happen to it, and around it.
Happens ==
    \/ ReadFails \/ ChunkFails \/ Kill
    \/ Write \/ CloseInput \/ CloseStdout \/ OtherBegins \/ OtherEnds

Next == Progress \/ Happens

Spec == Init /\ [][Next]_vars /\ WF_vars(Progress)

-----------------------------------------------------------------------------
(* Properties. *)

Places ==
    {"reading", "more", "begin", "observe", "commit", "print", "ended", "save",
     "exited", "killed"}

Output == [line : 1..MaxLines, from : 1..MaxLines + MaxOther]

\* Every variable has its type (main.rs `LineInput`, `Rendered`).
TypeOK ==
    /\ opts \in [backend : {"sqlite", "json"}, wrapped : BOOLEAN]
    /\ texts \in Seq(Texts) /\ Len(texts) <= MaxLines
    /\ pipe \in Seq(Piece) /\ buffer \in Seq(Piece) /\ line \in Seq(Piece)
    /\ open \in BOOLEAN
    /\ rendered \in Seq(Output) /\ printed \in Seq(Output)
    /\ stdout \in {"open", "closed"}
    /\ stored \in Seq(0..MaxLines) /\ seen \in Seq(0..MaxLines)
    /\ lock \in {"stream", "other", None}
    /\ at \in Places
    /\ failure \in {None, "read", "stdout", "corpus", "save"}

\* With a SQLite corpus, every line printed was rendered from a corpus that is
\* committed: neither a kill nor a failed chunk takes it back (main.rs
\* `stream_per_iri_sections`).
PrintedWasCommitted ==
    Sqlite => \A i \in 1..Len(printed) :
                /\ printed[i].from <= Len(stored)
                /\ stored[printed[i].from] = printed[i].line

\* A quiet input never keeps the corpus locked: with the lock held, the next line
\* is already buffered (main.rs `chunk`).
NeverWaitsHoldingLock == Reading /\ lock = "stream" => HasEnd(buffer)

\* The lines observed and the lines printed are the input's, in order, each once,
\* however it was cut into reads and chunks (main.rs `next_line`, `chunk`).
Own(log) == Range(log) \ {0}

Ascending(log) ==
    \A i, j \in 1..Len(log) : i < j /\ log[i] # 0 /\ log[j] # 0 => log[i] < log[j]

\* Some of `all`, with nothing skipped.
Begins(lines, all) ==
    lines \subseteq all /\ \A n \in lines, m \in all : m < n => m \in lines

Printed == [i \in 1..Len(printed) |-> printed[i].line]

InOrderOnce ==
    /\ Ascending(Printed) /\ Ascending(stored) /\ Ascending(seen)
    /\ Begins(Range(Printed), Own(IF Sqlite THEN stored ELSE seen))
    /\ Begins(Own(stored), Observable(Len(texts)))
    /\ Begins(Own(seen), Observable(Len(texts)))

\* Unless the corpus itself failed, a process that exits, its reader gone or its
\* input failing, has saved every whole line it read (main.rs `run`).
WholeLinesRead ==
    IF pipe # <<>> THEN Head(pipe).line - 1
    ELSE Len(texts) - (IF Unended THEN 1 ELSE 0)

SavesWhatItRead ==
    at = "exited" /\ failure \notin {"corpus", "save"} =>
        Observable(WholeLinesRead) \subseteq Own(stored)

\* A whole line is printed, or the process ends, even if nothing more is ever
\* written (main.rs `chunk`; a JSON array waits for the end of the input).
LinePrinted ==
    \A n \in 1..MaxLines :
        (/\ ~opts.wrapped
         /\ n <= Len(texts) /\ (n = Len(texts) => ~Unended)
         /\ n \in Observable(Len(texts)))
        ~> (\/ \E i \in 1..Len(printed) : printed[i].line = n
            \/ at \in {"exited", "killed"})

=============================================================================
