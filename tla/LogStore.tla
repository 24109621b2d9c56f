------------------------------ MODULE LogStore ------------------------------
(***************************************************************************)
(* The guest's log (internal/logstore): the standard logger and zerolog    *)
(* write, from any goroutine, through one MultiWriter to the console and   *)
(* then to one logstore writer, which cuts what it gets at newlines and    *)
(* inserts line by line under its mutex.                                   *)
(*                                                                         *)
(* A chunk, what one Write is given, is a sequence of tokens: Newline,     *)
(* Blank (white space) or a text.  stream records the chunks in the order  *)
(* the writer took them; a row is named by the position in stream of the   *)
(* newline that ended it.  Of parseLine's fields only the level is kept:   *)
(* it is the field that a line which is one JSON object brings along.      *)
(***************************************************************************)
EXTENDS Integers, Sequences, FiniteSetsExt

CONSTANTS
    Loggers,    \* goroutines that log
    Texts,      \* parts of a line
    Json,       \* the texts that are a JSON object with a level
    Blank,      \* white space other than the newline
    Newline,
    Chunks,     \* what a logger may write at once
    None,       \* no owner of the mutex
    MaxWrites   \* bound: calls of Write

ASSUME TokensDiffer == Blank # Newline /\ {Blank, Newline} \cap Texts = {}
ASSUME JsonType == Json \subseteq Texts
ASSUME ChunksType == Chunks \subseteq Seq(Texts \cup {Blank, Newline})
ASSUME NoneIsNoLogger == None \notin Loggers
ASSUME WritesType == MaxWrites \in Nat

VARIABLES
    pc,         \* per goroutine: where its Write is
    chunk,      \* per goroutine: what it writes
    line,       \* per goroutine: the line it has cut and not yet inserted
    owner,      \* who holds writer.mu
    buf,        \* writer.buf
    rows,       \* the logs table, in id order
    lastError,  \* Store.lastError is set
    stream,     \* history: everything the writer took
    dropped,    \* history: lines whose insert failed
    writes      \* bound counter

vars == <<pc, chunk, line, owner, buf, rows, lastError, stream, dropped,
          writes>>

Tokens == Texts \cup {Blank, Newline}
NoLine == [at |-> 0, text |-> <<>>]

Init ==
    /\ pc = [g \in Loggers |-> "idle"]
    /\ chunk = [g \in Loggers |-> <<>>]
    /\ line = [g \in Loggers |-> NoLine]
    /\ owner = None
    /\ buf = <<>> /\ rows = <<>> /\ lastError = FALSE
    /\ stream = <<>> /\ dropped = {} /\ writes = 0

-----------------------------------------------------------------------------
(* Lines *)

Newlines(s) == {i \in DOMAIN s : s[i] = Newline}

\* bytes.TrimSpace, strings.TrimSpace.
Trim(s) ==
    LET ink == {i \in DOMAIN s : s[i] \notin {Blank, Newline}}
    IN  IF ink = {} THEN <<>> ELSE SubSeq(s, Min(ink), Max(ink))

\* The line of s that the newline at i ends, as it should be stored.
LineAt(s, i) ==
    Trim(SubSeq(s, 1 + Max({0} \cup {j \in Newlines(s) : j < i}), i - 1))

\* Mutant: the last newline is taken (LastIndexByte).
NextNewlineLast == Max(Newlines(buf))

\* bytes.IndexByte over the buffer.
NextNewline == Min(Newlines(buf))

\* Mutant: one byte too many is skipped.
RestSkipping(i) == SubSeq(buf, i + 2, Len(buf))

\* Mutant: the newline stays in the buffer.
RestWithNewline(i) == SubSeq(buf, i, Len(buf))

\* buf.Next(idx + 1).
Rest(i) == SubSeq(buf, i + 1, Len(buf))

\* Position in stream of the buffer's first token, minus one.
Consumed == Len(stream) - Len(buf)

-----------------------------------------------------------------------------
(* Write, by goroutine g *)

At(g, place) == pc[g] = place
Goto(g, place) == pc' = [pc EXCEPT ![g] = place]

\* A message is logged; MultiWriter has yet to write it to the console.
Log(g, c) ==
    /\ At(g, "idle") /\ writes < MaxWrites
    /\ Goto(g, "console")
    /\ chunk' = [chunk EXCEPT ![g] = c]
    /\ writes' = writes + 1
    /\ UNCHANGED <<line, owner, buf, rows, lastError, stream, dropped>>

\* The console refuses the chunk: MultiWriter does not try the next writer.
ConsoleFails(g) ==
    /\ At(g, "console")
    /\ Goto(g, "idle")
    /\ UNCHANGED <<chunk, line, owner, buf, rows, lastError, stream, dropped,
                   writes>>

MayLock == owner = None

\* The console has the chunk; writer.Write takes the mutex and buffers it.
Buffer(g) ==
    /\ At(g, "console") /\ MayLock
    /\ Goto(g, "cut")
    /\ owner' = g
    /\ buf' = buf \o chunk[g]
    /\ stream' = stream \o chunk[g]
    /\ UNCHANGED <<chunk, line, rows, lastError, dropped, writes>>

\* The loop of Write finds a newline.
CutLine(g) ==
    /\ At(g, "cut") /\ Newlines(buf) # {}
    /\ Goto(g, "insert")
    /\ line' = [line EXCEPT ![g] =
                   [at |-> Consumed + NextNewline,
                    text |-> Trim(SubSeq(buf, 1, NextNewline - 1))]]
    /\ buf' = Rest(NextNewline)
    /\ UNCHANGED <<chunk, owner, rows, lastError, stream, dropped, writes>>

\* Insert leaves blank lines out.
SkipBlank(g) ==
    /\ At(g, "insert") /\ line[g].text = <<>>
    /\ Goto(g, "cut")
    /\ UNCHANGED <<chunk, line, owner, buf, rows, lastError, stream, dropped,
                   writes>>

\* parseLine: a JSON object names its level, any other line is "info".
LevelOf(text) == IF \E j \in Json : text = <<j>> THEN "own" ELSE "info"

\* The row of a line.
Entry(l) == [at |-> l.at, text |-> l.text, level |-> LevelOf(l.text)]

\* Insert stores the line.
Insert(g) ==
    /\ At(g, "insert") /\ line[g].text # <<>>
    /\ Goto(g, "cut")
    /\ rows' = Append(rows, Entry(line[g]))
    /\ lastError' = FALSE
    /\ UNCHANGED <<chunk, line, owner, buf, stream, dropped, writes>>

\* SQLite fails: Insert records the error, Write ignores it.
InsertFails(g) ==
    /\ At(g, "insert") /\ line[g].text # <<>>
    /\ Goto(g, "cut")
    /\ lastError' = TRUE
    /\ dropped' = dropped \cup {line[g].at}
    /\ UNCHANGED <<chunk, line, owner, buf, rows, stream, writes>>

\* No newline is left: the mutex is released, a partial line stays.
Unlock(g) ==
    /\ At(g, "cut") /\ Newlines(buf) = {}
    /\ Goto(g, "idle")
    /\ owner' = None
    /\ UNCHANGED <<chunk, line, buf, rows, lastError, stream, dropped, writes>>

-----------------------------------------------------------------------------
Write(g) ==
    \/ Buffer(g) \/ CutLine(g) \/ SkipBlank(g) \/ Insert(g) \/ InsertFails(g)
    \/ Unlock(g)

Next ==
    \E g \in Loggers : \/ \E c \in Chunks : Log(g, c)
                       \/ ConsoleFails(g)
                       \/ Write(g)

\* A goroutine inside Write runs on; Go's mutex hands itself to a waiter.
Spec == /\ Init /\ [][Next]_vars
        /\ \A g \in Loggers : WF_vars(Write(g)) /\ SF_vars(Buffer(g))

-----------------------------------------------------------------------------
(* Properties *)

Line == [at : Nat, text : Seq(Tokens)]
Row == [at : Nat, text : Seq(Tokens), level : {"own", "info"}]

\* Every variable has its type, and only the mutex's owner is past buffering.
TypeOK ==
    /\ pc \in [Loggers -> {"idle", "console", "cut", "insert"}]
    /\ chunk \in [Loggers -> Chunks \cup {<<>>}]
    /\ line \in [Loggers -> Line]
    /\ owner \in Loggers \cup {None}
    /\ \A g \in Loggers : pc[g] \in {"cut", "insert"} => owner = g
    /\ buf \in Seq(Tokens) /\ stream \in Seq(Tokens)
    /\ rows \in Seq(Row)
    /\ lastError \in BOOLEAN
    /\ dropped \subseteq Nat
    /\ writes \in 0..MaxWrites

\* The table holds lines of the stream, each at most once, in the order, with
\* the text and at the level in which they were written, however many
\* goroutines log and however a line is spread over writes (writer.Write,
\* parseLine).
RowsAreLines ==
    /\ \A i, j \in DOMAIN rows : i < j => rows[i].at < rows[j].at
    /\ \A i \in DOMAIN rows :
          /\ rows[i].at \in Newlines(stream)
          /\ rows[i].text = LineAt(stream, rows[i].at)
          /\ rows[i].level = LevelOf(LineAt(stream, rows[i].at))

\* Nothing is lost on the way but what the database refused: a finished line
\* is blank, stored, dropped with an error, in some goroutine's hands, or
\* still in the buffer, and the buffer is the end of the stream.
NothingLost ==
    /\ buf = SubSeq(stream, Consumed + 1, Len(stream))
    /\ \A i \in Newlines(stream) :
          \/ i > Consumed
          \/ LineAt(stream, i) = <<>>
          \/ i \in dropped
          \/ \E k \in DOMAIN rows : rows[k].at = i
          \/ \E g \in Loggers : At(g, "insert") /\ line[g].at = i

\* Every call of Write returns: neither a failing insert nor another logger
\* keeps a goroutine from logging on.
WriteReturns == \A g \in Loggers : pc[g] # "idle" ~> pc[g] = "idle"

=============================================================================
