------------------------------ MODULE Initramfs ------------------------------
(***************************************************************************)
(* The boot archive: cmd/mkinitramfs's run and writeArchive over           *)
(* internal/initramfs's newc writer.                                       *)
(*                                                                         *)
(* The kernel unpacks the archive front to back: it finds an entry's data  *)
(* and the next entry by rounding absolute offsets up to multiples of 4,   *)
(* while the writer pads every part by its own length, and it creates an   *)
(* entry only when its directory is there already.  A path is a sequence   *)
(* of components, clean as filepath.Clean leaves it; of file contents only *)
(* the length is kept, of modes, times and inode numbers nothing.  gzip is *)
(* transparent.  A length field is cut to Width (2^32 in the code).        *)
(***************************************************************************)
EXTENDS Integers, Sequences, FiniteSets, SequencesExt

CONSTANTS
    Paths,      \* guest paths of modules and extra files
    Sizes,      \* file lengths
    NameLen(_), \* bytes of a path's name
    Width,      \* length fields are taken modulo this
    MaxExtras   \* bound: number of extra files

Base == <<"dev", "proc", "sys">>
Nodes == <<"console", "null">>
Trailer == <<"TRAILER!!!">>

\* Every path an archive may name.
Names ==
    {<<Base[i]>> : i \in DOMAIN Base} \cup {<<"dev", Nodes[i]>> : i \in DOMAIN Nodes}
        \cup {<<"init">>, Trailer}
        \cup UNION {{SubSeq(p, 1, d) : d \in 1..Len(p)} : p \in Paths}

ASSUME PathsType == Paths \subseteq Seq(STRING) /\ {<<>>, Trailer} \cap Paths = {}
ASSUME NamesHaveLength == \A p \in Names : NameLen(p) \in Nat
ASSUME SizesFit == Width \in Nat \ {0} /\ Sizes \subseteq 0..Width - 1
ASSUME ExtrasBound == MaxExtras \in Nat

VARIABLES
    extras,   \* what readExtraFiles returned
    initSize, \* length of the init binary
    stage,    \* where run is
    next,     \* the extra and the directory of it, or the item, that is next
    out,      \* entries written, with the offset each starts at
    offset,   \* bytes written
    closed    \* Writer.closed

vars == <<extras, initSize, stage, next, out, offset, closed>>

Init ==
    /\ extras \in BoundedSeq([path : Paths, size : Sizes], MaxExtras)
    /\ initSize \in Sizes
    /\ stage = "read" /\ next = <<1, 1>>
    /\ out = <<>> /\ offset = 0 /\ closed = FALSE

-----------------------------------------------------------------------------
(* The newc writer *)

\* Mutant: four bytes of padding where none is needed.
PadFull(size) == 4 - (size % 4)

\* pad4.
Pad(size) == (4 - (size % 4)) % 4

HeaderLen == 110

\* The bytes of an entry: header, name and its NUL, padding, data, padding.
EntryLen(path, size) ==
    LET head == HeaderLen + NameLen(path) + 1
    IN  head + Pad(head) + size + Pad(size)

\* Writer.add, which refuses all but the trailer once the writer is closed.
Add(kind, path, size) ==
    /\ closed => path = Trailer
    /\ out' = Append(out, [kind |-> kind, path |-> path, size |-> size % Width,
                           start |-> offset])
    /\ offset' = offset + EntryLen(path, size)

-----------------------------------------------------------------------------
(* run and writeArchive *)

Goto(s) == stage' = s /\ next' = <<1, 1>>

\* The init binary, the specs and the extra files are read, the output is
\* created.
ReadInputs ==
    /\ stage = "read" /\ Goto("base")
    /\ UNCHANGED <<extras, initSize, out, offset, closed>>

\* An input cannot be read, a write fails, or the gzip stream does not close:
\* run returns the error and leaves the output as it is (a part of an entry
\* that was written before the failure is not kept here).
RunFails ==
    /\ stage \notin {"done", "failed"}
    /\ Goto("failed")
    /\ UNCHANGED <<extras, initSize, out, offset, closed>>

\* dev, proc and sys.
AddBase ==
    /\ stage = "base"
    /\ Add("dir", <<Base[next[1]]>>, 0)
    /\ IF next[1] < Len(Base) THEN next' = <<next[1] + 1, 1>> /\ UNCHANGED stage
                              ELSE Goto("dirs")
    /\ UNCHANGED <<extras, initSize, closed>>

\* Mutant: only the directory a file is in, not the ones above.
ParentsNearest(path) ==
    IF Len(path) > 1 THEN <<SubSeq(path, 1, Len(path) - 1)>> ELSE <<>>

\* parentDirectories, outermost first.
Parents(path) == [d \in 1..Len(path) - 1 |-> SubSeq(path, 1, d)]

\* addExtraDirectories' seen: the base directories and what it added.
Seen(dir) == \E i \in DOMAIN out : out[i].kind = "dir" /\ out[i].path = dir

\* The directory next points at, and the step to the next one.
ThisParents == Parents(extras[next[1]].path)
ThisDir == ThisParents[next[2]]

\* addExtraDirectories adds a directory it has not seen.
AddDirectory ==
    /\ stage = "dirs" /\ next[1] <= Len(extras)
    /\ next[2] <= Len(ThisParents) /\ ~Seen(ThisDir)
    /\ Add("dir", ThisDir, 0)
    /\ next' = <<next[1], next[2] + 1>>
    /\ UNCHANGED <<extras, initSize, stage, closed>>

\* ... skips one it has,
SkipDirectory ==
    /\ stage = "dirs" /\ next[1] <= Len(extras)
    /\ next[2] <= Len(ThisParents) /\ Seen(ThisDir)
    /\ next' = <<next[1], next[2] + 1>>
    /\ UNCHANGED <<extras, initSize, stage, out, offset, closed>>

\* ... and goes on to the next extra file, or to the device nodes.
NextExtra ==
    /\ stage = "dirs"
    /\ IF next[1] <= Len(extras)
       THEN /\ next[2] > Len(ThisParents)
            /\ next' = <<next[1] + 1, 1>> /\ UNCHANGED stage
       ELSE Goto("nodes")
    /\ UNCHANGED <<extras, initSize, out, offset, closed>>

\* dev/console, dev/null.
AddCharDevice ==
    /\ stage = "nodes"
    /\ Add("node", <<"dev", Nodes[next[1]]>>, 0)
    /\ IF next[1] < Len(Nodes) THEN next' = <<next[1] + 1, 1>> /\ UNCHANGED stage
                               ELSE Goto("init")
    /\ UNCHANGED <<extras, initSize, closed>>

AddInit ==
    /\ stage = "init"
    /\ Add("file", <<"init">>, initSize)
    /\ Goto("files")
    /\ UNCHANGED <<extras, initSize, closed>>

AddFile ==
    /\ stage = "files" /\ next[1] <= Len(extras)
    /\ Add("file", extras[next[1]].path, extras[next[1]].size)
    /\ next' = <<next[1] + 1, 1>>
    /\ UNCHANGED <<extras, initSize, stage, closed>>

\* Mutant: the last file ends the archive.
CloseSilent ==
    /\ stage = "files" /\ next[1] > Len(extras)
    /\ closed' = TRUE
    /\ Goto("gzip")
    /\ UNCHANGED <<extras, initSize, out, offset>>

\* Writer.Close: the trailer.
Close ==
    /\ stage = "files" /\ next[1] > Len(extras)
    /\ closed' = TRUE
    /\ Add("trailer", Trailer, 0)
    /\ Goto("gzip")
    /\ UNCHANGED <<extras, initSize>>

\* The gzip stream is closed; run returns nil.  The deferred Close of the output
\* file comes last and its error is ignored: what the write calls accepted is
\* taken to be in the file.
CloseGzip ==
    /\ stage = "gzip" /\ Goto("done")
    /\ UNCHANGED <<extras, initSize, out, offset, closed>>

-----------------------------------------------------------------------------
Next ==
    \/ ReadInputs \/ RunFails
    \/ AddBase \/ AddDirectory \/ SkipDirectory \/ NextExtra
    \/ AddCharDevice \/ AddInit \/ AddFile \/ Close \/ CloseGzip

Spec == Init /\ [][Next]_vars

-----------------------------------------------------------------------------
(* Properties *)

\* Every variable has its type, and the writer is closed once the archive is.
TypeOK ==
    /\ extras \in Seq([path : Paths, size : Sizes])
    /\ initSize \in Sizes
    /\ stage \in {"read", "base", "dirs", "nodes", "init", "files", "gzip",
                  "done", "failed"}
    /\ next \in (Nat \ {0}) \X (Nat \ {0})
    /\ out \in Seq([kind : {"dir", "node", "file", "trailer"}, path : Names,
                    size : 0..Width - 1, start : Nat])
    /\ offset \in Nat
    /\ closed \in BOOLEAN
    /\ stage \in {"gzip", "done"} => closed

\* Where the kernel looks: the first multiple of 4 at or after x.
RoundUp(x) == CHOOSE y \in x..x + 3 : y % 4 = 0
DataAt(e) == RoundUp(e.start + HeaderLen + NameLen(e.path) + 1)
NextAt(e) == RoundUp(DataAt(e) + e.size)

\* The kernel finds every entry the writer wrote: the relative padding of
\* names and data adds up to the absolute alignment the format asks for,
\* whatever lengths names and files have (Writer.add, pad4).
ReadsBack ==
    /\ \A i \in DOMAIN out :
          out[i].start = IF i = 1 THEN 0 ELSE NextAt(out[i - 1])
    /\ out # <<>> => offset = NextAt(out[Len(out)])

\* Every entry comes after the directory it lies in, which the archive makes
\* itself, and makes once, although files share parents and may lie in dev,
\* proc or sys (addExtraDirectories and its seen, writeArchive's order).
ParentsFirst ==
    \A i \in DOMAIN out :
        /\ Len(out[i].path) > 1 =>
              \E j \in 1..i - 1 : /\ out[j].kind = "dir"
                                  /\ out[j].path = Front(out[i].path)
        /\ out[i].kind = "dir" =>
              \A j \in 1..i - 1 : out[j].kind # "dir" \/ out[j].path # out[i].path

\* A run that reports success leaves a whole archive: every input file with
\* its length, the init binary, the console, and the trailer behind them all.
ArchiveComplete ==
    stage = "done" =>
        /\ \A k \in DOMAIN extras : \E i \in DOMAIN out :
              /\ out[i].kind = "file" /\ out[i].path = extras[k].path
              /\ out[i].size = extras[k].size
        /\ \E i \in DOMAIN out : out[i].path = <<"init">> /\ out[i].size = initSize
        /\ \A i \in DOMAIN out : out[i].kind = "trailer" <=> i = Len(out)

=============================================================================
