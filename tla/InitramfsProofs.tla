-------------------------- MODULE InitramfsProofs --------------------------
(***************************************************************************)
(* Proofs about Initramfs, for any paths, any number of extra files, any   *)
(* name lengths and any file lengths that fit their field.                 *)
(***************************************************************************)
EXTENDS Initramfs, SequenceTheorems, TLAPS

Kinds == {"dir", "node", "file", "trailer"}
Entries == [kind : Kinds, path : Names, size : 0..Width - 1, start : Nat]

\* ReadsBack, and the writer has come to a multiple of 4.
Aligned ==
    /\ ReadsBack
    /\ out = <<>> => offset = 0
    /\ offset % 4 = 0

\* The base directories are written in their order.
BaseWritten ==
    /\ stage = "read" => out = <<>>
    /\ stage = "base" =>
          /\ next[1] \in 1..3 /\ Len(out) = next[1] - 1
          /\ \A i \in DOMAIN out : out[i].kind = "dir" /\ out[i].path = <<Base[i]>>
    /\ stage \notin {"read", "base", "failed"} => Seen(<<"dev">>)
    /\ stage = "nodes" => next[1] \in 1..2

\* The directories of the extra files before the next are written, and those
\* of the next one above the next directory.
ParentsSeen ==
    /\ stage = "dirs" =>
          \A k \in DOMAIN extras : \A d \in 1..Len(extras[k].path) - 1 :
              k < next[1] \/ (k = next[1] /\ d < next[2]) =>
                  Seen(SubSeq(extras[k].path, 1, d))
    /\ stage \in {"nodes", "init", "files"} =>
          \A k \in DOMAIN extras : \A d \in 1..Len(extras[k].path) - 1 :
              Seen(SubSeq(extras[k].path, 1, d))

HasFile(x) ==
    \E i \in DOMAIN out : /\ out[i].kind = "file" /\ out[i].path = x.path
                          /\ out[i].size = x.size
HasInit == \E i \in DOMAIN out : out[i].path = <<"init">> /\ out[i].size = initSize

\* The files before the next are written, and the trailer comes last.
FilesWritten ==
    /\ stage \in {"files", "gzip", "done"} => HasInit
    /\ stage = "files" => \A k \in DOMAIN extras : k < next[1] => HasFile(extras[k])
    /\ stage \in {"gzip", "done"} =>
          /\ \A k \in DOMAIN extras : HasFile(extras[k])
          /\ \A i \in DOMAIN out : out[i].kind = "trailer" <=> i = Len(out)
    /\ stage \notin {"gzip", "done", "failed"} =>
          ~closed /\ \A i \in DOMAIN out : out[i].kind # "trailer"

\* The inductive invariant.
IndInv ==
    /\ TypeOK
    /\ Aligned
    /\ ParentsFirst
    /\ BaseWritten
    /\ ParentsSeen
    /\ FilesWritten

-----------------------------------------------------------------------------
(* Alignment *)

\* RoundUp finds what pad4 adds.
LEMMA RoundUpIs ==
    ASSUME NEW x \in Nat
    PROVE  RoundUp(x) = x + Pad(x) /\ RoundUp(x) % 4 = 0 /\ Pad(x) \in 0..3
  <1>1. /\ x + Pad(x) \in x..x + 3 /\ (x + Pad(x)) % 4 = 0
        /\ Pad(x) \in 0..3
    BY DEF Pad
  <1>2. \A y, z \in x..x + 3 : y % 4 = 0 /\ z % 4 = 0 => y = z
    OBVIOUS
  <1>3. RoundUp(x) \in x..x + 3 /\ RoundUp(x) % 4 = 0
    BY <1>1 DEF RoundUp
  <1> QED BY <1>1, <1>2, <1>3

\* Behind an aligned offset, padding by one's own length and rounding up the
\* absolute offset come to the same.
LEMMA PaddingAdds ==
    ASSUME NEW o \in Nat, o % 4 = 0, NEW x \in Nat
    PROVE  RoundUp(o + x) = o + (x + Pad(x))
  <1>1. Pad(o + x) = Pad(x)
    BY DEF Pad
  <1>2. RoundUp(o + x) = (o + x) + Pad(o + x) /\ Pad(x) \in 0..3
    BY RoundUpIs
  <1>3. \A p \in 0..3 : (o + x) + p = o + (x + p)
    OBVIOUS
  <1> QED BY <1>1, <1>2, <1>3, Zenon

\* The next entry is where the writer has come to.
LEMMA EntryEnds ==
    ASSUME NEW o \in Nat, o % 4 = 0, NEW path \in Names,
           NEW size \in 0..Width - 1,
           NEW e, e.path = path, e.size = size, e.start = o
    PROVE  /\ NextAt(e) = o + EntryLen(path, size)
           /\ o + EntryLen(path, size) \in Nat
           /\ (o + EntryLen(path, size)) % 4 = 0
  <1> DEFINE head == HeaderLen + NameLen(path) + 1
             data == o + (head + Pad(head))
  <1>1. head \in Nat /\ size \in Nat
    BY NamesHaveLength, SizesFit DEF HeaderLen
  <1>2. EntryLen(path, size) = head + Pad(head) + size + Pad(size)
    BY DEF EntryLen
  <1>3. DataAt(e) = RoundUp(o + head)
    <2>1. o + HeaderLen + NameLen(path) + 1 = o + head
      BY NamesHaveLength DEF HeaderLen
    <2> QED BY <2>1, Zenon DEF DataAt
  <1> HIDE DEF head
  <1>4. RoundUp(o + head) = data /\ RoundUp(o + head) % 4 = 0
    <2>1. o + head \in Nat
      BY <1>1
    <2>2. RoundUp(o + head) = o + (head + Pad(head))
      BY <1>1, PaddingAdds, Zenon
    <2>3. RoundUp(o + head) % 4 = 0
      BY <2>1, RoundUpIs, Zenon
    <2> QED BY <2>2, <2>3
  <1>5. Pad(head) \in 0..3 /\ Pad(size) \in 0..3
    BY <1>1, RoundUpIs
  <1>6. data \in Nat /\ data % 4 = 0
    BY <1>1, <1>4, <1>5
  <1>7. /\ data + (size + Pad(size)) = o + (head + Pad(head) + size + Pad(size))
        /\ data + size \in Nat
    BY <1>1, <1>5
  <1> HIDE DEF data
  <1>8. RoundUp(data + size) = data + (size + Pad(size))
    BY <1>1, <1>6, PaddingAdds
  <1>9. NextAt(e) = RoundUp(data + size)
    BY <1>3, <1>4 DEF NextAt
  <1>10. RoundUp(data + size) % 4 = 0
    BY <1>7, RoundUpIs
  <1>11. data + (size + Pad(size)) \in Nat
    BY <1>1, <1>5, <1>6
  <1> QED BY <1>2, <1>7, <1>8, <1>9, <1>10, <1>11

-----------------------------------------------------------------------------
(* Paths *)

\* The directories above a path.
LEMMA PrefixFacts ==
    ASSUME NEW S, NEW p \in Seq(S), NEW d \in 1..Len(p)
    PROVE  /\ Len(SubSeq(p, 1, d)) = d
           /\ Front(SubSeq(p, 1, d)) = SubSeq(p, 1, d - 1)
           /\ d = Len(p) => SubSeq(p, 1, d) = p
  <1>1. Len(p) \in Nat /\ \A i \in 1..Len(p) : p[i] \in S
    BY LenProperties, ElementOfSeq
  <1> DEFINE q == SubSeq(p, 1, d)
             u == SubSeq(q, 1, d - 1)
             v == SubSeq(p, 1, d - 1)
  <1>2. /\ q \in Seq(S) /\ Len(q) = d /\ \A i \in 1..d : q[i] = p[i]
    BY <1>1, SubSeqProperties
  <1>3. /\ v \in Seq(S) /\ Len(v) = d - 1 /\ \A i \in 1..(d - 1) : v[i] = p[i]
    BY <1>1, SubSeqProperties
  <1>4. Front(q) = u
    BY <1>2, Zenon DEF Front
  <1> HIDE DEF q, v
  <1>5. \A i \in 1..(d - 1) : q[i] \in S
    BY <1>1, <1>2
  <1>6. /\ u \in Seq(S) /\ Len(u) = d - 1 /\ \A i \in 1..(d - 1) : u[i] = q[i]
    BY <1>2, <1>5, SubSeqProperties
  <1> HIDE DEF u
  <1>7. u = v
    <2>1. \A i \in 1..(d - 1) : i \in 1..d
      OBVIOUS
    <2>2. Len(u) = Len(v) /\ \A i \in 1..Len(u) : u[i] = v[i]
      BY <1>2, <1>3, <1>6, <2>1
    <2> QED BY <1>3, <1>6, <2>2, SeqEqual, Zenon
  <1>8. d = Len(p) => q = p
    BY <1>2, SeqEqual
  <1> QED BY <1>2, <1>4, <1>7, <1>8 DEF q, v

\* An extra file, and the directories it needs.
LEMMA ExtraFacts ==
    ASSUME TypeOK, NEW k \in DOMAIN extras
    PROVE  /\ extras[k].path \in Names /\ extras[k].size \in 0..Width - 1
           /\ Len(extras[k].path) \in Nat \ {0}
           /\ Front(extras[k].path)
                 = SubSeq(extras[k].path, 1, Len(extras[k].path) - 1)
           /\ \A d \in 1..Len(extras[k].path) - 1 :
                 /\ SubSeq(extras[k].path, 1, d) \in Names
                 /\ Len(SubSeq(extras[k].path, 1, d)) = d
                 /\ Front(SubSeq(extras[k].path, 1, d))
                       = SubSeq(extras[k].path, 1, d - 1)
  <1> DEFINE p == extras[k].path
  <1>1. extras[k] \in [path : Paths, size : Sizes]
    <2>1. extras \in Seq([path : Paths, size : Sizes])
      BY DEF TypeOK
    <2> HIDE DEF TypeOK
    <2>2. k \in 1..Len(extras)
      BY <2>1, LenProperties
    <2> QED BY <2>1, <2>2, ElementOfSeq, Zenon
  <1>2. p \in Paths /\ extras[k].size \in 0..Width - 1
    BY <1>1, SizesFit
  <1> HIDE DEF p
  <1>3. p \in Seq(STRING) /\ p # <<>>
    BY <1>2, PathsType, Zenon
  <1>4. Len(p) \in Nat /\ Len(p) # 0
    BY <1>3, EmptySeq, LenProperties
  <1>5. \A d \in 1..Len(p) : SubSeq(p, 1, d) \in Names
    <2> SUFFICES ASSUME NEW d \in 1..Len(p) PROVE SubSeq(p, 1, d) \in Names
      OBVIOUS
    <2> DEFINE D(q) == {SubSeq(q, 1, c) : c \in 1..Len(q)}
    <2>1. SubSeq(p, 1, d) \in D(p)
      OBVIOUS
    <2>2. D(p) \in {D(q) : q \in Paths}
      BY <1>2, Zenon
    <2>3. SubSeq(p, 1, d) \in UNION {D(q) : q \in Paths}
      BY <2>1, <2>2, Zenon
    <2> QED BY <2>3, Zenon DEF Names
  <1>6. \A d \in 1..Len(p) :
           /\ Len(SubSeq(p, 1, d)) = d
           /\ Front(SubSeq(p, 1, d)) = SubSeq(p, 1, d - 1)
           /\ d = Len(p) => SubSeq(p, 1, d) = p
    BY <1>3, PrefixFacts, Zenon
  <1>7. Len(p) \in 1..Len(p) /\ \A d \in 1..Len(p) - 1 : d \in 1..Len(p)
    BY <1>4
  <1>8. p \in Names /\ Front(p) = SubSeq(p, 1, Len(p) - 1)
    BY <1>5, <1>6, <1>7, Zenon
  <1>9. \A d \in 1..Len(p) - 1 : SubSeq(p, 1, d) \in Names
               /\ Len(SubSeq(p, 1, d)) = d
               /\ Front(SubSeq(p, 1, d)) = SubSeq(p, 1, d - 1)
    BY <1>5, <1>6, <1>7, Zenon
  <1>10. Len(p) \in Nat \ {0}
    BY <1>4
  <1> QED BY <1>2, <1>8, <1>9, <1>10, Zenon DEF p

\* The fixed paths.
LEMMA FixedPaths ==
    /\ \A i \in 1..3 : <<Base[i]>> \in Names /\ Len(<<Base[i]>>) = 1
    /\ \A i, j \in 1..3 : <<Base[i]>> = <<Base[j]>> => i = j
    /\ <<Base[1]>> = <<"dev">>
    /\ \A i \in 1..2 : /\ <<"dev", Nodes[i]>> \in Names
                       /\ Front(<<"dev", Nodes[i]>>) = <<"dev">>
    /\ <<"init">> \in Names /\ Len(<<"init">>) = 1
    /\ Trailer \in Names /\ Len(Trailer) = 1
    /\ Len(Base) = 3 /\ Len(Nodes) = 2
  <1>1. DOMAIN Base = 1..3 /\ DOMAIN Nodes = 1..2 /\ Len(Base) = 3 /\ Len(Nodes) = 2
    BY DEF Base, Nodes
  <1>2. \A i \in 1..3 : <<Base[i]>> \in Names
    BY <1>1, Zenon DEF Names
  <1>3. \A i \in 1..2 : <<"dev", Nodes[i]>> \in Names
    BY <1>1, Zenon DEF Names
  <1>4. <<"init">> \in Names /\ Trailer \in Names
    BY Zenon DEF Names
  <1>5. \A i, j \in 1..3 : <<Base[i]>> = <<Base[j]>> => i = j
    BY DEF Base
  <1>6. ASSUME NEW a, NEW b PROVE Front(<<a, b>>) = <<a>>
    <2> DEFINE u == SubSeq(<<a, b>>, 1, 1)
    <2>1. <<a, b>> \in Seq({a, b}) /\ <<a>> \in Seq({a, b}) /\ Len(<<a, b>>) = 2
      OBVIOUS
    <2>2. u \in Seq({a, b}) /\ Len(u) = 1 /\ u[1] = a
      BY <2>1, SubSeqProperties
    <2> HIDE DEF u
    <2>3. u = <<a>>
      BY <2>1, <2>2, SeqEqual
    <2> QED BY <2>1, <2>3 DEF Front, u
  <1>7. <<Base[1]>> = <<"dev">>
    BY DEF Base
  <1>8. Len(Trailer) = 1
    BY DEF Trailer
  <1> QED BY <1>1, <1>2, <1>3, <1>4, <1>5, <1>6, <1>7, <1>8

-----------------------------------------------------------------------------
(* What Writer.add does to the archive *)

\* One entry more; what was written stays.
Grown(kind, path, size) ==
    /\ Len(out) \in Nat /\ DOMAIN out = 1..Len(out)
    /\ out' \in Seq(Entries)
    /\ Len(out') = Len(out) + 1 /\ DOMAIN out' = 1..(Len(out) + 1)
    /\ \A i \in DOMAIN out : i \in DOMAIN out' /\ out'[i] = out[i]
    /\ out'[Len(out) + 1].kind = kind /\ out'[Len(out) + 1].path = path
    /\ out'[Len(out) + 1].size = size /\ out'[Len(out) + 1].start = offset
    /\ offset' = offset + EntryLen(path, size)

LEMMA AddGrows ==
    ASSUME TypeOK, NEW kind \in Kinds, NEW path \in Names,
           NEW size \in 0..Width - 1, Add(kind, path, size)
    PROVE  Grown(kind, path, size)
  <1> DEFINE e == [kind |-> kind, path |-> path, size |-> size % Width,
                   start |-> offset]
  <1>1. out' = Append(out, e) /\ offset' = offset + EntryLen(path, size)
    BY DEF Add
  <1>2. size % Width = size
    BY SizesFit
  <1>3. out \in Seq(Entries) /\ offset \in Nat
    BY DEF TypeOK, Entries, Kinds
  <1>4. e \in Entries
    BY <1>2, <1>3 DEF Entries
  <1>5. /\ e.kind = kind /\ e.path = path /\ e.size = size /\ e.start = offset
    BY <1>2
  <1> HIDE DEF e
  <1>6. Len(out) \in Nat /\ DOMAIN out = 1..Len(out)
    BY <1>3, LenProperties
  <1>7. /\ Append(out, e) \in Seq(Entries) /\ Len(Append(out, e)) = Len(out) + 1
        /\ DOMAIN Append(out, e) = 1..(Len(out) + 1)
        /\ \A i \in 1..Len(out) : Append(out, e)[i] = out[i]
        /\ Append(out, e)[Len(out) + 1] = e
    BY <1>3, <1>4, <1>6, AppendProperties, LenProperties
  <1>8. \A i \in 1..Len(out) : i \in 1..(Len(out) + 1)
    BY <1>6
  <1> QED BY <1>1, <1>5, <1>6, <1>7, <1>8, Zenon DEF Grown

\* The archive stays readable.
LEMMA GrownAligned ==
    ASSUME TypeOK, Aligned, NEW kind \in Kinds, NEW path \in Names,
           NEW size \in 0..Width - 1, Grown(kind, path, size)
    PROVE  Aligned' /\ offset' \in Nat
  <1> DEFINE n == Len(out) + 1
             e == out'[n]
  <1>1. offset \in Nat /\ offset % 4 = 0
    BY DEF TypeOK, Aligned
  <1>2. /\ e.path = path /\ e.size = size /\ e.start = offset
        /\ offset' = offset + EntryLen(path, size)
        /\ Len(out') = n /\ n \in Nat /\ n # 0
        /\ Len(out) \in Nat /\ DOMAIN out = 1..Len(out) /\ DOMAIN out' = 1..n
        /\ \A i \in DOMAIN out : out'[i] = out[i]
    BY DEF Grown
  <1>3. /\ NextAt(e) = offset' /\ offset' \in Nat /\ offset' % 4 = 0
    <2>1. \A x : x.path = path /\ x.size = size /\ x.start = offset =>
             /\ NextAt(x) = offset + EntryLen(path, size)
             /\ offset + EntryLen(path, size) \in Nat
             /\ (offset + EntryLen(path, size)) % 4 = 0
      BY <1>1, EntryEnds, Zenon
    <2> HIDE DEF e
    <2> QED BY <1>2, <2>1, Zenon
  <1>4. ASSUME NEW i \in DOMAIN out'
        PROVE  out'[i].start = IF i = 1 THEN 0 ELSE NextAt(out'[i - 1])
    <2>1. CASE i \in DOMAIN out
      <3>1. i = 1 \/ i - 1 \in DOMAIN out
        BY <1>2, <2>1
      <3> QED BY <1>2, <2>1, <3>1 DEF Aligned, ReadsBack
    <2>2. CASE i = n /\ n = 1
      <3>1. offset = 0
        <4>1. out \in Seq(Entries) /\ Len(out) = 0
          BY <1>2, <2>2 DEF TypeOK, Entries, Kinds
        <4>2. out = <<>>
          BY <4>1, EmptySeq
        <4> QED BY <4>2 DEF Aligned
      <3> QED BY <1>2, <2>2, <3>1
    <2>3. CASE i = n /\ n # 1
      <3>1. Len(out) \in DOMAIN out /\ i - 1 = Len(out) /\ i # 1 /\ out # <<>>
        BY <1>2, <2>3
      <3>2. offset = NextAt(out[Len(out)])
        BY <3>1 DEF Aligned, ReadsBack
      <3> QED BY <1>2, <2>3, <3>1, <3>2
    <2> QED BY <1>2, <2>1, <2>2, <2>3
  <1>5. offset' = NextAt(out'[Len(out')])
    BY <1>2, <1>3
  <1>6. out' # <<>>
    BY <1>2
  <1> QED BY <1>3, <1>4, <1>5, <1>6 DEF Aligned, ReadsBack

\* What was there is still there.
LEMMA GrownKeeps ==
    ASSUME NEW kind \in Kinds, NEW path \in Names, NEW size \in 0..Width - 1,
           Grown(kind, path, size)
    PROVE  /\ \A p : Seen(p) => Seen(p)'
           /\ kind = "dir" => Seen(path)'
           /\ \A x : HasFile(x) => HasFile(x)'
           /\ kind = "file" => \A x : x.path = path /\ x.size = size => HasFile(x)'
           /\ UNCHANGED initSize => (HasInit => HasInit')
           /\ path = <<"init">> /\ size = initSize' => HasInit'
  <1>1. /\ Len(out) + 1 \in DOMAIN out'
        /\ \A i \in DOMAIN out : i \in DOMAIN out' /\ out'[i] = out[i]
    BY DEF Grown
  <1>2. /\ out'[Len(out) + 1].kind = kind /\ out'[Len(out) + 1].path = path
        /\ out'[Len(out) + 1].size = size
    BY DEF Grown
  <1>3. (\A p : Seen(p) => Seen(p)') /\ (kind = "dir" => Seen(path)')
    BY <1>1, <1>2, Zenon DEF Seen
  <1>4. /\ \A x : HasFile(x) => HasFile(x)'
        /\ kind = "file" => \A x : x.path = path /\ x.size = size => HasFile(x)'
    BY <1>1, <1>2, Zenon DEF HasFile
  <1>5. /\ UNCHANGED initSize => (HasInit => HasInit')
        /\ path = <<"init">> /\ size = initSize' => HasInit'
    BY <1>1, <1>2, Zenon DEF HasInit
  <1> QED BY <1>3, <1>4, <1>5

\* A new entry lies in a directory that is there, and is a new directory.
LEMMA GrownParents ==
    ASSUME ParentsFirst, NEW kind \in Kinds, NEW path \in Names,
           NEW size \in 0..Width - 1, Grown(kind, path, size),
           Len(path) > 1 => Seen(Front(path)),
           kind = "dir" => ~Seen(path)
    PROVE  ParentsFirst'
  <1> DEFINE n == Len(out) + 1
  <1>1. /\ n = Len(out) + 1 /\ Len(out) \in Nat /\ DOMAIN out = 1..Len(out)
        /\ DOMAIN out' = 1..n
        /\ \A i \in 1..Len(out) : out'[i] = out[i]
        /\ out'[n].kind = kind /\ out'[n].path = path
    BY DEF Grown
  <1> HIDE DEF n
  <1>2. ASSUME NEW i \in DOMAIN out'
        PROVE  /\ Len(out'[i].path) > 1 =>
                    \E j \in 1..i - 1 : /\ out'[j].kind = "dir"
                                        /\ out'[j].path = Front(out'[i].path)
               /\ out'[i].kind = "dir" =>
                    \A j \in 1..i - 1 : \/ out'[j].kind # "dir"
                                        \/ out'[j].path # out'[i].path
    <2>1. CASE i \in DOMAIN out
      <3>1. \A j \in 1..i - 1 : j \in 1..Len(out)
        BY <1>1, <2>1
      <3>2. /\ Len(out[i].path) > 1 =>
                    \E j \in 1..i - 1 : /\ out[j].kind = "dir"
                                        /\ out[j].path = Front(out[i].path)
            /\ out[i].kind = "dir" =>
                    \A j \in 1..i - 1 : \/ out[j].kind # "dir"
                                        \/ out[j].path # out[i].path
        BY <2>1 DEF ParentsFirst
      <3>3. out'[i] = out[i] /\ \A j \in 1..i - 1 : out'[j] = out[j]
        BY <1>1, <2>1, <3>1
      <3> QED BY <3>2, <3>3, Zenon
    <2>2. CASE i = n
      <3>1. i - 1 = Len(out) /\ out'[i].kind = kind /\ out'[i].path = path
        BY <1>1, <2>2
      <3>2. \A j \in 1..i - 1 : out'[j] = out[j] /\ j \in DOMAIN out
        BY <1>1, <3>1
      <3>3. \A j \in DOMAIN out : j \in 1..i - 1
        BY <1>1, <3>1
      <3> QED BY <3>1, <3>2, <3>3, Zenon DEF Seen
    <2>3. i \in DOMAIN out \/ i = n
      BY <1>1
    <2> QED BY <2>1, <2>2, <2>3
  <1> QED BY <1>2, Zenon DEF ParentsFirst

-----------------------------------------------------------------------------
(* The steps *)

Stages == {"read", "base", "dirs", "nodes", "init", "files", "gzip", "done",
           "failed"}

\* What every action does to the types.
LEMMA TypeStep ==
    ASSUME TypeOK, UNCHANGED <<extras, initSize>>, stage' \in Stages,
           next' \in (Nat \ {0}) \X (Nat \ {0}),
           out' \in Seq(Entries), offset' \in Nat, closed' \in BOOLEAN,
           stage' \in {"gzip", "done"} => closed'
    PROVE  TypeOK'
  <1>1. extras' \in Seq([path : Paths, size : Sizes]) /\ initSize' \in Sizes
    BY DEF TypeOK
  <1> QED BY <1>1 DEF TypeOK, Stages, Entries, Kinds

\* Where run is, in numbers.
LEMMA Facts ==
    ASSUME TypeOK
    PROVE  /\ next[1] \in Nat \ {0} /\ next[2] \in Nat \ {0}
           /\ next \in (Nat \ {0}) \X (Nat \ {0})
           /\ stage \in Stages /\ closed \in BOOLEAN /\ offset \in Nat
           /\ out \in Seq(Entries) /\ Len(out) \in Nat
           /\ DOMAIN out = 1..Len(out)
           /\ Len(extras) \in Nat /\ DOMAIN extras = 1..Len(extras)
           /\ initSize \in 0..Width - 1
  <1>1. out \in Seq(Entries) /\ extras \in Seq([path : Paths, size : Sizes])
    BY DEF TypeOK, Entries, Kinds
  <1>2. /\ Len(out) \in Nat /\ DOMAIN out = 1..Len(out)
        /\ Len(extras) \in Nat /\ DOMAIN extras = 1..Len(extras)
    BY <1>1, LenProperties
  <1> QED BY <1>1, <1>2, SizesFit DEF TypeOK, Stages

\* A step that writes nothing.
LEMMA NothingWritten ==
    ASSUME IndInv, UNCHANGED <<extras, initSize, out, offset, closed>>,
           stage' \in Stages, next' \in (Nat \ {0}) \X (Nat \ {0}),
           stage' \in {"gzip", "done"} => closed
    PROVE  /\ TypeOK' /\ Aligned' /\ ParentsFirst'
           /\ \A p : Seen(p)' <=> Seen(p)
           /\ \A x : HasFile(x)' <=> HasFile(x)
           /\ HasInit' <=> HasInit
  <1>1. TypeOK'
    BY TypeStep, Facts DEF IndInv
  <1>2. Aligned' /\ ParentsFirst'
    BY DEF IndInv, Aligned, ReadsBack, ParentsFirst
  <1>3. /\ \A p : Seen(p)' <=> Seen(p)
        /\ \A x : HasFile(x)' <=> HasFile(x)
        /\ HasInit' <=> HasInit
    BY DEF Seen, HasFile, HasInit
  <1> QED BY <1>1, <1>2, <1>3

\* A step that writes an entry.
LEMMA EntryWritten ==
    ASSUME IndInv, NEW kind \in Kinds, NEW path \in Names,
           NEW size \in 0..Width - 1, Add(kind, path, size),
           Len(path) > 1 => Seen(Front(path)), kind = "dir" => ~Seen(path),
           UNCHANGED <<extras, initSize>>,
           stage' \in Stages, next' \in (Nat \ {0}) \X (Nat \ {0}),
           closed' \in BOOLEAN, stage' \in {"gzip", "done"} => closed'
    PROVE  /\ TypeOK' /\ Aligned' /\ ParentsFirst' /\ Grown(kind, path, size)
  <1>1. Grown(kind, path, size)
    BY AddGrows DEF IndInv
  <1>2. Aligned' /\ offset' \in Nat
    BY <1>1, GrownAligned DEF IndInv
  <1>3. ParentsFirst'
    BY <1>1, GrownParents DEF IndInv
  <1>4. TypeOK'
    BY <1>1, <1>2, TypeStep DEF IndInv, Grown
  <1> QED BY <1>1, <1>2, <1>3, <1>4

\* The inputs are read.
LEMMA ReadInputsStep ==
    ASSUME IndInv, ReadInputs
    PROVE  IndInv'
  <1>1. /\ stage = "read" /\ stage' = "base" /\ next' = <<1, 1>>
        /\ UNCHANGED <<extras, initSize, out, offset, closed>>
    BY DEF ReadInputs, Goto
  <1>2. next' \in (Nat \ {0}) \X (Nat \ {0}) /\ next'[1] = 1 /\ stage' \in Stages
    BY <1>1 DEF Stages
  <1>3. TypeOK' /\ Aligned' /\ ParentsFirst'
    BY <1>1, <1>2, NothingWritten
  <1>4. out' = <<>>
    BY <1>1 DEF IndInv, BaseWritten
  <1>5. BaseWritten'
    BY <1>1, <1>2, <1>4 DEF BaseWritten
  <1>6. ParentsSeen'
    BY <1>1 DEF ParentsSeen
  <1>7. FilesWritten'
    BY <1>1 DEF IndInv, FilesWritten
  <1> QED BY <1>3, <1>5, <1>6, <1>7 DEF IndInv

\* run gives up.
LEMMA RunFailsStep ==
    ASSUME IndInv, RunFails
    PROVE  IndInv'
  <1>1. /\ stage' = "failed" /\ next' = <<1, 1>>
        /\ UNCHANGED <<extras, initSize, out, offset, closed>>
    BY DEF RunFails, Goto
  <1>2. next' \in (Nat \ {0}) \X (Nat \ {0}) /\ stage' \in Stages
    BY <1>1 DEF Stages
  <1>3. TypeOK' /\ Aligned' /\ ParentsFirst'
    BY <1>1, <1>2, NothingWritten
  <1> QED BY <1>1, <1>3 DEF IndInv, BaseWritten, ParentsSeen, FilesWritten

\* A base directory.
LEMMA AddBaseStep ==
    ASSUME IndInv, AddBase
    PROVE  IndInv'
  <1> DEFINE n == next[1]
             p == <<Base[n]>>
  <1>1. /\ stage = "base" /\ Add("dir", p, 0)
        /\ UNCHANGED <<extras, initSize, closed>>
    BY DEF AddBase
  <1>2. /\ n \in 1..3 /\ Len(out) = n - 1 /\ DOMAIN out = 1..Len(out)
        /\ \A i \in DOMAIN out : out[i].kind = "dir" /\ out[i].path = <<Base[i]>>
        /\ ~closed
    BY <1>1, Facts DEF IndInv, BaseWritten, FilesWritten
  <1>3. \/ n < 3 /\ next' = <<n + 1, 1>> /\ stage' = "base"
        \/ n = 3 /\ next' = <<1, 1>> /\ stage' = "dirs"
    BY <1>1, <1>2, FixedPaths DEF AddBase, Goto
  <1>4. p \in Names /\ Len(p) = 1 /\ ~ (Len(p) > 1)
    BY <1>2, FixedPaths
  <1>5. ~Seen(p)
    <2>1. \A i \in DOMAIN out : i \in 1..3 /\ i # n
      BY <1>2
    <2>2. \A i \in DOMAIN out : <<Base[i]>> # <<Base[n]>>
      BY <1>2, <2>1, FixedPaths
    <2> QED BY <1>2, <2>2, Zenon DEF Seen
  <1>6. next' \in (Nat \ {0}) \X (Nat \ {0}) /\ stage' \in Stages
    BY <1>2, <1>3 DEF Stages
  <1>7. 0 \in 0..Width - 1 /\ "dir" \in Kinds /\ closed' \in BOOLEAN
    BY <1>1, SizesFit, Facts DEF IndInv, Kinds
  <1> HIDE DEF p
  <1>8. stage' \notin {"gzip", "done"}
    BY <1>3
  <1>9. TypeOK' /\ Aligned' /\ ParentsFirst' /\ Grown("dir", p, 0)
    BY <1>1, <1>4, <1>5, <1>6, <1>7, <1>8, EntryWritten, Zenon
  <1>10. \A i \in DOMAIN out' : out'[i].kind = "dir" /\ out'[i].path = <<Base[i]>>
    <2>1. \A i \in DOMAIN out' : i \in DOMAIN out \/ i = n
      BY <1>2, <1>9 DEF Grown
    <2>2. Len(out) + 1 = n
      BY <1>2
    <2>3. out'[n].kind = "dir" /\ out'[n].path = <<Base[n]>>
      BY <1>9, <2>2 DEF Grown, p
    <2> QED BY <1>2, <1>9, <2>1, <2>3 DEF Grown
  <1>11. BaseWritten'
    <2>1. CASE stage' = "base"
      <3>1. next'[1] = n + 1 /\ n + 1 \in 1..3 /\ Len(out') = n
        BY <1>2, <1>3, <1>9, <2>1 DEF Grown
      <3>2. next'[1] \in 1..3 /\ Len(out') = next'[1] - 1
        BY <1>2, <3>1
      <3> QED BY <1>10, <2>1, <3>2 DEF BaseWritten
    <2>2. CASE stage' = "dirs"
      <3>1. 1 \in DOMAIN out'
        BY <1>2, <1>9 DEF Grown
      <3>2. Seen(<<"dev">>)'
        BY <1>10, <3>1, FixedPaths DEF Seen
      <3> QED BY <2>2, <3>2 DEF BaseWritten
    <2> QED BY <1>3, <2>1, <2>2
  <1>12. ParentsSeen'
    <2>1. CASE stage' = "base"
      BY <2>1 DEF ParentsSeen
    <2>2. CASE stage' = "dirs"
      <3>1. next'[1] = 1 /\ next'[2] = 1
        BY <1>3, <2>2
      <3>2. Len(extras') \in Nat /\ DOMAIN extras' = 1..Len(extras')
        BY <1>1, Facts DEF IndInv
      <3>3. \A k \in DOMAIN extras' : \A d \in 1..Len(extras'[k].path) - 1 :
               ~ (k < next'[1] \/ (k = next'[1] /\ d < next'[2]))
        BY <3>1, <3>2
      <3> QED BY <2>2, <3>3, Zenon DEF ParentsSeen
    <2> QED BY <1>3, <2>1, <2>2
  <1>13. FilesWritten'
    BY <1>1, <1>2, <1>3, <1>10 DEF FilesWritten
  <1> QED BY <1>9, <1>11, <1>12, <1>13 DEF IndInv

\* What the directories need of the next extra file.
LEMMA DirFacts ==
    ASSUME IndInv, stage = "dirs", next[1] <= Len(extras)
    PROVE  /\ next[1] \in DOMAIN extras
           /\ ThisParents = Parents(extras[next[1]].path)
           /\ Len(ThisParents) = Len(extras[next[1]].path) - 1
           /\ \A d \in 1..Len(extras[next[1]].path) - 1 :
                 ThisParents[d] = SubSeq(extras[next[1]].path, 1, d)
  <1> DEFINE p == extras[next[1]].path
  <1>1. next[1] \in DOMAIN extras
    BY Facts DEF IndInv
  <1>2. Len(p) \in Nat \ {0}
    BY <1>1, ExtraFacts DEF IndInv
  <1>3. ThisParents = [d \in 1..Len(p) - 1 |-> SubSeq(p, 1, d)]
    BY DEF ThisParents, Parents
  <1> HIDE DEF p
  <1>4. \A m \in Nat \ {0} : m - 1 \in Nat
    OBVIOUS
  <1>5. Len([d \in 1..Len(p) - 1 |-> SubSeq(p, 1, d)]) = Len(p) - 1
    BY <1>2, <1>4
  <1> QED BY <1>1, <1>3, <1>5 DEF p, ThisParents

\* The other stages' part of the invariant while directories are written.
LEMMA DirsStep ==
    ASSUME IndInv, stage = "dirs", stage' \in {"dirs", "nodes"},
           UNCHANGED <<extras, closed>>,
           stage' = "nodes" => next'[1] = 1,
           \A q : Seen(q) => Seen(q)',
           \A i \in DOMAIN out' : out'[i].kind # "trailer"
    PROVE  BaseWritten' /\ FilesWritten'
  <1>1. BaseWritten'
    BY DEF IndInv, BaseWritten
  <1>2. FilesWritten'
    BY DEF IndInv, FilesWritten
  <1> QED BY <1>1, <1>2

\* One directory of the next extra file is there.
LEMMA DirStep ==
    ASSUME IndInv, stage = "dirs", next[1] <= Len(extras),
           next[2] <= Len(ThisParents),
           UNCHANGED <<stage, extras>>, next' = <<next[1], next[2] + 1>>,
           \A q : Seen(q) => Seen(q)', \A q : q = ThisDir => Seen(q)'
    PROVE  ParentsSeen'
  <1>1. next'[1] = next[1] /\ next'[2] = next[2] + 1
    OBVIOUS
  <1>2. next[2] \in 1..Len(extras[next[1]].path) - 1
    <2>1. Len(extras[next[1]].path) \in Nat \ {0}
      BY DirFacts, ExtraFacts DEF IndInv
    <2> QED BY <2>1, DirFacts, Facts DEF IndInv
  <1>3. ThisDir = SubSeq(extras[next[1]].path, 1, next[2])
    BY <1>2, DirFacts DEF ThisDir
  <1>4. ASSUME NEW k \in DOMAIN extras, NEW d \in 1..Len(extras[k].path) - 1,
               k < next'[1] \/ (k = next'[1] /\ d < next'[2])
        PROVE  Seen(SubSeq(extras[k].path, 1, d))'
    <2>1. CASE k < next[1] \/ (k = next[1] /\ d < next[2])
      <3>1. Seen(SubSeq(extras[k].path, 1, d))
        BY <2>1 DEF IndInv, ParentsSeen
      <3>2. extras' = extras
        OBVIOUS
      <3> QED BY <3>1, <3>2
    <2>2. CASE k = next[1] /\ d = next[2]
      <3>1. extras' = extras
        OBVIOUS
      <3> QED BY <1>3, <2>2, <3>1
    <2>3. \/ k < next[1] \/ (k = next[1] /\ d < next[2])
          \/ k = next[1] /\ d = next[2]
      <3>1. Len(extras[k].path) \in Nat \ {0}
        BY ExtraFacts DEF IndInv
      <3>2. d \in Nat
        BY <3>1
      <3>3. next[2] \in Nat
        BY Facts DEF IndInv
      <3> QED BY <1>1, <1>4, <3>2, <3>3
    <2> QED BY <2>1, <2>2, <2>3
  <1> QED BY <1>4 DEF ParentsSeen

\* A directory that was not seen.
LEMMA AddDirectoryStep ==
    ASSUME IndInv, AddDirectory
    PROVE  IndInv'
  <1> DEFINE p == extras[next[1]].path
  <1>1. /\ stage = "dirs" /\ next[1] <= Len(extras)
        /\ next[2] <= Len(ThisParents) /\ ~Seen(ThisDir)
        /\ Add("dir", ThisDir, 0)
        /\ next' = <<next[1], next[2] + 1>>
        /\ UNCHANGED <<extras, initSize, stage, closed>>
    BY DEF AddDirectory
  <1>2. /\ next[1] \in DOMAIN extras /\ Len(ThisParents) = Len(p) - 1
        /\ \A d \in 1..Len(p) - 1 : ThisParents[d] = SubSeq(p, 1, d)
    BY <1>1, DirFacts
  <1>3. /\ Len(p) \in Nat \ {0}
        /\ \A d \in 1..Len(p) - 1 : /\ SubSeq(p, 1, d) \in Names
                                    /\ Len(SubSeq(p, 1, d)) = d
                                    /\ Front(SubSeq(p, 1, d)) = SubSeq(p, 1, d - 1)
    BY <1>2, ExtraFacts DEF IndInv
  <1> HIDE DEF p
  <1>4. next[2] \in Nat \ {0} /\ next[2] \in 1..Len(p) - 1
    BY <1>1, <1>2, <1>3, Facts DEF IndInv
  <1>5. /\ ThisDir \in Names /\ Len(ThisDir) = next[2]
        /\ Front(ThisDir) = SubSeq(p, 1, next[2] - 1)
    BY <1>2, <1>3, <1>4 DEF ThisDir
  <1>6. Len(ThisDir) > 1 => Seen(Front(ThisDir))
    <2> SUFFICES ASSUME next[2] > 1 PROVE Seen(SubSeq(p, 1, next[2] - 1))
      BY <1>5
    <2>1. /\ next[2] - 1 \in 1..Len(p) - 1 /\ next[2] - 1 < next[2]
      BY <1>3, <1>4
    <2> QED BY <1>1, <1>2, <2>1 DEF IndInv, ParentsSeen, p
  <1>7. next' \in (Nat \ {0}) \X (Nat \ {0}) /\ stage' \in Stages
    BY <1>1, Facts DEF IndInv
  <1>8. 0 \in 0..Width - 1 /\ "dir" \in Kinds /\ closed' \in BOOLEAN
    BY <1>1, SizesFit, Facts DEF IndInv, Kinds
  <1>9. stage' = "dirs" /\ stage' \notin {"gzip", "done"}
    BY <1>1
  <1>10. TypeOK' /\ Aligned' /\ ParentsFirst' /\ Grown("dir", ThisDir, 0)
    BY <1>1, <1>5, <1>6, <1>7, <1>8, <1>9, EntryWritten, Zenon
  <1>11. (\A q : Seen(q) => Seen(q)') /\ (\A q : q = ThisDir => Seen(q)')
    BY <1>5, <1>8, <1>10, GrownKeeps, Zenon
  <1>12. ParentsSeen'
    BY <1>1, <1>11, DirStep, Zenon
  <1>13. \A i \in DOMAIN out' : out'[i].kind # "trailer"
    <2>1. \A i \in DOMAIN out' : i \in DOMAIN out \/ i = Len(out) + 1
      BY <1>10 DEF Grown
    <2> QED BY <1>1, <1>10, <2>1 DEF Grown, IndInv, FilesWritten
  <1>14. BaseWritten' /\ FilesWritten'
    BY <1>1, <1>9, <1>11, <1>13, DirsStep
  <1> QED BY <1>10, <1>12, <1>14 DEF IndInv

\* A directory that was seen.
LEMMA SkipDirectoryStep ==
    ASSUME IndInv, SkipDirectory
    PROVE  IndInv'
  <1>1. /\ stage = "dirs" /\ stage' = "dirs" /\ next[1] <= Len(extras)
        /\ next[2] <= Len(ThisParents) /\ Seen(ThisDir)
        /\ next' = <<next[1], next[2] + 1>>
        /\ UNCHANGED <<extras, initSize, stage, out, offset, closed>>
    BY DEF SkipDirectory
  <1>2. next' \in (Nat \ {0}) \X (Nat \ {0}) /\ stage' \in Stages
    BY <1>1, Facts DEF IndInv
  <1>3. TypeOK' /\ Aligned' /\ ParentsFirst' /\ \A q : Seen(q)' <=> Seen(q)
    BY <1>1, <1>2, NothingWritten
  <1>4. (\A q : Seen(q) => Seen(q)') /\ (\A q : q = ThisDir => Seen(q)')
    BY <1>1, <1>3, Zenon
  <1>5. ParentsSeen'
    BY <1>1, <1>4, DirStep, Zenon
  <1>6. \A i \in DOMAIN out' : out'[i].kind # "trailer"
    BY <1>1 DEF IndInv, FilesWritten
  <1>7. BaseWritten' /\ FilesWritten'
    BY <1>1, <1>4, <1>6, DirsStep
  <1> QED BY <1>3, <1>5, <1>7 DEF IndInv

\* The next extra file, or the device nodes.
LEMMA NextExtraStep ==
    ASSUME IndInv, NextExtra
    PROVE  IndInv'
  <1>1. /\ stage = "dirs"
        /\ UNCHANGED <<extras, initSize, out, offset, closed>>
        /\ \/ /\ next[1] <= Len(extras) /\ next[2] > Len(ThisParents)
              /\ next' = <<next[1] + 1, 1>> /\ stage' = "dirs"
           \/ /\ ~ (next[1] <= Len(extras))
              /\ next' = <<1, 1>> /\ stage' = "nodes"
    BY DEF NextExtra, Goto
  <1>2. /\ next' \in (Nat \ {0}) \X (Nat \ {0}) /\ stage' \in Stages
        /\ stage' \notin {"gzip", "done"}
    BY <1>1, Facts DEF IndInv, Stages
  <1>3. TypeOK' /\ Aligned' /\ ParentsFirst' /\ \A q : Seen(q)' <=> Seen(q)
    BY <1>1, <1>2, NothingWritten
  <1>4. \A q : Seen(q) => Seen(q)'
    BY <1>3, Zenon
  <1>5. \A i \in DOMAIN out' : out'[i].kind # "trailer"
    BY <1>1 DEF IndInv, FilesWritten
  <1>6. BaseWritten' /\ FilesWritten'
    <2>1. stage' = "nodes" => next'[1] = 1
      BY <1>1
    <2>2. stage' \in {"dirs", "nodes"}
      BY <1>1
    <2> QED BY <1>1, <1>4, <1>5, <2>1, <2>2, DirsStep
  <1>7. ASSUME NEW k \in DOMAIN extras, NEW d \in 1..Len(extras[k].path) - 1,
               k < next[1] \/ k = next[1]
        PROVE  Seen(SubSeq(extras[k].path, 1, d))
    <2>1. Len(extras[k].path) \in Nat \ {0}
      BY ExtraFacts DEF IndInv
    <2>2. CASE k < next[1]
      BY <1>1, <2>2 DEF IndInv, ParentsSeen
    <2>3. CASE k = next[1]
      <3>1. next[1] <= Len(extras) /\ next[2] > Len(ThisParents)
        BY <1>1, <2>3, Facts DEF IndInv
      <3>2. Len(ThisParents) = Len(extras[k].path) - 1
        BY <1>1, <2>3, <3>1, DirFacts
      <3>3. d < next[2]
        BY <2>1, <3>1, <3>2, Facts DEF IndInv
      <3> QED BY <1>1, <2>3, <3>3 DEF IndInv, ParentsSeen
    <2> QED BY <1>7, <2>2, <2>3
  <1>8. ParentsSeen'
    <2>1. CASE next' = <<next[1] + 1, 1>> /\ stage' = "dirs"
      <3>1. next'[1] = next[1] + 1 /\ next'[2] = 1
        BY <2>1
      <3>2. ASSUME NEW k \in DOMAIN extras, NEW d \in 1..Len(extras[k].path) - 1,
                   k < next'[1] \/ (k = next'[1] /\ d < next'[2])
            PROVE  Seen(SubSeq(extras[k].path, 1, d))'
        <4>1. Len(extras[k].path) \in Nat \ {0}
          BY ExtraFacts DEF IndInv
        <4>2. k < next[1] \/ k = next[1]
          BY <3>1, <3>2, <4>1, Facts DEF IndInv
        <4>3. Seen(SubSeq(extras[k].path, 1, d))
          BY <1>7, <4>2
        <4>4. extras' = extras
          BY <1>1
        <4> QED BY <1>4, <4>3, <4>4
      <3> QED BY <1>1, <2>1, <3>2 DEF ParentsSeen
    <2>2. CASE ~ (next[1] <= Len(extras)) /\ stage' = "nodes"
      <3>1. \A k \in DOMAIN extras : k < next[1]
        BY <2>2, Facts DEF IndInv
      <3>2. ASSUME NEW k \in DOMAIN extras, NEW d \in 1..Len(extras[k].path) - 1
            PROVE  Seen(SubSeq(extras[k].path, 1, d))'
        <4>1. Seen(SubSeq(extras[k].path, 1, d))
          BY <1>7, <3>1
        <4>2. extras' = extras
          BY <1>1
        <4> QED BY <1>4, <4>1, <4>2
      <3> QED BY <1>1, <2>2, <3>2 DEF ParentsSeen
    <2> QED BY <1>1, <2>1, <2>2
  <1> QED BY <1>3, <1>6, <1>8 DEF IndInv

\* What a step behind the directories keeps: they are all there.
LEMMA DirsKept ==
    ASSUME IndInv, stage \in {"nodes", "init", "files"},
           stage' \in {"nodes", "init", "files", "gzip"},
           UNCHANGED extras, stage' = "nodes" => next'[1] \in 1..2,
           \A q : Seen(q) => Seen(q)'
    PROVE  BaseWritten' /\ ParentsSeen'
  <1>1. BaseWritten'
    BY DEF IndInv, BaseWritten
  <1>2. ASSUME NEW k \in DOMAIN extras, NEW d \in 1..Len(extras[k].path) - 1
        PROVE  Seen(SubSeq(extras[k].path, 1, d))'
    <2>1. Seen(SubSeq(extras[k].path, 1, d))
      BY DEF IndInv, ParentsSeen
    <2>2. extras' = extras
      OBVIOUS
    <2> QED BY <2>1, <2>2
  <1>3. ParentsSeen'
    BY <1>2 DEF ParentsSeen
  <1> QED BY <1>1, <1>3

\* No entry but the trailer is one.
LEMMA NoTrailerYet ==
    ASSUME IndInv, stage \notin {"gzip", "done", "failed"},
           NEW kind \in Kinds, NEW path, NEW size, Grown(kind, path, size),
           kind # "trailer"
    PROVE  \A i \in DOMAIN out' : out'[i].kind # "trailer"
  <1>1. \A i \in DOMAIN out' : i \in DOMAIN out \/ i = Len(out) + 1
    BY DEF Grown
  <1> QED BY <1>1 DEF Grown, IndInv, FilesWritten

\* A device node.
LEMMA AddCharDeviceStep ==
    ASSUME IndInv, AddCharDevice
    PROVE  IndInv'
  <1> DEFINE n == next[1]
             p == <<"dev", Nodes[n]>>
  <1>1. /\ stage = "nodes" /\ Add("node", p, 0)
        /\ UNCHANGED <<extras, initSize, closed>>
    BY DEF AddCharDevice
  <1>2. n \in 1..2 /\ Seen(<<"dev">>) /\ ~closed
    BY <1>1 DEF IndInv, BaseWritten, FilesWritten
  <1>3. \/ n < 2 /\ next' = <<n + 1, 1>> /\ stage' = "nodes"
        \/ n = 2 /\ next' = <<1, 1>> /\ stage' = "init"
    BY <1>1, <1>2, FixedPaths DEF AddCharDevice, Goto
  <1>4. p \in Names /\ Front(p) = <<"dev">>
    BY <1>2, FixedPaths
  <1>5. /\ next' \in (Nat \ {0}) \X (Nat \ {0}) /\ stage' \in Stages
        /\ stage' \in {"nodes", "init"} /\ stage' \notin {"gzip", "done"}
        /\ stage' = "nodes" => next'[1] \in 1..2
    BY <1>2, <1>3 DEF Stages
  <1>6. 0 \in 0..Width - 1 /\ "node" \in Kinds /\ closed' \in BOOLEAN
    BY <1>1, SizesFit, Facts DEF IndInv, Kinds
  <1> HIDE DEF p
  <1>7. TypeOK' /\ Aligned' /\ ParentsFirst' /\ Grown("node", p, 0)
    <2>1. Len(p) > 1 => Seen(Front(p))
      BY <1>2, <1>4, Zenon
    <2>2. "node" # "dir"
      OBVIOUS
    <2> QED BY <1>1, <1>4, <1>5, <1>6, <2>1, <2>2, EntryWritten, Zenon
  <1>8. \A q : Seen(q) => Seen(q)'
    BY <1>4, <1>6, <1>7, GrownKeeps, Zenon
  <1>9. BaseWritten' /\ ParentsSeen'
    BY <1>1, <1>5, <1>8, DirsKept
  <1>10. \A i \in DOMAIN out' : out'[i].kind # "trailer"
    BY <1>1, <1>6, <1>7, NoTrailerYet
  <1>11. FilesWritten'
    BY <1>1, <1>2, <1>5, <1>10 DEF FilesWritten
  <1> QED BY <1>7, <1>9, <1>11 DEF IndInv

\* The init binary.
LEMMA AddInitStep ==
    ASSUME IndInv, AddInit
    PROVE  IndInv'
  <1>1. /\ stage = "init" /\ stage' = "files" /\ next' = <<1, 1>>
        /\ Add("file", <<"init">>, initSize)
        /\ UNCHANGED <<extras, initSize, closed>>
    BY DEF AddInit, Goto
  <1>2. <<"init">> \in Names /\ ~ (Len(<<"init">>) > 1)
    BY FixedPaths
  <1>3. /\ next' \in (Nat \ {0}) \X (Nat \ {0}) /\ stage' \in Stages
        /\ next'[1] = 1 /\ stage' \notin {"gzip", "done"}
    BY <1>1 DEF Stages
  <1>4. /\ initSize \in 0..Width - 1 /\ "file" \in Kinds /\ closed' \in BOOLEAN
        /\ ~closed
    BY <1>1, Facts DEF IndInv, Kinds, FilesWritten
  <1>5. /\ TypeOK' /\ Aligned' /\ ParentsFirst'
        /\ Grown("file", <<"init">>, initSize)
    <2>1. "file" # "dir"
      OBVIOUS
    <2> QED BY <1>1, <1>2, <1>3, <1>4, <2>1, EntryWritten, Zenon
  <1>6. (\A q : Seen(q) => Seen(q)') /\ HasInit'
    <2>1. initSize' = initSize
      BY <1>1
    <2> QED BY <1>2, <1>4, <1>5, <2>1, GrownKeeps, Zenon
  <1>7. BaseWritten' /\ ParentsSeen'
    BY <1>1, <1>6, DirsKept
  <1>8. \A i \in DOMAIN out' : out'[i].kind # "trailer"
    BY <1>1, <1>4, <1>5, NoTrailerYet
  <1>9. \A k \in DOMAIN extras' : ~ (k < next'[1])
    BY <1>1, <1>3, Facts DEF IndInv
  <1>10. FilesWritten'
    BY <1>1, <1>4, <1>6, <1>8, <1>9, Zenon DEF FilesWritten
  <1> QED BY <1>5, <1>7, <1>10 DEF IndInv

\* An extra file: its directory is there.
LEMMA AddFileStep ==
    ASSUME IndInv, AddFile
    PROVE  IndInv'
  <1> DEFINE n == next[1]
             x == extras[n]
  <1>1. /\ stage = "files" /\ stage' = "files" /\ n <= Len(extras)
        /\ Add("file", x.path, x.size) /\ next' = <<n + 1, 1>>
        /\ UNCHANGED <<extras, initSize, closed>>
    BY DEF AddFile
  <1>2. n \in DOMAIN extras /\ n \in Nat \ {0}
    BY <1>1, Facts DEF IndInv
  <1>3. /\ x.path \in Names /\ x.size \in 0..Width - 1
        /\ Len(x.path) \in Nat \ {0}
        /\ Front(x.path) = SubSeq(x.path, 1, Len(x.path) - 1)
    BY <1>2, ExtraFacts DEF IndInv
  <1>4. Len(x.path) > 1 => Seen(Front(x.path))
    <2> SUFFICES ASSUME Len(x.path) > 1
                 PROVE  Seen(SubSeq(x.path, 1, Len(x.path) - 1))
      BY <1>3
    <2>1. Len(x.path) - 1 \in 1..Len(x.path) - 1
      BY <1>3
    <2> QED BY <1>1, <1>2, <2>1 DEF IndInv, ParentsSeen
  <1>5. /\ next' \in (Nat \ {0}) \X (Nat \ {0}) /\ stage' \in Stages
        /\ next'[1] = n + 1 /\ stage' \notin {"gzip", "done"}
    BY <1>1, <1>2 DEF Stages
  <1>6. "file" \in Kinds /\ closed' \in BOOLEAN /\ ~closed
    BY <1>1, Facts DEF IndInv, Kinds, FilesWritten
  <1> HIDE DEF x
  <1>7. TypeOK' /\ Aligned' /\ ParentsFirst' /\ Grown("file", x.path, x.size)
    <2>1. "file" # "dir"
      OBVIOUS
    <2> QED BY <1>1, <1>3, <1>4, <1>5, <1>6, <2>1, EntryWritten, Zenon
  <1>8. /\ \A q : Seen(q) => Seen(q)'
        /\ \A y : HasFile(y) => HasFile(y)'
        /\ \A y : y.path = x.path /\ y.size = x.size => HasFile(y)'
        /\ HasInit => HasInit'
    BY <1>1, <1>3, <1>6, <1>7, GrownKeeps, Zenon
  <1>9. BaseWritten' /\ ParentsSeen'
    BY <1>1, <1>8, DirsKept
  <1>10. \A i \in DOMAIN out' : out'[i].kind # "trailer"
    BY <1>1, <1>6, <1>7, NoTrailerYet
  <1>11. ASSUME NEW k \in DOMAIN extras, k < next'[1]
         PROVE  HasFile(extras[k])'
    <2>1. k < n \/ k = n
      BY <1>2, <1>5, <1>11, Facts DEF IndInv
    <2>2. extras' = extras
      BY <1>1
    <2>3. CASE k < n
      <3>1. HasFile(extras[k])
        BY <1>1, <2>3 DEF IndInv, FilesWritten
      <3> QED BY <1>8, <2>2, <3>1
    <2>4. CASE k = n
      BY <1>8, <2>2, <2>4 DEF x
    <2> QED BY <2>1, <2>3, <2>4
  <1>12. HasInit'
    BY <1>1, <1>8 DEF IndInv, FilesWritten
  <1>13. FilesWritten'
    BY <1>1, <1>6, <1>10, <1>11, <1>12 DEF FilesWritten
  <1> QED BY <1>7, <1>9, <1>13 DEF IndInv

\* The trailer ends the archive.
LEMMA CloseStep ==
    ASSUME IndInv, Close
    PROVE  IndInv'
  <1>1. /\ stage = "files" /\ stage' = "gzip" /\ next' = <<1, 1>>
        /\ next[1] > Len(extras) /\ closed' = TRUE
        /\ Add("trailer", Trailer, 0) /\ UNCHANGED <<extras, initSize>>
    BY DEF Close, Goto
  <1>2. Trailer \in Names /\ ~ (Len(Trailer) > 1)
    BY FixedPaths
  <1>3. next' \in (Nat \ {0}) \X (Nat \ {0}) /\ stage' \in Stages
    BY <1>1 DEF Stages
  <1>4. 0 \in 0..Width - 1 /\ "trailer" \in Kinds
    BY SizesFit DEF Kinds
  <1>5. closed' \in BOOLEAN /\ closed' /\ "trailer" # "dir"
    BY <1>1, Zenon
  <1>6. TypeOK' /\ Aligned' /\ ParentsFirst' /\ Grown("trailer", Trailer, 0)
    BY <1>1, <1>2, <1>3, <1>4, <1>5, EntryWritten, Zenon
  <1>7. /\ \A q : Seen(q) => Seen(q)'
        /\ \A y : HasFile(y) => HasFile(y)'
        /\ HasInit => HasInit'
    BY <1>1, <1>2, <1>4, <1>6, GrownKeeps, Zenon
  <1>8. BaseWritten' /\ ParentsSeen'
    BY <1>1, <1>7, DirsKept
  <1>9. \A i \in DOMAIN out' : out'[i].kind = "trailer" <=> i = Len(out')
    <2>1. \A i \in DOMAIN out' : i \in DOMAIN out \/ i = Len(out) + 1
      BY <1>6 DEF Grown
    <2>2. \A i \in DOMAIN out : i # Len(out')
      BY <1>6 DEF Grown
    <2>3. \A i \in DOMAIN out : out[i].kind # "trailer"
      BY <1>1 DEF IndInv, FilesWritten
    <2> QED BY <1>6, <2>1, <2>2, <2>3 DEF Grown
  <1>10. ASSUME NEW k \in DOMAIN extras
         PROVE  HasFile(extras[k])'
    <2>1. k < next[1]
      BY <1>1, Facts DEF IndInv
    <2>2. HasFile(extras[k])
      BY <1>1, <2>1 DEF IndInv, FilesWritten
    <2>3. extras' = extras
      BY <1>1
    <2> QED BY <1>7, <2>2, <2>3
  <1>11. HasInit'
    BY <1>1, <1>7 DEF IndInv, FilesWritten
  <1>12. FilesWritten'
    BY <1>1, <1>9, <1>10, <1>11 DEF FilesWritten
  <1> QED BY <1>6, <1>8, <1>12 DEF IndInv

\* The gzip stream is closed.
LEMMA CloseGzipStep ==
    ASSUME IndInv, CloseGzip
    PROVE  IndInv'
  <1>1. /\ stage = "gzip" /\ stage' = "done" /\ next' = <<1, 1>>
        /\ UNCHANGED <<extras, initSize, out, offset, closed>>
    BY DEF CloseGzip, Goto
  <1>2. next' \in (Nat \ {0}) \X (Nat \ {0}) /\ stage' \in Stages /\ closed
    BY <1>1 DEF Stages, IndInv, TypeOK
  <1>3. /\ TypeOK' /\ Aligned' /\ ParentsFirst'
        /\ \A q : Seen(q)' <=> Seen(q)
        /\ \A x : HasFile(x)' <=> HasFile(x)
        /\ HasInit' <=> HasInit
    BY <1>1, <1>2, NothingWritten
  <1>4. BaseWritten' /\ ParentsSeen'
    BY <1>1, <1>3 DEF IndInv, BaseWritten, ParentsSeen
  <1>5. FilesWritten'
    BY <1>1, <1>3 DEF IndInv, FilesWritten
  <1> QED BY <1>3, <1>4, <1>5 DEF IndInv

-----------------------------------------------------------------------------
(* The theorems *)

\* A run starts with nothing written.
LEMMA IndInit == Init => IndInv
  <1> SUFFICES ASSUME Init PROVE IndInv
    OBVIOUS
  <1> DEFINE X == [path : Paths, size : Sizes]
  <1>1. extras \in Seq(X)
    <2>1. PICK m \in 0..MaxExtras : extras \in [1..m -> X]
      BY Zenon DEF Init, BoundedSeq, SeqOf
    <2>2. m \in Nat
      BY ExtrasBound
    <2> HIDE DEF X
    <2> QED BY <2>1, <2>2
  <1>2. out = <<>> /\ DOMAIN out = {} /\ offset = 0 /\ stage = "read"
    BY DEF Init
  <1>3. out \in Seq(Entries)
    BY <1>2, EmptySeq
  <1>4. next \in (Nat \ {0}) \X (Nat \ {0}) /\ offset \in Nat
    BY DEF Init
  <1>5. closed \in BOOLEAN
    BY Zenon DEF Init
  <1>6. TypeOK
    BY <1>1, <1>2, <1>3, <1>4, <1>5 DEF Init, TypeOK, Entries, Kinds
  <1>7. Aligned /\ ParentsFirst
    BY <1>2 DEF Aligned, ReadsBack, ParentsFirst
  <1>8. BaseWritten /\ ParentsSeen
    BY <1>2 DEF BaseWritten, ParentsSeen
  <1>9. FilesWritten
    BY <1>2 DEF Init, FilesWritten
  <1> QED BY <1>6, <1>7, <1>8, <1>9 DEF IndInv

\* Every step keeps the inductive invariant.
LEMMA IndStep == IndInv /\ [Next]_vars => IndInv'
  <1> SUFFICES ASSUME IndInv, [Next]_vars PROVE IndInv'
    OBVIOUS
  <1>1. CASE UNCHANGED vars
    <2>1. /\ TypeOK' /\ Aligned' /\ ParentsFirst'
          /\ \A q : Seen(q)' <=> Seen(q)
          /\ \A x : HasFile(x)' <=> HasFile(x)
          /\ HasInit' <=> HasInit
      BY <1>1, NothingWritten, Facts DEF vars, IndInv, TypeOK
    <2>2. BaseWritten' /\ ParentsSeen' /\ FilesWritten'
      BY <1>1, <2>1 DEF vars, IndInv, BaseWritten, ParentsSeen, FilesWritten
    <2> QED BY <2>1, <2>2 DEF IndInv
  <1>2. CASE Next
    BY <1>2, ReadInputsStep, RunFailsStep, AddBaseStep, AddDirectoryStep,
       SkipDirectoryStep, NextExtraStep, AddCharDeviceStep, AddInitStep,
       AddFileStep, CloseStep, CloseGzipStep, Zenon DEF Next
  <1> QED BY <1>1, <1>2

\* Every reachable archive satisfies the inductive invariant: aligned, with base,
\* parents and files as far as writeArchive has come.
THEOREM Inductive == Spec => []IndInv
  BY IndInit, IndStep, PTL DEF Spec

\* Every reachable state has its type (TypeOK).
THEOREM TypeCorrect == Spec => []TypeOK
  <1>1. IndInv => TypeOK
    BY DEF IndInv
  <1> QED BY <1>1, Inductive, PTL

\* Writer.add and pad4: the kernel finds every entry where the writer put it
\* (ReadsBack), whatever the lengths of names and files.
THEOREM KernelReadsBack == Spec => []ReadsBack
  <1>1. IndInv => ReadsBack
    BY DEF IndInv, Aligned
  <1> QED BY <1>1, Inductive, PTL

\* addExtraDirectories and writeArchive: every entry comes after its
\* directory, and no directory is made twice (ParentsFirst).
THEOREM DirectoriesFirst == Spec => []ParentsFirst
  <1>1. IndInv => ParentsFirst
    BY DEF IndInv
  <1> QED BY <1>1, Inductive, PTL

\* run: success means a whole archive (ArchiveComplete).
THEOREM SuccessIsComplete == Spec => []ArchiveComplete
  <1>1. IndInv => ArchiveComplete
    BY DEF IndInv, FilesWritten, HasFile, HasInit, ArchiveComplete
  <1> QED BY <1>1, Inductive, PTL
=============================================================================
