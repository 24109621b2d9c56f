--------------------------- MODULE LogStoreProofs ---------------------------
(***************************************************************************)
(* Proofs about LogStore, for any goroutines, texts and chunks and any     *)
(* number of writes.                                                       *)
(***************************************************************************)
EXTENDS LogStore, SequenceTheorems, WellFoundedInduction, TLAPS

\* The buffer is the end of the stream and begins behind a newline.
BufferIsTail ==
    /\ Len(buf) <= Len(stream)
    /\ \A i \in DOMAIN buf : buf[i] = stream[Consumed + i]
    /\ Consumed = 0 \/ stream[Consumed] = Newline

\* What a goroutine has cut and not yet inserted is the newest line cut, as it
\* should be stored, and no row is as new.
LineInHand ==
    \A g \in Loggers : At(g, "insert") =>
        /\ line[g].at = Consumed /\ line[g].at \in Newlines(stream)
        /\ line[g].text = LineAt(stream, line[g].at)
        /\ \A k \in DOMAIN rows : rows[k].at < Consumed

\* Rows come from the part of the stream that was cut.
RowsAreCut == \A k \in DOMAIN rows : rows[k].at <= Consumed

\* Every newline of that part is accounted for (NothingLost).
Accounted ==
    \A i \in Newlines(stream) :
        \/ i > Consumed
        \/ LineAt(stream, i) = <<>>
        \/ i \in dropped
        \/ \E k \in DOMAIN rows : rows[k].at = i
        \/ \E g \in Loggers : At(g, "insert") /\ line[g].at = i

\* The inductive invariant.
IndInv ==
    /\ TypeOK
    /\ BufferIsTail
    /\ LineInHand
    /\ RowsAreCut
    /\ RowsAreLines
    /\ Accounted

-----------------------------------------------------------------------------
(* Smallest and largest elements *)

\* Every set of natural numbers has a smallest one, because < is well-founded.
LEMMA SmallestOf ==
    ASSUME NEW S \in SUBSET Nat, S # {}
    PROVE  \E m \in S : \A x \in S : m <= x
  <1> DEFINE R == OpToRel(<, Nat)
  <1>1. IsWellFoundedOn(R, Nat)
    BY NatLessThanWellFounded
  <1>2. \A x, y \in Nat : <<x, y>> \in R <=> x < y
    BY DEF OpToRel
  <1> HIDE DEF R
  <1>3. PICK m \in S : \A y \in S : ~ (<<y, m>> \in R)
    BY <1>1, WFMin, Zenon
  <1>4. \A y \in S : ~ (y < m)
    BY <1>2, <1>3
  <1> QED BY <1>4

\* Min finds the smallest number of a set.
LEMMA MinIs ==
    ASSUME NEW S \in SUBSET Nat, S # {}
    PROVE  Min(S) \in S /\ \A x \in S : Min(S) <= x
  BY SmallestOf DEF Min

\* Max finds the largest of a set with a bound.
LEMMA MaxIs ==
    ASSUME NEW n \in Nat, NEW S \in SUBSET (0..n), S # {}
    PROVE  Max(S) \in S /\ \A x \in S : x <= Max(S)
  <1> DEFINE R == {n - x : x \in S}
  <1>1. R \in SUBSET Nat /\ R # {}
    OBVIOUS
  <1>2. PICK r \in R : \A y \in R : r <= y
    BY <1>1, SmallestOf
  <1>3. PICK m \in S : r = n - m
    BY <1>2
  <1>4. \A x \in S : m >= x
    <2> SUFFICES ASSUME NEW x \in S PROVE m >= x
      OBVIOUS
    <2>1. n - m <= n - x
      BY <1>2, <1>3
    <2>2. m \in 0..n /\ x \in 0..n
      OBVIOUS
    <2> QED BY <2>1, <2>2
  <1>5. Max(S) \in S /\ \A x \in S : Max(S) >= x
    BY <1>4 DEF Max
  <1>6. \A x \in S : x \in 0..n
    OBVIOUS
  <1> HIDE DEF R
  <1> QED BY <1>5, <1>6

\* A largest element is what Max finds.
LEMMA MaxIsUnique ==
    ASSUME NEW S \in SUBSET Nat, NEW m \in S, \A x \in S : x <= m
    PROVE  Max(S) = m
  <1>1. \E x \in S : \A y \in S : x >= y
    OBVIOUS
  <1>2. Max(S) \in S /\ \A x \in S : Max(S) >= x
    BY <1>1, Zenon DEF Max
  <1>3. PICK k \in S : k = Max(S)
    BY <1>2
  <1> HIDE DEF Max
  <1>4. k >= m /\ k <= m
    BY <1>2, <1>3
  <1>5. k = m
    BY <1>4
  <1> QED BY <1>3, <1>5

-----------------------------------------------------------------------------
(* Lines *)

\* Trimming a line gives a line.
LEMMA TrimType ==
    ASSUME NEW s \in Seq(Tokens)
    PROVE  Trim(s) \in Seq(Tokens)
  <1> DEFINE ink == {i \in DOMAIN s : s[i] \notin {Blank, Newline}}
  <1>1. Trim(s) = IF ink = {} THEN <<>> ELSE SubSeq(s, Min(ink), Max(ink))
    BY DEF Trim
  <1>2. CASE ink = {}
    BY <1>1, <1>2
  <1>3. CASE ink # {}
    <2>1. Len(s) \in Nat /\ DOMAIN s = 1..Len(s)
      BY LenProperties
    <2>2. ink \in SUBSET Nat /\ ink \in SUBSET (0..Len(s))
      BY <2>1
    <2>3. Min(ink) \in ink /\ Max(ink) \in ink
      BY <1>3, <2>1, <2>2, MinIs, MaxIs
    <2>4. Min(ink) \in 1..Len(s) /\ Max(ink) \in 1..Len(s)
      BY <2>1, <2>3
    <2> HIDE DEF ink
    <2>5. \A i \in Min(ink)..Max(ink) : s[i] \in Tokens
      BY <2>1, <2>4
    <2>6. SubSeq(s, Min(ink), Max(ink)) \in Seq(Tokens)
      BY <2>4, <2>5, SubSeqProperties
    <2> QED BY <1>1, <1>3, <2>6
  <1> QED BY <1>2, <1>3

\* What is appended to the stream changes none of its lines.
LEMMA LineIsStable ==
    ASSUME NEW s \in Seq(Tokens), NEW t \in Seq(Tokens), NEW i \in 1..Len(s)
    PROVE  LineAt(s \o t, i) = LineAt(s, i)
  <1>1. /\ Len(s) \in Nat /\ Len(t) \in Nat /\ DOMAIN s = 1..Len(s)
        /\ DOMAIN (s \o t) = 1..(Len(s) + Len(t))
        /\ \A j \in 1..Len(s) : (s \o t)[j] = s[j]
    BY LenProperties, ConcatProperties
  <1> DEFINE K == {0} \cup {j \in Newlines(s) : j < i}
  <1>2. {0} \cup {j \in Newlines(s \o t) : j < i} = K
    BY <1>1 DEF Newlines
  <1>3. K \in SUBSET (0..(i - 1)) /\ K # {} /\ i - 1 \in Nat
    BY <1>1 DEF Newlines
  <1> HIDE DEF K
  <1>4. Max(K) \in 0..(i - 1)
    BY <1>3, MaxIs
  <1>5. SubSeq(s \o t, 1 + Max(K), i - 1) = SubSeq(s, 1 + Max(K), i - 1)
    <2>1. CASE 1 + Max(K) > i - 1
      BY <1>4, <2>1, SubSeqEmpty
    <2>2. CASE 1 + Max(K) <= i - 1
      <3>1. 1 + Max(K) \in 1..Len(s) /\ i - 1 \in 1..Len(s)
        BY <1>1, <1>4, <2>2
      <3> QED BY <3>1, SubSeqOfConcat1
    <2> QED BY <1>4, <2>1, <2>2
  <1> QED BY <1>2, <1>5 DEF LineAt, K

\* Cutting the buffer at its first newline gives the line of the stream that
\* this newline ends.
LEMMA CutIsLine ==
    ASSUME NEW s \in Seq(Tokens), NEW b \in Seq(Tokens), NEW c \in Nat,
           c + Len(b) = Len(s), \A i \in DOMAIN b : b[i] = s[c + i],
           c = 0 \/ s[c] = Newline,
           NEW n \in Newlines(b), \A j \in Newlines(b) : n <= j
    PROVE  /\ c + n \in Newlines(s)
           /\ LineAt(s, c + n) = Trim(SubSeq(b, 1, n - 1))
           /\ \A i \in Newlines(s) : i <= c \/ i >= c + n
  <1>1. /\ Len(s) \in Nat /\ Len(b) \in Nat
        /\ DOMAIN s = 1..Len(s) /\ DOMAIN b = 1..Len(b)
    BY LenProperties
  <1>2. n \in 1..Len(b) /\ b[n] = Newline
    BY <1>1 DEF Newlines
  <1>3. c + n \in 1..Len(s) /\ s[c + n] = Newline
    BY <1>1, <1>2
  <1>4. ASSUME NEW i \in Newlines(s), i > c
        PROVE  i >= c + n
    <2>1. i \in 1..Len(s) /\ s[i] = Newline
      BY <1>1 DEF Newlines
    <2>2. i - c \in 1..Len(b) /\ c + (i - c) = i
      BY <1>1, <1>4, <2>1
    <2>3. i - c \in Newlines(b)
      BY <1>1, <2>1, <2>2 DEF Newlines
    <2> QED BY <1>2, <2>1, <2>2, <2>3
  <1>5. \A i \in Newlines(s) : i \in Nat
    BY <1>1 DEF Newlines
  <1> DEFINE K == {0} \cup {j \in Newlines(s) : j < c + n}
  <1>6. Max(K) = c
    <2>1. K \in SUBSET Nat
      BY <1>5
    <2>2. c \in K
      BY <1>1, <1>2 DEF Newlines
    <2>3. \A k \in K : k <= c
      BY <1>2, <1>4, <1>5
    <2> HIDE DEF K
    <2> QED BY <2>1, <2>2, <2>3, MaxIsUnique
  <1>7. SubSeq(s, 1 + c, (c + n) - 1) = SubSeq(b, 1, n - 1)
    <2> DEFINE u == SubSeq(s, 1 + c, (c + n) - 1)
               v == SubSeq(b, 1, n - 1)
    <2>1. /\ u \in Seq(Tokens) /\ Len(u) = n - 1
          /\ \A i \in 1..(n - 1) : u[i] = s[c + i]
      <3>1. \A i \in (1 + c)..((c + n) - 1) : s[i] \in Tokens
        BY <1>1, <1>2, <1>3
      <3>2. /\ u \in Seq(Tokens)
            /\ Len(u) = IF 1 + c <= (c + n) - 1 THEN ((c + n) - 1) - (1 + c) + 1
                                              ELSE 0
            /\ \A i \in 1..(((c + n) - 1) - (1 + c) + 1) :
                    u[i] = s[(1 + c) + i - 1]
        BY <1>2, <3>1, SubSeqProperties
      <3>3. \A i \in Nat : (1 + c) + i - 1 = c + i
        OBVIOUS
      <3> HIDE DEF u
      <3> QED BY <1>2, <3>2, <3>3
    <2>2. /\ v \in Seq(Tokens) /\ Len(v) = n - 1
          /\ \A i \in 1..(n - 1) : v[i] = b[i]
      <3>1. \A i \in 1..(n - 1) : b[i] \in Tokens
        BY <1>1, <1>2
      <3>2. /\ v \in Seq(Tokens)
            /\ Len(v) = IF 1 <= n - 1 THEN (n - 1) - 1 + 1 ELSE 0
            /\ \A i \in 1..((n - 1) - 1 + 1) : v[i] = b[1 + i - 1]
        BY <1>2, <3>1, SubSeqProperties
      <3>3. \A i \in Nat : 1 + i - 1 = i
        OBVIOUS
      <3> HIDE DEF v
      <3> QED BY <1>2, <3>2, <3>3
    <2> HIDE DEF u, v
    <2>3. \A i \in 1..(n - 1) : u[i] = v[i]
      <3>1. \A i \in 1..(n - 1) : i \in DOMAIN b
        BY <1>1, <1>2
      <3>2. \A i \in 1..(n - 1) : b[i] = s[c + i]
        BY <3>1
      <3> QED BY <2>1, <2>2, <3>2
    <2>4. u = v
      BY <2>1, <2>2, <2>3, SeqEqual
    <2> QED BY <2>4 DEF u, v
  <1>8. LineAt(s, c + n) = Trim(SubSeq(s, 1 + c, (c + n) - 1))
    <2>1. LineAt(s, c + n) = Trim(SubSeq(s, 1 + Max(K), (c + n) - 1))
      BY DEF LineAt
    <2> HIDE DEF K
    <2> QED BY <1>6, <2>1
  <1>9. c + n \in Newlines(s)
    BY <1>1, <1>3 DEF Newlines
  <1>10. \A i \in Newlines(s) : i <= c \/ i >= c + n
    BY <1>4, <1>5
  <1> QED BY <1>7, <1>8, <1>9, <1>10

\* What is written goes to the end of the stream and to the end of the buffer.
LEMMA TailGrows ==
    ASSUME NEW s \in Seq(Tokens), NEW b \in Seq(Tokens), NEW t \in Seq(Tokens),
           NEW c \in Nat, c + Len(b) = Len(s),
           \A i \in DOMAIN b : b[i] = s[c + i],
           c = 0 \/ s[c] = Newline
    PROVE  /\ s \o t \in Seq(Tokens) /\ b \o t \in Seq(Tokens)
           /\ c + Len(b \o t) = Len(s \o t)
           /\ \A i \in DOMAIN (b \o t) : (b \o t)[i] = (s \o t)[c + i]
           /\ c = 0 \/ (s \o t)[c] = Newline
  <1>1. /\ Len(s) \in Nat /\ Len(b) \in Nat /\ Len(t) \in Nat
        /\ DOMAIN b = 1..Len(b)
    BY LenProperties
  <1>2. /\ s \o t \in Seq(Tokens) /\ Len(s \o t) = Len(s) + Len(t)
        /\ \A i \in 1..(Len(s) + Len(t)) :
              (s \o t)[i] = IF i <= Len(s) THEN s[i] ELSE t[i - Len(s)]
    BY ConcatProperties
  <1>3. /\ b \o t \in Seq(Tokens) /\ Len(b \o t) = Len(b) + Len(t)
        /\ DOMAIN (b \o t) = 1..(Len(b) + Len(t))
        /\ \A i \in 1..(Len(b) + Len(t)) :
              (b \o t)[i] = IF i <= Len(b) THEN b[i] ELSE t[i - Len(b)]
    BY ConcatProperties, LenProperties
  <1>4. ASSUME NEW i \in DOMAIN (b \o t)
        PROVE  (b \o t)[i] = (s \o t)[c + i]
    <2>1. i \in 1..(Len(b) + Len(t)) /\ c + i \in 1..(Len(s) + Len(t))
      BY <1>1, <1>3
    <2>2. CASE i <= Len(b)
      <3>1. c + i <= Len(s) /\ i \in DOMAIN b
        BY <1>1, <2>1, <2>2
      <3>2. (b \o t)[i] = b[i] /\ (s \o t)[c + i] = s[c + i]
        BY <1>2, <1>3, <2>1, <2>2, <3>1
      <3> QED BY <3>1, <3>2
    <2>3. CASE ~ (i <= Len(b))
      <3>1. ~ (c + i <= Len(s)) /\ (c + i) - Len(s) = i - Len(b)
        BY <1>1, <2>1, <2>3
      <3>2. (b \o t)[i] = t[i - Len(b)] /\ (s \o t)[c + i] = t[(c + i) - Len(s)]
        BY <1>2, <1>3, <2>1, <2>3, <3>1
      <3> QED BY <3>1, <3>2
    <2> QED BY <2>2, <2>3
  <1>5. c = 0 \/ (s \o t)[c] = Newline
    <2>1. c = 0 \/ (c \in 1..(Len(s) + Len(t)) /\ c <= Len(s))
      BY <1>1
    <2> QED BY <1>2, <2>1
  <1>6. c + Len(b \o t) = Len(s \o t)
    <2>1. \A p, q, w \in Nat : c + p = q => c + (p + w) = q + w
      OBVIOUS
    <2>2. c + (Len(b) + Len(t)) = Len(s) + Len(t)
      BY <1>1, <2>1, Zenon
    <2>3. Len(b \o t) = Len(b) + Len(t) /\ Len(s \o t) = Len(s) + Len(t)
      BY <1>2, <1>3, Zenon
    <2> QED BY <2>2, <2>3, Zenon
  <1> QED BY <1>2, <1>3, <1>4, <1>5, <1>6

\* What is cut off leaves a buffer that begins behind the newline.
LEMMA TailShrinks ==
    ASSUME NEW s \in Seq(Tokens), NEW b \in Seq(Tokens), NEW c \in Nat,
           c + Len(b) = Len(s), \A i \in DOMAIN b : b[i] = s[c + i],
           NEW n \in Newlines(b), NEW r, r = SubSeq(b, n + 1, Len(b))
    PROVE  /\ r \in Seq(Tokens) /\ Len(r) = Len(b) - n
           /\ \A i \in DOMAIN r : r[i] = s[(c + n) + i]
           /\ s[c + n] = Newline
  <1>1. /\ Len(s) \in Nat /\ Len(b) \in Nat /\ DOMAIN b = 1..Len(b)
    BY LenProperties
  <1>2. n \in 1..Len(b) /\ b[n] = Newline
    BY <1>1 DEF Newlines
  <1>3. \A i \in (n + 1)..Len(b) : b[i] \in Tokens
    BY <1>1, <1>2
  <1>4. /\ r \in Seq(Tokens)
        /\ Len(r) = IF n + 1 <= Len(b) THEN Len(b) - (n + 1) + 1 ELSE 0
        /\ \A i \in 1..(Len(b) - (n + 1) + 1) : r[i] = b[(n + 1) + i - 1]
    BY <1>1, <1>2, <1>3, SubSeqProperties
  <1>5. Len(r) = Len(b) - n
    <2>1. \A w \in Nat : n \in 1..w =>
             (IF n + 1 <= w THEN w - (n + 1) + 1 ELSE 0) = w - n
      OBVIOUS
    <2> QED BY <1>1, <1>2, <1>4, <2>1, Zenon
  <1>6. DOMAIN r = 1..(Len(b) - n)
    BY <1>4, <1>5, LenProperties
  <1>7. ASSUME NEW i \in DOMAIN r
        PROVE  r[i] = s[(c + n) + i]
    <2>1. /\ i \in 1..(Len(b) - (n + 1) + 1) /\ (n + 1) + i - 1 = n + i
          /\ n + i \in DOMAIN b /\ c + (n + i) = (c + n) + i
      BY <1>1, <1>2, <1>6
    <2>2. r[i] = b[n + i]
      BY <1>4, <2>1
    <2>3. b[n + i] = s[c + (n + i)]
      BY <2>1
    <2> QED BY <2>1, <2>2, <2>3
  <1>8. s[c + n] = Newline
    BY <1>1, <1>2
  <1> QED BY <1>4, <1>5, <1>7, <1>8

\* A buffer that agrees with the end of the stream is that end.
LEMMA TailIs ==
    ASSUME NEW s \in Seq(Tokens), NEW b \in Seq(Tokens), NEW c \in Nat,
           c + Len(b) = Len(s), \A i \in DOMAIN b : b[i] = s[c + i]
    PROVE  b = SubSeq(s, c + 1, Len(s))
  <1> DEFINE r == SubSeq(s, c + 1, Len(s))
  <1>1. /\ Len(s) \in Nat /\ Len(b) \in Nat /\ DOMAIN b = 1..Len(b)
        /\ DOMAIN s = 1..Len(s)
    BY LenProperties
  <1>2. \A i \in (c + 1)..Len(s) : s[i] \in Tokens
    BY <1>1
  <1>3. /\ r \in Seq(Tokens)
        /\ Len(r) = IF c + 1 <= Len(s) THEN Len(s) - (c + 1) + 1 ELSE 0
        /\ \A i \in 1..(Len(s) - (c + 1) + 1) : r[i] = s[(c + 1) + i - 1]
    BY <1>1, <1>2, SubSeqProperties
  <1> HIDE DEF r
  <1>4. \A p, q \in Nat : c + p = q =>
            /\ (IF c + 1 <= q THEN q - (c + 1) + 1 ELSE 0) = p
            /\ q - (c + 1) + 1 = p
    OBVIOUS
  <1>5. Len(r) = Len(b) /\ Len(s) - (c + 1) + 1 = Len(b)
    BY <1>1, <1>3, <1>4, Zenon
  <1>6. ASSUME NEW i \in 1..Len(b) PROVE b[i] = r[i]
    <2>1. (c + 1) + i - 1 = c + i
      BY <1>1
    <2>2. r[i] = s[c + i]
      BY <1>3, <1>5, <2>1, Zenon
    <2> QED BY <1>1, <2>2
  <1>7. b = r
    BY <1>3, <1>5, <1>6, SeqEqual
  <1> QED BY <1>7 DEF r

-----------------------------------------------------------------------------
(* The steps *)

\* What the invariant says of the stream and the buffer, as numbers.
LEMMA Facts ==
    ASSUME IndInv
    PROVE  /\ buf \in Seq(Tokens) /\ stream \in Seq(Tokens)
           /\ Len(buf) \in Nat /\ Len(stream) \in Nat
           /\ DOMAIN buf = 1..Len(buf) /\ DOMAIN stream = 1..Len(stream)
           /\ Consumed \in Nat /\ Consumed + Len(buf) = Len(stream)
           /\ Consumed <= Len(stream)
           /\ Newlines(buf) \subseteq Nat /\ Newlines(stream) \subseteq Nat
           /\ rows \in Seq(Row) /\ Len(rows) \in Nat
           /\ DOMAIN rows = 1..Len(rows)
           /\ \A k \in DOMAIN rows : rows[k].at \in Nat
           /\ \A g, h \in Loggers : pc[g] \in {"cut", "insert"}
                    /\ pc[h] \in {"cut", "insert"} => g = h
  <1>1. TypeOK /\ Len(buf) <= Len(stream)
    BY DEF IndInv, BufferIsTail
  <1>2. buf \in Seq(Tokens) /\ stream \in Seq(Tokens) /\ rows \in Seq(Row)
    BY <1>1 DEF TypeOK
  <1>3. /\ Len(buf) \in Nat /\ Len(stream) \in Nat /\ Len(rows) \in Nat
        /\ DOMAIN buf = 1..Len(buf) /\ DOMAIN stream = 1..Len(stream)
        /\ DOMAIN rows = 1..Len(rows)
    BY <1>2, LenProperties
  <1>4. /\ Consumed \in Nat /\ Consumed + Len(buf) = Len(stream)
        /\ Consumed <= Len(stream)
    BY <1>1, <1>3 DEF Consumed
  <1>5. Newlines(buf) \subseteq Nat /\ Newlines(stream) \subseteq Nat
    BY <1>3 DEF Newlines
  <1>6. \A k \in DOMAIN rows : rows[k] \in Row
    BY <1>2, <1>3, ElementOfSeq
  <1>7. \A k \in DOMAIN rows : rows[k].at \in Nat
    BY <1>6 DEF Row
  <1>8. \A g, h \in Loggers : pc[g] \in {"cut", "insert"}
           /\ pc[h] \in {"cut", "insert"} => g = h
    BY <1>1 DEF TypeOK
  <1> QED BY <1>2, <1>3, <1>4, <1>5, <1>7, <1>8

\* A step that leaves the buffer, the table and the lines in hand alone.
LEMMA QuietStep ==
    ASSUME IndInv, TypeOK',
           UNCHANGED <<line, buf, rows, stream, dropped>>,
           \A g \in Loggers : pc'[g] = "insert" <=> pc[g] = "insert"
    PROVE  IndInv'
  <1>1. Consumed' = Consumed
    BY DEF Consumed
  <1>2. BufferIsTail'
    BY <1>1 DEF IndInv, BufferIsTail
  <1>3. LineInHand'
    BY <1>1 DEF IndInv, LineInHand, At
  <1>4. RowsAreCut'
    BY <1>1 DEF IndInv, RowsAreCut
  <1>5. RowsAreLines'
    BY DEF IndInv, RowsAreLines
  <1>6. Accounted'
    BY <1>1 DEF IndInv, Accounted, At
  <1> QED BY <1>2, <1>3, <1>4, <1>5, <1>6 DEF IndInv

\* A message is logged.
LEMMA LogStep ==
    ASSUME IndInv, NEW g \in Loggers, NEW c \in Chunks, Log(g, c)
    PROVE  IndInv'
  <1>1. TypeOK'
    BY WritesType DEF IndInv, TypeOK, Log, At, Goto
  <1>2. \A h \in Loggers : pc'[h] = "insert" <=> pc[h] = "insert"
    BY DEF IndInv, TypeOK, Log, At, Goto
  <1> QED BY <1>1, <1>2, QuietStep DEF Log

\* The console refuses the chunk.
LEMMA ConsoleFailsStep ==
    ASSUME IndInv, NEW g \in Loggers, ConsoleFails(g)
    PROVE  IndInv'
  <1>1. TypeOK'
    BY DEF IndInv, TypeOK, ConsoleFails, At, Goto
  <1>2. \A h \in Loggers : pc'[h] = "insert" <=> pc[h] = "insert"
    BY DEF IndInv, TypeOK, ConsoleFails, At, Goto
  <1> QED BY <1>1, <1>2, QuietStep DEF ConsoleFails

\* The mutex is released.
LEMMA UnlockStep ==
    ASSUME IndInv, NEW g \in Loggers, Unlock(g)
    PROVE  IndInv'
  <1>1. TypeOK'
    BY Facts DEF IndInv, TypeOK, Unlock, At, Goto
  <1>2. \A h \in Loggers : pc'[h] = "insert" <=> pc[h] = "insert"
    BY DEF IndInv, TypeOK, Unlock, At, Goto
  <1> QED BY <1>1, <1>2, QuietStep DEF Unlock

\* Nobody holds a line once its owner has dealt with it.
LEMMA HandsEmpty ==
    ASSUME IndInv, NEW g \in Loggers, At(g, "insert"), Goto(g, "cut")
    PROVE  \A h \in Loggers : ~ At(h, "insert")'
  BY Facts DEF IndInv, TypeOK, At, Goto

\* A blank line is left out.
LEMMA SkipBlankStep ==
    ASSUME IndInv, NEW g \in Loggers, SkipBlank(g)
    PROVE  IndInv'
  <1>1. TypeOK'
    BY DEF IndInv, TypeOK, SkipBlank, At, Goto
  <1>2. \A h \in Loggers : ~ At(h, "insert")'
    BY HandsEmpty DEF SkipBlank
  <1>3. UNCHANGED <<buf, rows, stream, dropped, line>> /\ Consumed' = Consumed
    BY DEF SkipBlank, Consumed
  <1>4. BufferIsTail' /\ RowsAreCut' /\ RowsAreLines'
    BY <1>3 DEF IndInv, BufferIsTail, RowsAreCut, RowsAreLines
  <1>5. LineInHand'
    BY <1>2 DEF LineInHand
  <1>6. \A h \in Loggers : At(h, "insert") => h = g
    BY Facts DEF SkipBlank, At
  <1>7. LineAt(stream, line[g].at) = <<>>
    BY DEF IndInv, LineInHand, SkipBlank
  <1>8. Accounted'
    BY <1>3, <1>6, <1>7 DEF IndInv, Accounted
  <1> QED BY <1>1, <1>4, <1>5, <1>8 DEF IndInv

\* SQLite refuses a line.
LEMMA InsertFailsStep ==
    ASSUME IndInv, NEW g \in Loggers, InsertFails(g)
    PROVE  IndInv'
  <1>1. TypeOK'
    BY DEF IndInv, TypeOK, Line, InsertFails, At, Goto
  <1>2. \A h \in Loggers : ~ At(h, "insert")'
    BY HandsEmpty DEF InsertFails
  <1>3. /\ UNCHANGED <<buf, rows, stream, line>> /\ Consumed' = Consumed
        /\ dropped' = dropped \cup {line[g].at}
    BY DEF InsertFails, Consumed
  <1>4. BufferIsTail' /\ RowsAreCut' /\ RowsAreLines'
    BY <1>3 DEF IndInv, BufferIsTail, RowsAreCut, RowsAreLines
  <1>5. LineInHand'
    BY <1>2 DEF LineInHand
  <1>6. \A h \in Loggers : At(h, "insert") => h = g
    BY Facts DEF InsertFails, At
  <1>7. Accounted'
    BY <1>3, <1>6 DEF IndInv, Accounted
  <1> QED BY <1>1, <1>4, <1>5, <1>7 DEF IndInv

\* A line becomes the last row: it is newer than every row there is.
LEMMA InsertStep ==
    ASSUME IndInv, NEW g \in Loggers, Insert(g)
    PROVE  IndInv'
  <1> DEFINE e == Entry(line[g])
  <1>1. /\ UNCHANGED <<buf, stream, line, dropped>> /\ Consumed' = Consumed
        /\ rows' = Append(rows, e)
    BY DEF Insert, Consumed
  <1>2. line[g].at \in Nat /\ line[g].text \in Seq(Tokens)
    BY DEF IndInv, TypeOK, Line
  <1>3. /\ e \in Row /\ e.at = line[g].at /\ e.text = line[g].text
        /\ e.level = LevelOf(line[g].text)
    BY <1>2 DEF Entry, Row, LevelOf
  <1>4. /\ line[g].at = Consumed /\ line[g].at \in Newlines(stream)
        /\ line[g].text = LineAt(stream, line[g].at)
        /\ \A k \in DOMAIN rows : rows[k].at < Consumed
    BY DEF IndInv, LineInHand, Insert
  <1> HIDE DEF e
  <1>5. /\ rows' \in Seq(Row) /\ DOMAIN rows' = 1..(Len(rows) + 1)
        /\ \A k \in 1..Len(rows) : rows'[k] = rows[k]
        /\ rows'[Len(rows) + 1] = e
    BY <1>1, <1>3, Facts, AppendProperties
  <1>6. TypeOK'
    BY <1>5 DEF IndInv, TypeOK, Insert, At, Goto
  <1>7. \A h \in Loggers : ~ At(h, "insert")'
    BY HandsEmpty DEF Insert
  <1>8. \A k \in DOMAIN rows' : k \in DOMAIN rows \/ k = Len(rows) + 1
    BY <1>5, Facts
  <1>9. \A k \in DOMAIN rows : k \in DOMAIN rows' /\ rows'[k] = rows[k]
    BY <1>5, Facts
  <1>10. BufferIsTail'
    BY <1>1 DEF IndInv, BufferIsTail
  <1>11. LineInHand'
    BY <1>7 DEF LineInHand
  <1>12. RowsAreCut'
    <2> SUFFICES ASSUME NEW k \in DOMAIN rows' PROVE rows'[k].at <= Consumed
      BY <1>1 DEF RowsAreCut
    <2>1. CASE k \in DOMAIN rows
      BY <1>9, <2>1 DEF IndInv, RowsAreCut
    <2>2. CASE k = Len(rows) + 1
      BY <1>3, <1>4, <1>5, <2>2, Facts
    <2> QED BY <1>8, <2>1, <2>2
  <1>13. RowsAreLines'
    <2>1. ASSUME NEW i \in DOMAIN rows', NEW j \in DOMAIN rows', i < j
          PROVE  rows'[i].at < rows'[j].at
      <3>1. i \in DOMAIN rows
        BY <1>5, <2>1, Facts
      <3>2. CASE j \in DOMAIN rows
        BY <1>9, <2>1, <3>1, <3>2 DEF IndInv, RowsAreLines
      <3>3. CASE j = Len(rows) + 1
        BY <1>3, <1>4, <1>5, <1>9, <3>1, <3>3
      <3> QED BY <1>8, <3>2, <3>3
    <2>2. ASSUME NEW i \in DOMAIN rows'
          PROVE  /\ rows'[i].at \in Newlines(stream)
                 /\ rows'[i].text = LineAt(stream, rows'[i].at)
                 /\ rows'[i].level = LevelOf(LineAt(stream, rows'[i].at))
      <3>1. CASE i \in DOMAIN rows
        BY <1>9, <3>1 DEF IndInv, RowsAreLines
      <3>2. CASE i = Len(rows) + 1
        BY <1>3, <1>4, <1>5, <3>2
      <3> QED BY <1>8, <3>1, <3>2
    <2> QED BY <1>1, <2>1, <2>2, Zenon DEF RowsAreLines
  <1>14. Accounted'
    <2>1. \A h \in Loggers : At(h, "insert") => h = g
      BY Facts DEF Insert, At
    <2>2. Len(rows) + 1 \in DOMAIN rows' /\ rows'[Len(rows) + 1].at = line[g].at
      BY <1>3, <1>5, Facts
    <2> QED BY <1>1, <1>9, <2>1, <2>2 DEF IndInv, Accounted
  <1> QED BY <1>6, <1>10, <1>11, <1>12, <1>13, <1>14 DEF IndInv

\* The writer takes a chunk: no line of the stream changes.
LEMMA BufferStep ==
    ASSUME IndInv, NEW g \in Loggers, Buffer(g)
    PROVE  IndInv'
  <1> DEFINE t == chunk[g]
  <1>1. /\ stream' = stream \o t /\ buf' = buf \o t
        /\ UNCHANGED <<line, rows, dropped>>
    BY DEF Buffer
  <1>2. t \in Seq(Tokens)
    <2>1. t \in Chunks \/ t = <<>>
      BY DEF IndInv, TypeOK
    <2>2. CASE t \in Chunks
      <3>1. Chunks \subseteq Seq(Tokens)
        BY ChunksType DEF Tokens
      <3> QED BY <2>2, <3>1
    <2>3. CASE t = <<>>
      BY <2>3, EmptySeq
    <2> QED BY <2>1, <2>2, <2>3
  <1> HIDE DEF t
  <1>3. /\ stream' \in Seq(Tokens) /\ buf' \in Seq(Tokens)
        /\ Consumed + Len(buf') = Len(stream')
        /\ \A i \in DOMAIN buf' : buf'[i] = stream'[Consumed + i]
        /\ Consumed = 0 \/ stream'[Consumed] = Newline
    BY <1>1, <1>2, Facts, TailGrows DEF IndInv, BufferIsTail
  <1>4. Len(buf') \in Nat /\ Len(stream') \in Nat
    BY <1>3, LenProperties
  <1>5. Consumed' = Consumed /\ Len(buf') <= Len(stream')
    <2>1. \A c, p, q \in Nat : c + p = q => q - p = c /\ p <= q
      OBVIOUS
    <2>2. Len(stream') - Len(buf') = Consumed /\ Len(buf') <= Len(stream')
      BY <1>3, <1>4, <2>1, Facts, Zenon
    <2> QED BY <2>2, Zenon DEF Consumed
  <1>6. TypeOK'
    <2>1. /\ stream' \in Seq(Tokens) /\ buf' \in Seq(Tokens)
      BY <1>3
    <2>2. /\ pc' \in [Loggers -> {"idle", "console", "cut", "insert"}]
          /\ owner' = g
          /\ \A h \in Loggers : pc'[h] \in {"cut", "insert"} => h = g
      BY NoneIsNoLogger DEF IndInv, TypeOK, Buffer, MayLock, At, Goto
    <2>3. UNCHANGED <<chunk, line, rows, lastError, dropped, writes>>
      BY DEF Buffer
    <2> QED BY <2>1, <2>2, <2>3, Zenon DEF IndInv, TypeOK
  <1>7. \A h \in Loggers : ~ At(h, "insert") /\ ~ At(h, "insert")'
    BY NoneIsNoLogger DEF IndInv, TypeOK, Buffer, MayLock, At, Goto
  <1>8. BufferIsTail'
    BY <1>3, <1>5 DEF BufferIsTail
  <1>9. LineInHand'
    BY <1>7 DEF LineInHand
  <1>10. RowsAreCut'
    BY <1>1, <1>5 DEF IndInv, RowsAreCut
  <1>11. \A i \in Newlines(stream) : LineAt(stream', i) = LineAt(stream, i)
    BY <1>1, <1>2, Facts, LineIsStable DEF Newlines
  <1>12. /\ Newlines(stream) \subseteq Newlines(stream')
         /\ \A i \in Newlines(stream') : i \in Newlines(stream) \/ i > Consumed
    <2>1. /\ Len(t) \in Nat /\ DOMAIN stream' = 1..(Len(stream) + Len(t))
          /\ \A i \in 1..Len(stream) : stream'[i] = stream[i]
      BY <1>1, <1>2, Facts, ConcatProperties, LenProperties
    <2> QED BY <2>1, Facts DEF Newlines
  <1>13. RowsAreLines'
    BY <1>1, <1>11, <1>12 DEF IndInv, RowsAreLines
  <1>14. Accounted'
    <2> SUFFICES ASSUME NEW i \in Newlines(stream'), ~ (i > Consumed)
                 PROVE  \/ LineAt(stream', i) = <<>>
                        \/ i \in dropped
                        \/ \E k \in DOMAIN rows : rows[k].at = i
      BY <1>1, <1>5, Zenon DEF Accounted
    <2>1. i \in Newlines(stream)
      BY <1>12
    <2> QED BY <1>7, <1>11, <2>1 DEF IndInv, Accounted
  <1> QED BY <1>6, <1>8, <1>9, <1>10, <1>13, <1>14 DEF IndInv

\* A line is cut off: it is the line of the stream that comes next.
LEMMA CutLineStep ==
    ASSUME IndInv, NEW g \in Loggers, CutLine(g)
    PROVE  IndInv'
  <1> DEFINE n == NextNewline
             l == [at |-> Consumed + n, text |-> Trim(SubSeq(buf, 1, n - 1))]
  <1>1. /\ line' = [line EXCEPT ![g] = l]
        /\ buf' = SubSeq(buf, n + 1, Len(buf))
        /\ UNCHANGED <<rows, dropped, stream>>
        /\ At(g, "cut") /\ Goto(g, "insert")
    BY DEF CutLine, Rest
  <1>2. n \in Newlines(buf) /\ \A j \in Newlines(buf) : n <= j
    BY Facts, MinIs DEF CutLine, NextNewline
  <1> HIDE DEF n
  <1>3. n \in 1..Len(buf)
    BY <1>2, Facts DEF Newlines
  <1>4. /\ Consumed + n \in Newlines(stream)
        /\ LineAt(stream, Consumed + n) = Trim(SubSeq(buf, 1, n - 1))
        /\ \A i \in Newlines(stream) : i <= Consumed \/ i >= Consumed + n
    BY <1>2, Facts, CutIsLine DEF IndInv, BufferIsTail
  <1>5. /\ buf' \in Seq(Tokens) /\ Len(buf') = Len(buf) - n
        /\ \A i \in DOMAIN buf' : buf'[i] = stream[(Consumed + n) + i]
        /\ stream[Consumed + n] = Newline
    <2>1. \A i \in DOMAIN buf : buf[i] = stream[Consumed + i]
      BY DEF IndInv, BufferIsTail
    <2>2. buf' = SubSeq(buf, n + 1, Len(buf))
      BY <1>1
    <2>3. /\ buf \in Seq(Tokens) /\ stream \in Seq(Tokens)
          /\ Consumed \in Nat /\ Consumed + Len(buf) = Len(stream)
      BY Facts
    <2>4. n \in Newlines(buf)
      BY <1>2
    <2>5. \A r : r = SubSeq(buf, n + 1, Len(buf)) =>
             /\ r \in Seq(Tokens) /\ Len(r) = Len(buf) - n
             /\ \A i \in DOMAIN r : r[i] = stream[(Consumed + n) + i]
             /\ stream[Consumed + n] = Newline
      BY <2>1, <2>3, <2>4, TailShrinks, Zenon
    <2> QED BY <2>2, <2>5, Zenon
  <1>6. Consumed' = Consumed + n
    <2>1. \A p, q \in Nat : \A m \in 1..q : p - (q - m) = (p - q) + m
      OBVIOUS
    <2>2. Len(stream) - (Len(buf) - n) = (Len(stream) - Len(buf)) + n
      BY <1>3, <2>1, Facts, Zenon
    <2>3. Len(stream') = Len(stream)
      BY <1>1
    <2> QED BY <1>5, <2>2, <2>3, Zenon DEF Consumed
  <1>7. SubSeq(buf, 1, n - 1) \in Seq(Tokens)
    <2>1. \A i \in 1..(n - 1) : buf[i] \in Tokens
      BY <1>3, Facts, ElementOfSeq
    <2> QED BY <1>3, <2>1, Facts, SubSeqProperties
  <1>8. l \in Line
    <2>1. Consumed + n \in Nat
      BY <1>3, Facts
    <2>2. Trim(SubSeq(buf, 1, n - 1)) \in Seq(Tokens)
      BY <1>7, TrimType, Zenon
    <2> QED BY <2>1, <2>2 DEF Line
  <1>9. line'[g] = l /\ \A h \in Loggers : h # g => line'[h] = line[h]
    BY <1>1 DEF IndInv, TypeOK
  <1>10. l.at = Consumed + n /\ l.text = Trim(SubSeq(buf, 1, n - 1))
    OBVIOUS
  <1> HIDE DEF l
  <1>11. TypeOK'
    BY <1>1, <1>5, <1>8 DEF IndInv, TypeOK, CutLine, At, Goto
  <1>12. \A h \in Loggers : /\ ~ At(h, "insert")
                            /\ At(h, "insert")' <=> h = g
    BY <1>1, Facts DEF IndInv, TypeOK, At, Goto
  <1>13. BufferIsTail'
    <2>1. Len(buf') <= Len(stream')
      <3>1. \A p, q \in Nat : \A m \in 1..q : q <= p => q - m <= p
        OBVIOUS
      <3>2. Len(buf) <= Len(stream)
        BY DEF IndInv, BufferIsTail
      <3> QED BY <1>1, <1>3, <1>5, <3>1, <3>2, Facts, Zenon
    <2> QED BY <1>1, <1>5, <1>6, <2>1 DEF BufferIsTail
  <1>14. \A k \in DOMAIN rows : rows[k].at < Consumed + n
    BY <1>3, Facts DEF IndInv, RowsAreCut
  <1>15. LineInHand'
    <2> SUFFICES /\ line'[g].at = Consumed' /\ line'[g].at \in Newlines(stream')
                 /\ line'[g].text = LineAt(stream', line'[g].at)
                 /\ \A k \in DOMAIN rows' : rows'[k].at < Consumed'
      BY <1>12 DEF LineInHand
    <2> QED BY <1>1, <1>4, <1>6, <1>9, <1>10, <1>14
  <1>16. RowsAreCut'
    <2>1. \A x, y \in Nat : x < y => x <= y
      OBVIOUS
    <2>2. Consumed + n \in Nat
      BY <1>3, Facts
    <2> QED BY <1>1, <1>6, <1>14, <2>1, <2>2, Facts DEF RowsAreCut
  <1>17. RowsAreLines'
    BY <1>1 DEF IndInv, RowsAreLines
  <1>18. Accounted'
    <2> SUFFICES ASSUME NEW i \in Newlines(stream), ~ (i > Consumed + n)
                 PROVE  \/ LineAt(stream, i) = <<>>
                        \/ i \in dropped
                        \/ \E k \in DOMAIN rows : rows[k].at = i
                        \/ line'[g].at = i
      BY <1>1, <1>6, <1>12 DEF Accounted
    <2>1. i <= Consumed \/ i = Consumed + n
      BY <1>3, <1>4, Facts
    <2>2. CASE i = Consumed + n
      BY <1>9, <1>10, <2>2
    <2>3. CASE i <= Consumed
      <3>1. ~ (i > Consumed)
        BY <2>3, Facts
      <3> QED BY <1>12, <3>1 DEF IndInv, Accounted
    <2> QED BY <2>1, <2>2, <2>3
  <1> QED BY <1>11, <1>13, <1>15, <1>16, <1>17, <1>18 DEF IndInv

-----------------------------------------------------------------------------
(* The theorems *)

\* The log starts empty.
LEMMA IndInit == Init => IndInv
  <1> SUFFICES ASSUME Init PROVE IndInv
    OBVIOUS
  <1>1. <<>> \in Seq(Tokens) /\ <<>> \in Seq(Row) /\ Len(<<>>) = 0
    BY EmptySeq
  <1>2. DOMAIN buf = {} /\ DOMAIN rows = {} /\ DOMAIN stream = {}
    BY DEF Init
  <1>3. TypeOK
    <2>1. NoLine \in Line /\ 0 \in Nat
      BY <1>1 DEF NoLine, Line
    <2>2. line \in [Loggers -> Line] /\ chunk \in [Loggers -> Chunks \cup {<<>>}]
      BY <2>1, Zenon DEF Init
    <2>3. pc \in [Loggers -> {"idle", "console", "cut", "insert"}]
      BY DEF Init
    <2>4. \A g \in Loggers : pc[g] = "idle"
      BY DEF Init
    <2>5. buf \in Seq(Tokens) /\ stream \in Seq(Tokens) /\ rows \in Seq(Row)
      BY <1>1 DEF Init
    <2>6. /\ owner \in Loggers \cup {None}
          /\ dropped \subseteq Nat /\ writes \in 0..MaxWrites
      BY WritesType DEF Init
    <2>7. lastError \in BOOLEAN
      BY Zenon DEF Init
    <2> QED BY <2>2, <2>3, <2>4, <2>5, <2>6, <2>7 DEF TypeOK
  <1>4. Consumed = 0 /\ Len(buf) <= Len(stream)
    BY DEF Init, Consumed
  <1>5. BufferIsTail
    BY <1>2, <1>4 DEF BufferIsTail
  <1>6. LineInHand
    BY DEF Init, LineInHand, At
  <1>7. RowsAreCut /\ RowsAreLines
    BY <1>2 DEF RowsAreCut, RowsAreLines
  <1>8. Accounted
    BY <1>2 DEF Accounted, Newlines
  <1> QED BY <1>3, <1>5, <1>6, <1>7, <1>8 DEF IndInv

\* Every step keeps the inductive invariant.
LEMMA IndStep == IndInv /\ [Next]_vars => IndInv'
  <1> SUFFICES ASSUME IndInv, [Next]_vars PROVE IndInv'
    OBVIOUS
  <1>1. CASE UNCHANGED vars
    <2>1. TypeOK'
      BY <1>1 DEF IndInv, TypeOK, vars
    <2> QED BY <1>1, <2>1, QuietStep DEF vars
  <1>2. ASSUME NEW g \in Loggers, NEW c \in Chunks, Log(g, c) PROVE IndInv'
    BY <1>2, LogStep
  <1>3. ASSUME NEW g \in Loggers, ConsoleFails(g) PROVE IndInv'
    BY <1>3, ConsoleFailsStep
  <1>4. ASSUME NEW g \in Loggers, Write(g) PROVE IndInv'
    BY <1>4, BufferStep, CutLineStep, SkipBlankStep, InsertStep,
       InsertFailsStep, UnlockStep, Zenon DEF Write
  <1> QED BY <1>1, <1>2, <1>3, <1>4, Zenon DEF Next

\* Every reachable state satisfies the inductive invariant: rows, line in hand
\* and buffer together are the stream, cut at its newlines.
THEOREM Inductive == Spec => []IndInv
  BY IndInit, IndStep, PTL DEF Spec

\* Every reachable state has its type (TypeOK), the mutex included: only its
\* owner is past buffering.
THEOREM TypeCorrect == Spec => []TypeOK
  <1>1. IndInv => TypeOK
    BY DEF IndInv
  <1> QED BY <1>1, Inductive, PTL

\* writer.Write and parseLine: the table holds lines of the stream, each at
\* most once, in order, with their text and level (RowsAreLines), however the
\* goroutines interleave and wherever their writes cut a line.
THEOREM TableHoldsLines == Spec => []RowsAreLines
  <1>1. IndInv => RowsAreLines
    BY DEF IndInv
  <1> QED BY <1>1, Inductive, PTL

\* Every finished line is blank, stored, refused by the database, in the
\* hands of a goroutine or in the buffer, and the buffer is the end of the
\* stream (NothingLost).
THEOREM NoLineLost == Spec => []NothingLost
  <1>1. IndInv => NothingLost
    <2> SUFFICES ASSUME IndInv PROVE NothingLost
      OBVIOUS
    <2>1. buf = SubSeq(stream, Consumed + 1, Len(stream))
      BY Facts, TailIs DEF IndInv, BufferIsTail
    <2> QED BY <2>1 DEF IndInv, Accounted, NothingLost
  <1> QED BY <1>1, Inductive, PTL
=============================================================================
