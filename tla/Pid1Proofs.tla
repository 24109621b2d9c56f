----------------------------- MODULE Pid1Proofs -----------------------------
(***************************************************************************)
(* Proofs about PID 1: ChildReaper, for any set of children, any capacity  *)
(* of the channel and any number of interrupts, and InitBoot, for any      *)
(* waiting times and any mount points and key paths in the environment.    *)
(***************************************************************************)
EXTENDS InitBoot, ChildReaper, SequenceTheorems, TLAPS

-----------------------------------------------------------------------------
(* The child reaper *)

\* Interrupts and terminations that are still to reach the channel.
PendingOthers ==
    (IF "SIGINT" \in pending THEN 1 ELSE 0)
        + (IF "SIGTERM" \in pending THEN 1 ELSE 0)

\* The entries behind position p are no SIGCHLDs.
OnlyOthersAfter(p) ==
    \A i \in DOMAIN signals : i > p => signals[i] # SigChld

\* The channel holds no more of the other signals than were sent: however far
\* back from its end only they are found, the stretch and those still pending
\* are at most as many.  A count that starts at any place survives the removal
\* of the head, whatever the head is.
StretchBounded ==
    \A p \in 0..Len(signals) :
        OnlyOthersAfter(p) => Len(signals) - p + PendingOthers <= others

\* The inductive invariant.
ReaperInv == ReaperTypeOK /\ StretchBounded /\ NoZombieForgotten

-----------------------------------------------------------------------------
(* The channel *)

\* Receiving from the channel moves every entry up by one.
LEMMA TakeShifts ==
    ASSUME NEW s \in Seq(Kinds), s # <<>>
    PROVE  /\ Tail(s) \in Seq(Kinds) /\ Len(Tail(s)) = Len(s) - 1
           /\ Len(s) \in Nat \ {0} /\ Head(s) = s[1]
           /\ \A i \in 1..(Len(s) - 1) : Tail(s)[i] = s[i + 1]
  BY EmptySeq, HeadTailProperties

\* Sending to it puts the signal behind the others.
LEMMA SendAppends ==
    ASSUME NEW s \in Seq(Kinds), NEW sig \in Kinds
    PROVE  /\ Append(s, sig) \in Seq(Kinds) /\ Len(Append(s, sig)) = Len(s) + 1
           /\ Len(s) \in Nat
           /\ \A i \in 1..Len(s) : Append(s, sig)[i] = s[i]
           /\ Append(s, sig)[Len(s) + 1] = sig
  BY AppendProperties

-----------------------------------------------------------------------------
(* The steps *)

\* A signal on its way to the channel: what is dropped finds a SIGCHLD there,
\* or interrupts alone have filled it.
LEMMA NotifyKeeps ==
    ASSUME ReaperInv, NEW sig \in Kinds, Notify(sig)
    PROVE  ReaperInv'
  <1> USE CapacityPositive, BoundIsNat
  <1>1. /\ sig \in pending /\ pending' = pending \ {sig}
        /\ UNCHANGED <<child, reaper, others>>
    BY DEF Notify
  <1>2. /\ pending \subseteq Kinds /\ signals \in Seq(Kinds)
        /\ Len(signals) \in Nat /\ DOMAIN signals = 1..Len(signals)
        /\ Len(signals) <= Capacity /\ others \in Nat
    BY LenProperties DEF ReaperInv, ReaperTypeOK
  <1>3. /\ PendingOthers \in Nat /\ PendingOthers' \in Nat
        /\ sig = SigChld => PendingOthers' = PendingOthers
        /\ sig # SigChld => PendingOthers' = PendingOthers - 1
    BY <1>1, <1>2 DEF PendingOthers, Kinds, SigChld
  <1>4. CASE HasRoom
    <2>1. signals' = Append(signals, sig)
      BY <1>4 DEF Notify
    <2>2. /\ signals' \in Seq(Kinds) /\ Len(signals') = Len(signals) + 1
          /\ \A i \in 1..Len(signals) : signals'[i] = signals[i]
          /\ signals'[Len(signals) + 1] = sig
          /\ DOMAIN signals' = 1..(Len(signals) + 1)
      BY <1>2, <2>1, SendAppends, LenProperties
    <2>3. ReaperTypeOK'
      BY <1>1, <1>2, <1>4, <2>2 DEF ReaperInv, ReaperTypeOK, HasRoom
    <2>4. StretchBounded'
      <3> SUFFICES ASSUME NEW p \in 0..(Len(signals) + 1), OnlyOthersAfter(p)'
                   PROVE  Len(signals) + 1 - p + PendingOthers' <= others
        BY <1>1, <2>2 DEF StretchBounded
      <3>1. CASE p = Len(signals) + 1
        <4>1. OnlyOthersAfter(Len(signals))
          BY <1>2 DEF OnlyOthersAfter
        <4>2. PendingOthers <= others
          BY <1>2, <1>3, <4>1 DEF ReaperInv, StretchBounded
        <4> QED BY <1>2, <1>3, <3>1, <4>2
      <3>2. CASE p \in 0..Len(signals)
        <4>1. OnlyOthersAfter(p)
          BY <1>2, <2>2, <3>2 DEF OnlyOthersAfter
        <4>2. sig # SigChld
          BY <1>2, <2>2, <3>2 DEF OnlyOthersAfter
        <4>3. Len(signals) - p + PendingOthers <= others
          BY <3>2, <4>1 DEF ReaperInv, StretchBounded
        <4> QED BY <1>2, <1>3, <3>2, <4>2, <4>3
      <3> QED BY <1>2, <3>1, <3>2
    <2>5. NoZombieForgotten'
      <3>1. (\E i \in DOMAIN signals : signals[i] = SigChld) \/ sig = SigChld
              => \E i \in DOMAIN signals' : signals'[i] = SigChld
        BY <1>2, <2>2
      <3> QED BY <1>1, <3>1 DEF ReaperInv, NoZombieForgotten, ChannelFloodable
    <2> QED BY <2>3, <2>4, <2>5 DEF ReaperInv
  <1>5. CASE ~HasRoom
    <2>1. signals' = signals
      BY <1>5 DEF Notify
    <2>2. Len(signals) = Capacity
      <3>1. Capacity \in Nat /\ ~(Len(signals) < Capacity)
        BY <1>5 DEF HasRoom
      <3>2. \A m, n \in Nat : m <= n /\ ~(m < n) => m = n
        OBVIOUS
      <3> QED BY <1>2, <3>1, <3>2, Zenon
    <2>3. ReaperTypeOK'
      BY <1>1, <2>1 DEF ReaperInv, ReaperTypeOK
    <2>4. StretchBounded'
      BY <1>1, <1>2, <1>3, <2>1 DEF ReaperInv, StretchBounded, OnlyOthersAfter
    <2>5. NoZombieForgotten'
      <3>1. CASE \E i \in DOMAIN signals : signals[i] = SigChld
        BY <2>1, <3>1 DEF NoZombieForgotten
      <3>2. CASE ~\E i \in DOMAIN signals : signals[i] = SigChld
        <4>1. OnlyOthersAfter(0)
          BY <3>2 DEF OnlyOthersAfter
        <4>2. Len(signals) - 0 + PendingOthers <= others
          BY <1>2, <4>1 DEF ReaperInv, StretchBounded
        <4>3. ChannelFloodable'
          BY <1>1, <1>2, <1>3, <2>2, <4>2 DEF ChannelFloodable
        <4> QED BY <4>3 DEF NoZombieForgotten
      <3> QED BY <3>1, <3>2
    <2> QED BY <2>3, <2>4, <2>5 DEF ReaperInv
  <1> QED BY <1>4, <1>5

\* A signal is received: a SIGCHLD sets the reaper to work, behind any other
\* the SIGCHLDs of the channel are still there.
LEMMA TakeKeeps ==
    ASSUME ReaperInv, Take
    PROVE  ReaperInv'
  <1> USE CapacityPositive, BoundIsNat
  <1>1. /\ signals # <<>> /\ signals' = Tail(signals)
        /\ reaper' = IF Head(signals) = SigChld THEN "reaping" ELSE "logging"
        /\ reaper = "waiting"
        /\ UNCHANGED <<child, pending, others>>
    BY DEF Take
  <1>2. /\ signals \in Seq(Kinds) /\ Len(signals) <= Capacity
        /\ pending \subseteq Kinds /\ others \in Nat
    BY DEF ReaperInv, ReaperTypeOK
  <1>3. /\ signals' \in Seq(Kinds) /\ Len(signals') = Len(signals) - 1
        /\ Len(signals) \in Nat \ {0} /\ Head(signals) = signals[1]
        /\ \A i \in 1..(Len(signals) - 1) : signals'[i] = signals[i + 1]
    BY <1>1, <1>2, TakeShifts
  <1>4. /\ DOMAIN signals = 1..Len(signals)
        /\ DOMAIN signals' = 1..(Len(signals) - 1)
    BY <1>2, <1>3, LenProperties
  <1>5. ReaperTypeOK'
    BY <1>1, <1>2, <1>3 DEF ReaperInv, ReaperTypeOK
  <1>6. StretchBounded'
    <2> SUFFICES ASSUME NEW p \in 0..(Len(signals) - 1), OnlyOthersAfter(p)'
                 PROVE  Len(signals) - 1 - p + PendingOthers <= others
      BY <1>1, <1>3 DEF StretchBounded, PendingOthers
    <2>1. \A i \in DOMAIN signals : i > p + 1 => signals[i] # SigChld
      <3> SUFFICES ASSUME NEW i \in DOMAIN signals, i > p + 1
                   PROVE  signals[i] # SigChld
        OBVIOUS
      <3>1. /\ i - 1 \in 1..(Len(signals) - 1) /\ i - 1 > p
            /\ (i - 1) + 1 = i
        BY <1>3, <1>4
      <3>2. signals'[i - 1] = signals[i]
        BY <1>3, <3>1
      <3> QED BY <1>4, <3>1, <3>2 DEF OnlyOthersAfter
    <2>2. p + 1 \in 0..Len(signals)
      BY <1>3
    <2>3. Len(signals) - (p + 1) + PendingOthers <= others
      BY <2>1, <2>2 DEF ReaperInv, StretchBounded, OnlyOthersAfter
    <2>4. PendingOthers \in Nat
      BY DEF PendingOthers
    <2> QED BY <1>2, <1>3, <2>3, <2>4
  <1>7. NoZombieForgotten'
    <2>1. CASE Head(signals) = SigChld
      BY <1>1, <2>1 DEF NoZombieForgotten
    <2>2. CASE Head(signals) # SigChld
      <3>1. ASSUME NEW i \in DOMAIN signals, signals[i] = SigChld
            PROVE  \E j \in DOMAIN signals' : signals'[j] = SigChld
        <4>1. /\ i - 1 \in 1..(Len(signals) - 1) /\ (i - 1) + 1 = i
          BY <1>3, <1>4, <2>2, <3>1
        <4>2. signals'[i - 1] = signals[i]
          BY <1>3, <4>1
        <4> QED BY <1>4, <3>1, <4>1, <4>2
      <3> QED
        BY <1>1, <3>1 DEF ReaperInv, NoZombieForgotten, ChannelFloodable
    <2> QED BY <2>1, <2>2
  <1> QED BY <1>5, <1>6, <1>7 DEF ReaperInv

\* The steps that leave the channel alone.
LEMMA OtherKeeps ==
    ASSUME ReaperInv,
           \/ \E c \in Children : Exit(c) \/ Reap(c)
           \/ \E sig \in Kinds \ {SigChld} : Interrupt(sig)
           \/ Logged \/ NoneLeft \/ UNCHANGED reaperVars
    PROVE  ReaperInv'
  <1> USE BoundIsNat DEF ReaperInv, ReaperTypeOK, StretchBounded, OnlyOthersAfter,
                         NoZombieForgotten, ChannelFloodable
  <1>1. ASSUME NEW c \in Children, Exit(c)
        PROVE  ReaperInv'
    <2>1. PendingOthers' = PendingOthers
      BY <1>1 DEF Exit, PendingOthers, SigChld
    <2> QED BY <1>1, <2>1 DEF Exit, Kinds
  <1>2. ASSUME NEW c \in Children, Reap(c)
        PROVE  ReaperInv'
    BY <1>2 DEF Reap, AfterReap, PendingOthers
  <1>3. ASSUME NEW sig \in Kinds \ {SigChld}, Interrupt(sig)
        PROVE  ReaperInv'
    <2>1. /\ PendingOthers \in Nat /\ PendingOthers' \in Nat
          /\ PendingOthers' <= PendingOthers + 1
      BY <1>3 DEF Interrupt, PendingOthers, Kinds, SigChld
    <2>2. Len(signals) \in Nat
      BY LenProperties
    <2>3. /\ others' = others + 1 /\ others < MaxOthers
          /\ pending' = pending \cup {sig}
          /\ UNCHANGED <<child, signals, reaper>>
      BY <1>3 DEF Interrupt
    <2>4. ReaperTypeOK'
      BY <2>3
    <2>5. StretchBounded'
      BY <2>1, <2>2, <2>3
    <2>6. NoZombieForgotten'
      BY <2>3, CapacityPositive
    <2> QED BY <2>4, <2>5, <2>6
  <1>4. CASE Logged
    BY <1>4 DEF Logged, PendingOthers
  <1>5. CASE NoneLeft
    BY <1>5 DEF NoneLeft, PendingOthers
  <1>6. CASE UNCHANGED reaperVars
    BY <1>6 DEF reaperVars, PendingOthers
  <1> QED BY <1>1, <1>2, <1>3, <1>4, <1>5, <1>6

-----------------------------------------------------------------------------
(* The results *)

\* The inductive invariant: types, the bound on interrupts in the channel and
\* NoZombieForgotten itself.
THEOREM ReaperInductive == ReaperSpec => []ReaperInv
  <1>1. ReaperInit => ReaperInv
    <2> SUFFICES ASSUME ReaperInit PROVE ReaperInv
      OBVIOUS
    <2>1. ReaperTypeOK /\ NoZombieForgotten
      BY EmptySeq, CapacityPositive, BoundIsNat
         DEF ReaperInit, ReaperTypeOK, NoZombieForgotten, Kinds
    <2>2. Len(signals) = 0 /\ PendingOthers = 0 /\ others = 0
      BY DEF ReaperInit, PendingOthers
    <2>3. StretchBounded
      BY <2>2 DEF StretchBounded
    <2> QED BY <2>1, <2>3 DEF ReaperInv
  <1>2. ReaperInv /\ [ReaperNext]_reaperVars => ReaperInv'
    BY NotifyKeeps, TakeKeeps, OtherKeeps DEF ReaperNext, Goroutine
  <1> QED BY <1>1, <1>2, PTL DEF ReaperSpec

\* Every variable keeps its type; the channel never overflows.
THEOREM ReaperTypes == ReaperSpec => []ReaperTypeOK
  <1>1. ReaperInv => ReaperTypeOK
    BY DEF ReaperInv
  <1> QED BY <1>1, ReaperInductive, PTL

\* For every capacity of StartChildReaper's channel, SIGCHLDs that merge or
\* are dropped lose no zombie as long as fewer interrupts than the channel
\* holds have been sent.
THEOREM ZombiesAreKnown == ReaperSpec => []NoZombieForgotten
  <1>1. ReaperInv => NoZombieForgotten
    BY DEF ReaperInv
  <1> QED BY <1>1, ReaperInductive, PTL

-----------------------------------------------------------------------------
(* The boot sequence *)

Storage == [fs |-> "storage", on |-> config.storageAt]
Share == [fs |-> "share", on |-> config.shareAt]
MountEntry == [fs : FileSystems, on : StoragePoints \cup SharePoints]

\* The four tables of mounts main can produce.
Tables == {<<>>, <<Storage>>, <<Share>>, <<Storage, Share>>}

NoMount == mounts = <<>>
StorageOnly == mounts = <<Storage>>
Stored == mounts \in {<<Storage>>, <<Storage, Share>>}

\* The share is mounted last, exactly when sharedstate says so.
MountsAre ==
    /\ mounts \in Tables
    /\ share <=> mounts \in {<<Share>>, <<Storage, Share>>}

\* What main has mounted at each point of its order.
MountOrder ==
    /\ done = 0 => NoMount
    /\ done = 1 /\ at \in {"start", "mount"} => NoMount
    /\ done = 1 /\ at = "directories" => StorageOnly
    /\ done < 3 => ~share
    /\ done >= 2 /\ config.storage => Stored
    /\ at \in {"mount", "directories"} => done = 1
    /\ done = 1 /\ at = "mount" => config.storage

\* Files are opened after the mounts, each by its path and on the file system
\* that the final table gives that path.
PathOf(file) ==
    CASE file = "log" -> LogPath
      [] file = "board" -> BBSRoot
      [] file = "key" -> config.keyAt

Where(path) ==
    IF share /\ IsPrefix(config.shareAt, path) THEN "share"
    ELSE IF Stored /\ IsPrefix(config.storageAt, path) THEN "storage"
    ELSE "initramfs"

OpenedLate ==
    /\ opened # {} => done >= 3
    /\ \A o \in opened : o.path = PathOf(o.file) /\ o.fs = Where(o.path)

\* The inductive invariant.
BootInv == TypeOK /\ MountsAre /\ MountOrder /\ OpenedLate

-----------------------------------------------------------------------------
(* Lemmas about the operators *)

\* main has nine steps.
LEMMA NineSteps == Len(BootOrder) = 9
  BY DEF BootOrder

\* The places of the steps in main's order.
LEMMA Order ==
    ASSUME done \in 0..9
    PROVE  /\ \A p : At("filesystem", p) <=> done = 0 /\ at = p
           /\ \A p : At("storage", p) <=> done = 1 /\ at = p
           /\ \A p : At("share", p) <=> done = 2 /\ at = p
           /\ \A p : At("logs", p) <=> done = 3 /\ at = p
           /\ \A p : At("rng", p) <=> done = 4 /\ at = p
           /\ \A p : At("network", p) <=> done = 5 /\ at = p
           /\ \A p : At("bbs", p) <=> done = 6 /\ at = p
           /\ \A p : At("ssh", p) <=> done = 7 /\ at = p
           /\ \A p : At("web", p) <=> done = 8 /\ at = p
  BY DEF At, BootOrder

\* What lies in a directory lies under it.
LEMMA PrefixOfJoin ==
    ASSUME NEW m \in Path, NEW rest \in Path
    PROVE  IsPrefix(m, m \o rest) /\ m \o rest \in Path
  <1> DEFINE t == m \o rest
  <1>1. /\ t \in Path /\ Len(t) = Len(m) + Len(rest)
        /\ Len(m) \in Nat /\ Len(rest) \in Nat
        /\ \A i \in 1..Len(m) : t[i] = m[i]
    BY ConcatProperties, LenProperties DEF Path
  <1> HIDE DEF t
  <1>2. SubSeq(m, 1, Len(m)) = SubSeq(t, 1, Len(m))
    BY <1>1 DEF Path
  <1>3. Len(m) <= Len(t)
    BY <1>1
  <1>4. IsPrefix(m, t)
    BY <1>2, <1>3 DEF IsPrefix
  <1> QED BY <1>1, <1>4 DEF t

\* Sequences written out.
LEMMA ShortSeqs ==
    ASSUME NEW S, NEW a \in S, NEW b \in S, NEW c \in S
    PROVE  <<a>> \in Seq(S) /\ <<a, b>> \in Seq(S) /\ <<a, b, c>> \in Seq(S)
  OBVIOUS

\* The three files have paths; log and board lie where their roots say.
LEMMA PathsOf ==
    ASSUME TypeOK
    PROVE  /\ \A f \in {"log", "board", "key"} : PathOf(f) \in Path
           /\ IsPrefix(config.storageAt, PathOf("log"))
           /\ share => IsPrefix(config.shareAt, PathOf("board"))
           /\ ~share => IsPrefix(config.storageAt, PathOf("board"))
           /\ PathOf("key") = config.keyAt
  <1>1. /\ config.storageAt \in Path /\ config.shareAt \in Path
        /\ config.keyAt \in Path
    BY PathsAreSeqs DEF TypeOK, Config
  <1>2. /\ <<"state", "chat", "logs.db">> \in Path /\ <<"bbs">> \in Path
        /\ <<"app", "bbs">> \in Path
    <2>1. /\ "state" \in Name /\ "chat" \in Name /\ "logs.db" \in Name
          /\ "app" \in Name /\ "bbs" \in Name
      BY PathsAreSeqs
    <2> QED BY <2>1, ShortSeqs, Zenon DEF Path
  <1>3. /\ LogPath \in Path /\ IsPrefix(config.storageAt, LogPath)
    BY <1>1, <1>2, PrefixOfJoin DEF LogPath
  <1>4. /\ BBSRoot \in Path
        /\ share => IsPrefix(config.shareAt, BBSRoot)
        /\ ~share => IsPrefix(config.storageAt, BBSRoot)
    BY <1>1, <1>2, PrefixOfJoin DEF BBSRoot
  <1>5. /\ PathOf("log") = LogPath /\ PathOf("board") = BBSRoot
        /\ PathOf("key") = config.keyAt
    BY DEF PathOf
  <1> QED BY <1>1, <1>3, <1>4, <1>5

\* A path leads to the share, the storage or the initramfs.
LEMMA Resolves ==
    ASSUME MountsAre, NEW path
    PROVE  Resolve(path) = Where(path)
  <1> DEFINE covering == Under(path)
             inStorage == IsPrefix(config.storageAt, path)
             inShare == IsPrefix(config.shareAt, path)
  <1>1. Resolve(path) =
            IF covering = {} THEN "initramfs" ELSE mounts[Max(covering)].fs
    BY DEF Resolve
  <1>2. covering = {i \in DOMAIN mounts : IsPrefix(mounts[i].on, path)}
    BY DEF Under
  <1>3. ASSUME NEW n \in {1, 2}, n \in covering, covering \subseteq 1..n
        PROVE  Resolve(path) = mounts[n].fs
    <2> HIDE DEF covering
    <2>1. \A j \in covering : n >= j
      BY <1>3
    <2>2. Max(covering) \in covering /\ \A j \in covering : Max(covering) >= j
      BY <1>3, <2>1 DEF Max
    <2>3. /\ Max(covering) \in 1..n /\ Max(covering) >= n /\ n \in Nat
      <3>1. Max(covering) >= n
        BY <1>3, <2>2, Zenon
      <3>2. Max(covering) \in 1..n
        BY <1>3, <2>2, Zenon
      <3> QED BY <1>3, <3>1, <3>2
    <2>4. \A k, i \in Nat : i \in 1..k /\ i >= k => i = k
      OBVIOUS
    <2>5. Max(covering) = n
      BY <2>3, <2>4
    <2> QED BY <1>1, <1>3, <2>5
  <1> HIDE DEF covering, inStorage, inShare
  <1> USE DEF inStorage, inShare
  <1>4. CASE mounts = <<>>
    <2>1. covering = {}
      BY <1>2, <1>4
    <2> QED BY <1>1, <1>4, <2>1 DEF MountsAre, Where, Stored
  <1>5. CASE mounts = <<Storage>>
    <2>1. /\ ~share /\ Stored /\ mounts[1].fs = "storage"
          /\ covering = IF inStorage THEN {1} ELSE {}
      BY <1>2, <1>5 DEF MountsAre, Stored, Storage, Share
    <2> QED BY <1>1, <1>3, <2>1 DEF Where
  <1>6. CASE mounts = <<Share>>
    <2>1. /\ share /\ ~Stored /\ mounts[1].fs = "share"
          /\ covering = IF inShare THEN {1} ELSE {}
      BY <1>2, <1>6 DEF MountsAre, Stored, Storage, Share
    <2> QED BY <1>1, <1>3, <2>1 DEF Where
  <1>7. CASE mounts = <<Storage, Share>>
    <2>1. /\ share /\ Stored
          /\ mounts[1].fs = "storage" /\ mounts[2].fs = "share"
          /\ covering = (IF inStorage THEN {1} ELSE {})
                            \cup (IF inShare THEN {2} ELSE {})
      BY <1>2, <1>7 DEF MountsAre, Stored, Storage, Share
    <2>2. CASE inShare
      BY <1>3, <2>1, <2>2 DEF Where
    <2>3. CASE ~inShare
      BY <1>1, <1>3, <2>1, <2>3 DEF Where
    <2> QED BY <2>2, <2>3
  <1> QED BY <1>4, <1>5, <1>6, <1>7 DEF MountsAre, Tables

\* Mounting on a table of one.
LEMMA AppendSecond ==
    ASSUME NEW a, NEW b
    PROVE  Append(<<a>>, b) = <<a, b>>
  <1> DEFINE S == {a, b}
             s == Append(<<a>>, b)
             t == <<a, b>>
  <1>1. <<a>> \in Seq(S) /\ Len(<<a>>) = 1 /\ b \in S
    OBVIOUS
  <1>2. s \in Seq(S) /\ Len(s) = 2 /\ s[1] = a /\ s[2] = b
    BY <1>1
  <1>3. t \in Seq(S) /\ Len(t) = 2 /\ t[1] = a /\ t[2] = b
    OBVIOUS
  <1> HIDE DEF S, s, t
  <1>4. \A i \in 1..Len(s) : s[i] = t[i]
    BY <1>2, <1>3
  <1>5. s = t
    BY <1>2, <1>3, <1>4, SeqEqual
  <1> QED BY <1>5 DEF s, t

\* The tables have their type.
LEMMA TablesType ==
    ASSUME config \in Config
    PROVE  /\ <<Storage>> \in Seq(MountEntry) /\ <<Share>> \in Seq(MountEntry)
           /\ <<Storage, Share>> \in Seq(MountEntry)
  <1>1. Storage \in MountEntry /\ Share \in MountEntry
    BY DEF Storage, Share, MountEntry, FileSystems, Config
  <1>2. \A a, b \in MountEntry :
            <<a>> \in Seq(MountEntry) /\ <<a, b>> \in Seq(MountEntry)
    OBVIOUS
  <1> QED BY <1>1, <1>2

\* The four tables differ.
LEMMA TablesDiffer ==
    /\ <<Storage>> \notin {<<Share>>, <<Storage, Share>>}
    /\ NoMount => ~Stored /\ mounts \notin {<<Share>>, <<Storage, Share>>}
    /\ StorageOnly => Stored /\ mounts \notin {<<Share>>, <<Storage, Share>>}
  <1>1. Storage # Share
    BY DEF Storage, Share
  <1>2. \A a, b, c, d : /\ <<>> # <<a>> /\ <<>> # <<a, b>>
                        /\ <<a>> # <<c, d>>
                        /\ <<a>> = <<b>> => a = b
    OBVIOUS
  <1> QED BY <1>1, <1>2 DEF NoMount, StorageOnly, Stored

-----------------------------------------------------------------------------
(* The steps *)

\* What main has reached is of its type, and it goes forward.
Forward ==
    /\ done' \in 0..9 /\ done' >= done
    /\ at' \in {"start", "mount", "directories", "wait", "halted"}
    /\ waited' \in Nat
    /\ {device', rng', report'} \subseteq BOOLEAN

\* While the table of mounts stands, every path leads where it led.
SamePlaces ==
    /\ MountsAre' /\ (Stored' <=> Stored) /\ (NoMount' <=> NoMount)
    /\ StorageOnly' <=> StorageOnly
    /\ \A f : PathOf(f)' = PathOf(f)
    /\ \A path : Where(path)' = Where(path)

LEMMA MovedNothing ==
    ASSUME MountsAre, UNCHANGED <<config, mounts, share>>
    PROVE  SamePlaces
  <1>1. Storage' = Storage /\ Share' = Share
    BY DEF Storage, Share
  <1>2. Tables' = Tables
    BY <1>1 DEF Tables
  <1>3. /\ MountsAre' /\ (Stored' <=> Stored) /\ (NoMount' <=> NoMount)
        /\ StorageOnly' <=> StorageOnly
    BY <1>1, <1>2 DEF MountsAre, Stored, NoMount, StorageOnly
  <1>4. LogPath' = LogPath /\ BBSRoot' = BBSRoot /\ config'.keyAt = config.keyAt
    BY DEF LogPath, BBSRoot
  <1>5. \A f : PathOf(f)' = PathOf(f)
    BY <1>4 DEF PathOf
  <1>6. \A path : Where(path)' = Where(path)
    BY <1>3 DEF Where
  <1> QED BY <1>3, <1>5, <1>6 DEF SamePlaces

\* A step that mounts and opens nothing keeps what is mounted and opened; it
\* remains to see that main's order agrees.
LEMMA NothingMounted ==
    ASSUME BootInv, UNCHANGED <<config, mounts, opened, share>>, Forward,
           MountOrder'
    PROVE  BootInv'
  <1>1. SamePlaces
    BY MovedNothing DEF BootInv
  <1>2. OpenedLate'
    BY <1>1 DEF BootInv, TypeOK, OpenedLate, SamePlaces, Forward
  <1>3. TypeOK'
    BY NineSteps DEF BootInv, TypeOK, Forward
  <1> QED BY <1>1, <1>2, <1>3 DEF BootInv, SamePlaces

\* A step that mounts and opens nothing.
LEMMA PlainStep ==
    ASSUME BootInv,
           \/ PrepareFilesystem
           \/ SkipStorage \/ FindDevice \/ SleepForDevice
           \/ GiveUpOnDevice
           \/ StorageReady \/ StorageFails \/ ShareUnavailable
           \/ ProbeEntropy \/ LoadVirtioRNG \/ PollRng
           \/ RngWaitEnds
           \/ ConfigureNetwork \/ SkipSsh \/ ServeHTTP
           \/ StepFails
           \/ ServerFails \/ DeviceAppears \/ RngAppears
    PROVE  BootInv'
  <1> DEFINE Kept == UNCHANGED <<config, mounts, opened, share>>
  <1> SUFFICES Kept /\ Forward /\ MountOrder'
    BY NothingMounted
  <1>0. /\ done \in 0..9 /\ waited \in Nat
        /\ at \in {"start", "mount", "directories", "wait", "halted"}
        /\ device \in BOOLEAN /\ rng \in BOOLEAN /\ report \in BOOLEAN
        /\ MountOrder /\ (NoMount => ~Stored) /\ (StorageOnly => Stored)
    BY NineSteps, TablesDiffer DEF BootInv, TypeOK
  <1>00. Kept => /\ NoMount' <=> NoMount
                 /\ StorageOnly' <=> StorageOnly
                 /\ Stored' <=> Stored
    BY MovedNothing DEF SamePlaces, BootInv
  <1> USE <1>0, <1>00, Order
     DEF MountOrder, Forward, Go, Finish, Halt
  <1>1. CASE PrepareFilesystem
    BY <1>1 DEF PrepareFilesystem
  <1>2. CASE SkipStorage
    BY <1>2 DEF SkipStorage
  <1>3. CASE FindDevice
    BY <1>3 DEF FindDevice
  <1>4. CASE SleepForDevice
    BY <1>4 DEF SleepForDevice
  <1>5. CASE GiveUpOnDevice
    BY <1>5 DEF GiveUpOnDevice
  <1>6. CASE StorageReady
    BY <1>6 DEF StorageReady
  <1>7. CASE StorageFails
    BY <1>7 DEF StorageFails
  <1>8. CASE ShareUnavailable
    BY <1>8 DEF ShareUnavailable
  <1>9. CASE ProbeEntropy
    BY <1>9 DEF ProbeEntropy
  <1>10. CASE LoadVirtioRNG
    BY <1>10 DEF LoadVirtioRNG
  <1>11. CASE PollRng
    BY <1>11 DEF PollRng
  <1>12. CASE RngWaitEnds
    BY <1>12 DEF RngWaitEnds
  <1>13. CASE ConfigureNetwork
    BY <1>13 DEF ConfigureNetwork
  <1>14. CASE SkipSsh
    BY <1>14 DEF SkipSsh
  <1>15. CASE ServeHTTP
    BY <1>15 DEF ServeHTTP
  <1>16. CASE StepFails
    BY <1>16 DEF StepFails
  <1>17. CASE ServerFails
    BY <1>17, NineSteps DEF ServerFails, Serving
  <1>18. CASE DeviceAppears
    BY <1>18 DEF DeviceAppears
  <1>19. CASE RngAppears
    BY <1>19 DEF RngAppears
  <1> QED
    BY <1>1, <1>2, <1>3, <1>4, <1>5, <1>6, <1>7, <1>8, <1>9, <1>10, <1>11,
       <1>12, <1>13, <1>14, <1>15, <1>16, <1>17, <1>18, <1>19

\* The two mounts.
LEMMA MountStep ==
    ASSUME BootInv, MountStorage \/ MountShare
    PROVE  BootInv'
  <1>0. /\ done \in 0..9 /\ TypeOK /\ MountsAre /\ MountOrder /\ OpenedLate
        /\ NoMount => ~Stored /\ mounts \notin {<<Share>>, <<Storage, Share>>}
        /\ StorageOnly =>
                Stored /\ mounts \notin {<<Share>>, <<Storage, Share>>}
    BY NineSteps, TablesDiffer DEF BootInv, TypeOK
  <1>1. CASE MountStorage
    <2>1. /\ done = 1 /\ at = "mount" /\ NoMount /\ config.storage
          /\ mounts' = Append(mounts, Storage)
          /\ done' = 1 /\ at' = "directories"
          /\ UNCHANGED <<config, waited, device, rng, opened, share, report>>
      BY <1>0, <1>1, Order
         DEF MountStorage, Mount, Storage, Go, MountOrder
    <2>2. mounts' = <<Storage>> /\ Storage' = Storage /\ Share' = Share
      BY <2>1 DEF NoMount, Storage, Share
    <2>3. /\ StorageOnly' /\ Stored'
          /\ mounts' \notin {<<Share>>, <<Storage, Share>>}
      BY <2>2, TablesDiffer DEF StorageOnly, Stored
    <2>4. MountsAre'
      BY <1>0, <2>1, <2>2, <2>3 DEF MountsAre, Tables
    <2>5. mounts' \in Seq(MountEntry)
      BY <1>0, <2>2, TablesType DEF TypeOK
    <2>6. TypeOK'
      BY <1>0, <2>1, <2>5, NineSteps DEF TypeOK, MountEntry
    <2>7. MountOrder'
      BY <1>0, <2>1, <2>3 DEF MountOrder
    <2>8. OpenedLate'
      BY <1>0, <2>1 DEF OpenedLate
    <2> QED BY <2>4, <2>6, <2>7, <2>8 DEF BootInv
  <1>2. CASE MountShare
    <2>1. /\ done = 2 /\ ~share /\ share'
          /\ mounts' = Append(mounts, Share)
          /\ done' = 3 /\ at' = "start" /\ waited' = 0
          /\ UNCHANGED <<config, device, rng, opened, report>>
      BY <1>0, <1>2, Order
         DEF MountShare, Mount, Share, Finish, MountOrder
    <2>2. NoMount \/ StorageOnly
      BY <1>0, <2>1 DEF MountsAre, Tables, NoMount, StorageOnly
    <2>3. /\ NoMount => mounts' = <<Share>>
          /\ StorageOnly => mounts' = <<Storage, Share>>
      <3>1. Append(<<>>, Share) = <<Share>>
        OBVIOUS
      <3>2. Append(<<Storage>>, Share) = <<Storage, Share>>
        BY AppendSecond, Zenon
      <3> QED BY <2>1, <3>1, <3>2, Zenon DEF NoMount, StorageOnly
    <2>33. Storage' = Storage /\ Share' = Share
      BY <2>1 DEF Storage, Share
    <2>4. MountsAre'
      BY <2>1, <2>2, <2>3, <2>33 DEF MountsAre, Tables
    <2>5. mounts' \in Seq(MountEntry)
      BY <1>0, <2>2, <2>3, TablesType DEF TypeOK
    <2>6. TypeOK'
      BY <1>0, <2>1, <2>5, NineSteps DEF TypeOK, MountEntry
    <2>7. Stored => Stored'
      BY <1>0, <2>2, <2>3, <2>33 DEF Stored
    <2>8. MountOrder'
      BY <1>0, <2>1, <2>7 DEF MountOrder
    <2>9. OpenedLate'
      BY <1>0, <2>1 DEF OpenedLate
    <2> QED BY <2>4, <2>6, <2>8, <2>9 DEF BootInv
  <1> QED BY <1>1, <1>2

\* The three files: each is found where it will stay.
LEMMA OpenStep ==
    ASSUME BootInv, OpenLogStore \/ OpenBoard \/ StartSsh
    PROVE  BootInv'
  <1>1. PICK f \in {"log", "board", "key"} :
            /\ opened' = opened \cup {[file |-> f, path |-> PathOf(f),
                                       fs |-> Resolve(PathOf(f))]}
            /\ done \in 3..8 /\ done' = done + 1
            /\ at = "start" /\ at' = "start" /\ waited' = 0
            /\ UNCHANGED <<config, device, rng, mounts, share, report>>
    <2>1. done \in 0..9
      BY NineSteps DEF BootInv, TypeOK
    <2> USE <2>1, Order DEF OpenFile, Finish, PathOf
    <2>2. CASE OpenLogStore
      BY <2>2 DEF OpenLogStore
    <2>3. CASE OpenBoard
      BY <2>3 DEF OpenBoard
    <2>4. CASE StartSsh
      BY <2>4 DEF StartSsh
    <2> QED BY <2>2, <2>3, <2>4
  <1>2. Resolve(PathOf(f)) = Where(PathOf(f)) /\ PathOf(f) \in Path
    BY Resolves, PathsOf DEF BootInv
  <1>3. Where(PathOf(f)) \in FileSystems
    BY DEF Where, FileSystems
  <1>4. TypeOK'
    BY <1>1, <1>2, <1>3, NineSteps DEF BootInv, TypeOK
  <1>5. SamePlaces
    BY <1>1, MovedNothing DEF BootInv
  <1>6. MountOrder'
    BY <1>1, <1>5 DEF BootInv, MountOrder, SamePlaces
  <1>7. OpenedLate'
    BY <1>1, <1>2, <1>5 DEF BootInv, OpenedLate, SamePlaces
  <1> QED BY <1>4, <1>5, <1>6, <1>7 DEF BootInv, SamePlaces

\* Every step of the boot, the kernel's included, keeps the invariant.
LEMMA BootStep == BootInv /\ [Next]_vars => BootInv'
  <1> SUFFICES ASSUME BootInv, [Next]_vars PROVE BootInv'
    OBVIOUS
  <1>1. CASE Next
    BY <1>1, PlainStep, MountStep, OpenStep DEF Next, Proceed
  <1>2. CASE UNCHANGED vars
    <2>1. SamePlaces
      BY <1>2, MovedNothing DEF vars, BootInv
    <2> QED
      BY <1>2, <2>1 DEF vars, BootInv, TypeOK, MountOrder, OpenedLate, SamePlaces
  <1> QED BY <1>1, <1>2

\* It holds when the kernel starts PID 1.
LEMMA BootInit == Init => BootInv
  <1> SUFFICES ASSUME Init PROVE BootInv
    OBVIOUS
  <1>1. NoMount
    BY DEF Init, NoMount
  <1>2. TypeOK
    <2>1. mounts \in Seq(MountEntry)
      BY DEF Init
    <2>2. {device, rng, share, report} \subseteq BOOLEAN
      BY DEF Init
    <2>3. done \in 0..Len(BootOrder) /\ waited \in Nat
      BY NineSteps DEF Init
    <2>4. /\ config \in Config /\ opened = {}
          /\ at \in {"start", "mount", "directories", "wait", "halted"}
      BY DEF Init
    <2> QED BY <2>1, <2>2, <2>3, <2>4 DEF TypeOK, MountEntry
  <1>3. MountsAre
    BY <1>1, TablesDiffer DEF Init, MountsAre, Tables
  <1>4. MountOrder /\ OpenedLate
    BY <1>1 DEF Init, MountOrder, OpenedLate
  <1> QED BY <1>2, <1>3, <1>4 DEF BootInv

\* The inductive invariant of the boot sequence.
THEOREM BootInductive == Spec => []BootInv
  BY BootInit, BootStep, PTL DEF Spec

-----------------------------------------------------------------------------
(* The results *)

\* Every variable keeps its type.
THEOREM BootTypes == Spec => []TypeOK
  <1>1. BootInv => TypeOK
    BY DEF BootInv
  <1> QED BY <1>1, BootInductive, PTL

\* In main's order no mount hides a file that is open.
THEOREM NoFileShadowed == Spec => []NothingShadowed
  <1>1. BootInv => NothingShadowed
    <2> SUFFICES ASSUME BootInv, NEW o \in opened PROVE Resolve(o.path) = o.fs
      BY DEF NothingShadowed
    <2>1. o.fs = Where(o.path)
      BY DEF BootInv, OpenedLate
    <2> QED BY <2>1, Resolves DEF BootInv
  <1> QED BY <1>1, BootInductive, PTL

\* With storage enabled the log database and the board survive a reboot, with
\* and without the share and wherever the two are mounted, and so does a host
\* key kept in the storage.
THEOREM StateSurvives == Spec => []StateIsDurable
  <1>1. BootInv => StateIsDurable
    <2> SUFFICES ASSUME BootInv, config.storage, NEW o \in opened,
                        o.fs = "initramfs"
                 PROVE  o.file = "key" /\ ~IsPrefix(config.storageAt, config.keyAt)
      BY DEF StateIsDurable
    <2>1. /\ o.file \in {"log", "board", "key"} /\ o.path = PathOf(o.file)
          /\ o.fs = Where(o.path) /\ done >= 3 /\ done \in Nat
      BY NineSteps DEF BootInv, TypeOK, OpenedLate
    <2>2. Stored
      BY <2>1 DEF BootInv, MountOrder
    <2>3. /\ ~IsPrefix(config.storageAt, PathOf(o.file))
          /\ ~(share /\ IsPrefix(config.shareAt, PathOf(o.file)))
      BY <2>1, <2>2 DEF Where
    <2> QED BY <2>1, <2>3, PathsOf DEF BootInv
  <1> QED BY <1>1, BootInductive, PTL

\* For any mount points, the board lies on the share exactly when the share is
\* mounted.
THEOREM BoardOnShare == Spec => []BoardFollowsShare
  <1>1. BootInv => BoardFollowsShare
    <2> SUFFICES ASSUME BootInv, NEW o \in opened, o.file = "board"
                 PROVE  o.fs = "share" <=> share
      BY DEF BoardFollowsShare
    <2>1. o.fs = Where(PathOf("board"))
      BY DEF BootInv, OpenedLate
    <2> QED BY <2>1, PathsOf DEF BootInv, Where
  <1> QED BY <1>1, BootInductive, PTL
=============================================================================
