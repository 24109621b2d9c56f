------------------------------ MODULE SshProofs ------------------------------
(***************************************************************************)
(* Proofs about the SSH server: HostKey, for any number of power cycles    *)
(* and with or without persistent storage, and SshService, for any finite  *)
(* number of sessions that a 64-bit counter can count.                     *)
(***************************************************************************)
EXTENDS HostKey, SshService, FiniteSetTheorems, TLAPS

-----------------------------------------------------------------------------
(* The host key *)

\* Every step of the program, the kernel and the power supply keeps the
\* inductive invariant, and none of them replaces a durable readable key.
LEMMA IndStep ==
    ASSUME IndInv, [Next]_vars
    PROVE  /\ IndInv'
           /\ Persistent /\ Valid(disk) => disk'["priv"] = disk["priv"]
  <1> USE NoFileIsNoKey, BadIsNoKey, BootsType, PersistentType
      DEF IndInv, TypeOK, KeyProgress, KeyAgreement, Valid, Keys, Contents,
          Files, Places, Steps
  <1>1. CASE MakeDirectory
    BY <1>1 DEF MakeDirectory, Goto
  <1>2. CASE CheckKey
    BY <1>2 DEF CheckKey, NextAfterCheck, Goto
  <1>3. CASE RemoveFile("priv", "removePriv", "removePub")
    BY <1>3 DEF RemoveFile
  <1>4. CASE RemoveFile("pub", "removePub", "keygen")
    BY <1>4 DEF RemoveFile
  <1>5. CASE GenerateKey
    BY <1>5 DEF GenerateKey
  <1>6. CASE WriteTemp("tempPriv", "renamePriv")
    BY <1>6 DEF WriteTemp, Goto
  <1>7. CASE RenameTemp("priv", "renamePriv", "syncPriv")
    BY <1>7 DEF RenameTemp
  <1>8. CASE SyncDir("syncPriv", "tempPub")
    BY <1>8 DEF SyncDir
  <1>9. CASE WriteTemp("tempPub", "renamePub")
    BY <1>9 DEF WriteTemp, Goto
  <1>10. CASE RenameTemp("pub", "renamePub", "syncPub")
    BY <1>10 DEF RenameTemp
  <1>11. CASE SyncDir("syncPub", "recheck")
    BY <1>11 DEF SyncDir
  <1>12. CASE RecheckKey
    BY <1>12 DEF RecheckKey, Goto
  <1>13. CASE Listen
    BY <1>13 DEF Listen
  <1>14. CASE StepFails
    BY <1>14 DEF StepFails, Goto
  <1>15. CASE WriteBack
    BY <1>15 DEF WriteBack
  <1>16. CASE PowerOn
    BY <1>16 DEF PowerOn, Goto
  <1>17. CASE PowerLoss
    BY <1>17 DEF PowerLoss, Empty
  <1>18. CASE UNCHANGED vars
    BY <1>18 DEF vars
  <1>19. CASE KeygenRejects
    BY <1>19 DEF KeygenRejects, Goto
  <1> QED
    BY <1>1, <1>2, <1>3, <1>4, <1>5, <1>6, <1>7, <1>8, <1>9, <1>10, <1>11,
       <1>12, <1>13, <1>14, <1>15, <1>16, <1>17, <1>18, <1>19 DEF Next, Proceed

\* The invariant holds in every image the first boot may find.
LEMMA IndInit == Init => IndInv
  BY NoFileIsNoKey, BadIsNoKey, BootsType
     DEF Init, IndInv, TypeOK, KeyProgress, KeyAgreement, Valid, Keys,
         Contents, Files, Places, Steps

\* The inductive invariant, and with it the types, holds in every boot.
THEOREM Inductive == Spec => []IndInv
  <1>1. IndInv /\ [Next]_vars => IndInv'
    BY IndStep
  <1> QED BY IndInit, <1>1, PTL DEF Spec

\* On persistent storage no two boots ever serve different keys, however
\* often and wherever power is lost and whichever system call fails.
THEOREM OneKey == Spec => []OneKeyForever
  <1>1. IndInv => OneKeyForever
    BY DEF IndInv, KeyAgreement, OneKeyForever
  <1> QED BY <1>1, Inductive, PTL

\* A boot that generated its key serves only when both files are durable.
THEOREM PairDurable == Spec => []GeneratedPairIsDurable
  <1>1. IndInv => GeneratedPairIsDurable
    BY DEF IndInv, KeyProgress, GeneratedPairIsDurable
  <1> QED BY <1>1, Inductive, PTL

\* No step replaces or removes a readable private key that is on the disk.
THEOREM KeyKept == Spec => DurableKeyKept
  <1>1. IndInv /\ [Next]_vars =>
           [Persistent /\ Valid(disk) => disk'["priv"] = disk["priv"]]_vars
    BY IndStep
  <1> QED BY <1>1, Inductive, PTL DEF Spec, DurableKeyKept

-----------------------------------------------------------------------------
(* The service *)

\* The sessions that active counts, and those that total counts.
Live == {s \in Sessions : session[s] \in {"active", "counted", "rendered"}}
Counted == {s \in Sessions : session[s] \in {"counted", "rendered", "gone"}}

\* Only the application or only the built-in page handles sessions, and each
\* counter is the size of its set.
CountsAre ==
    /\ \A s \in Sessions : session[s] = "in app" => app
    /\ \A s \in Sessions :
          session[s] \in {"entered", "active", "counted", "rendered"} => ~app
    /\ active = Cardinality(Live)
    /\ IF app THEN total = 0 ELSE total = Cardinality(Counted)

\* An error comes from the listener.
ErrorIsFailure ==
    /\ errText => server = "failed"
    /\ status.error => errText

ServiceInv == ServiceTypeOK /\ CountsAre /\ ErrorIsFailure

SessionTypes == [Sessions -> Handlers \cup {"new", "refused", "gone"}]

-----------------------------------------------------------------------------
\* A session more, or one less, in a set of sessions.
LEMMA SizesOfSets ==
    ASSUME IsFiniteSet(Sessions), NEW T \in SUBSET Sessions, NEW s \in Sessions
    PROVE  /\ Cardinality(T) \in 0..Cardinality(Sessions)
           /\ s \notin T => Cardinality(T \cup {s}) = Cardinality(T) + 1
           /\ s \in T => /\ Cardinality(T \ {s}) = Cardinality(T) - 1
                         /\ Cardinality(T) > 0
  <1>1. IsFiniteSet(T) /\ Cardinality(T) <= Cardinality(Sessions)
    BY FS_Subset
  <1>2. Cardinality(T) \in Nat /\ Cardinality(Sessions) \in Nat
    BY <1>1, FS_CardinalityType
  <1>3. s \notin T => Cardinality(T \cup {s}) = Cardinality(T) + 1
    BY <1>1, FS_AddElement
  <1>4. s \in T => Cardinality(T \ {s}) = Cardinality(T) - 1
    BY <1>1, FS_RemoveElement
  <1>5. s \in T => Cardinality(T) > 0
    BY <1>1, <1>2, FS_EmptySet
  <1> QED BY <1>1, <1>2, <1>3, <1>4, <1>5

\* The counters count up without wrapping, and down without going below zero.
LEMMA CounterArithmetic ==
    ASSUME NEW w \in Nat, NEW n \in Nat, n < w
    PROVE  /\ n + 1 < w => (n + 1) % w = n + 1
           /\ n > 0 => (n + (w - 1)) % w = n - 1
  OBVIOUS

\* A step that touches no session and no counter.
LEMMA QuietStep ==
    ASSUME ServiceInv, ServiceTypeOK', ErrorIsFailure',
           UNCHANGED <<app, session, active, total>>
    PROVE  ServiceInv'
  <1>1. Live' = Live /\ Counted' = Counted
    BY DEF Live, Counted
  <1>2. CountsAre'
    BY <1>1 DEF ServiceInv, CountsAre
  <1> QED BY <1>2 DEF ServiceInv

\* The life of the server.
LEMMA ServerSteps ==
    ASSUME ServiceInv,
           \/ StartDisabled \/ StartFails \/ Start
           \/ AcceptFails \/ Shutdown
           \/ ServeReturns
    PROVE  ServiceInv'
  <1> USE DEF ServiceInv, ServiceTypeOK, ErrorIsFailure, ServerStates
  <1>1. CASE StartDisabled
    BY <1>1, QuietStep DEF StartDisabled
  <1>2. CASE StartFails
    BY <1>2, QuietStep DEF StartFails
  <1>3. CASE Start
    BY <1>3, QuietStep DEF Start
  <1>4. CASE AcceptFails
    BY <1>4, QuietStep DEF AcceptFails
  <1>5. CASE Shutdown
    BY <1>5, QuietStep DEF Shutdown
  <1>6. CASE ServeReturns
    <2>1. ErrorIsFailure'
      BY <1>6 DEF ServeReturns, IsError
    <2>2. errText' \in BOOLEAN
      BY <1>6, Zenon DEF ServeReturns, IsError
    <2>3. ServiceTypeOK'
      BY <1>6, <2>2 DEF ServeReturns
    <2> QED BY <1>6, <2>1, <2>3, QuietStep DEF ServeReturns
  <1> QED BY <1>1, <1>2, <1>3, <1>4, <1>5, <1>6

\* A web request reads the status.
LEMMA StatusSteps ==
    ASSUME ServiceInv, Status
    PROVE  ServiceInv'
  <1> USE DEF ServiceInv, ServiceTypeOK, ErrorIsFailure
  <1>1. active \in Nat /\ total \in Nat
    BY WordIsLarge, FS_CardinalityType
  <1>2. CASE ReadState
    BY <1>2, QuietStep DEF ReadState, NoStatus
  <1>3. CASE ReadActive
    BY <1>1, <1>3, QuietStep DEF ReadActive
  <1>4. CASE ReadTotal
    BY <1>1, <1>4, QuietStep DEF ReadTotal
  <1> QED BY <1>2, <1>3, <1>4 DEF Status

\* Sessions come and go.
LEMMA SessionSteps ==
    ASSUME ServiceInv, NEW s \in Sessions,
           \/ Accept(s) \/ RefuseNoTerminal(s)
           \/ Handler(s) \/ LeaveApp(s)
    PROVE  ServiceInv'
  <1> USE DEF SessionTypes
  <1>1. /\ active \in Nat /\ total \in Nat
        /\ Cardinality(Live) \in 0..Cardinality(Sessions)
        /\ Cardinality(Counted) \in 0..Cardinality(Sessions)
        /\ Cardinality(Sessions) \in Nat
    <2>1. Live \in SUBSET Sessions /\ Counted \in SUBSET Sessions
      BY DEF Live, Counted
    <2>2. Cardinality(Sessions) \in Nat
      BY FS_CardinalityType, WordIsLarge
    <2>3. /\ Cardinality(Live) \in 0..Cardinality(Sessions)
          /\ Cardinality(Counted) \in 0..Cardinality(Sessions)
      BY <2>1, SizesOfSets, Zenon, WordIsLarge
    <2>4. {active, total} \subseteq 0..Cardinality(Sessions)
      BY DEF ServiceInv, ServiceTypeOK
    <2> QED BY <2>2, <2>3, <2>4
  <1>2. /\ session \in SessionTypes
        /\ CountsAre /\ ServiceTypeOK /\ ErrorIsFailure
    BY DEF ServiceInv, ServiceTypeOK
  <1>3. ASSUME UNCHANGED <<server, errText, status>>
        PROVE  ErrorIsFailure'
    BY <1>2, <1>3 DEF ErrorIsFailure
  <1>4. ASSUME UNCHANGED <<enabled, app, server, started, errText, status>>,
               active' \in 0..Cardinality(Sessions),
               total' \in 0..Cardinality(Sessions),
               session' \in SessionTypes
        PROVE  ServiceTypeOK'
    BY <1>2, <1>4 DEF ServiceTypeOK
  <1>5. CASE Accept(s)
    <2>1. Live' = Live /\ Counted' = Counted
      BY <1>2, <1>5 DEF Live, Counted, Accept, Goes
    <2>2. session' \in SessionTypes
      BY <1>2, <1>5 DEF Accept, Goes, Handlers
    <2>3. CountsAre'
      BY <1>2, <1>5, <2>1 DEF CountsAre, Accept, Goes
    <2>4. ServiceTypeOK'
      BY <1>2, <1>4, <1>5, <2>2 DEF Accept, ServiceTypeOK
    <2> QED BY <1>3, <1>5, <2>3, <2>4 DEF Accept, ServiceInv
  <1>6. CASE RefuseNoTerminal(s)
    <2>1. Live' = Live /\ Counted' = Counted
      BY <1>2, <1>6 DEF Live, Counted, RefuseNoTerminal, Goes
    <2>2. session' \in SessionTypes
      BY <1>2, <1>6
         DEF RefuseNoTerminal, Goes, Handlers
    <2>3. CountsAre'
      BY <1>2, <1>6, <2>1 DEF CountsAre, RefuseNoTerminal, Goes
    <2>4. ServiceTypeOK'
      BY <1>2, <1>4, <1>6, <2>2
         DEF RefuseNoTerminal, ServiceTypeOK
    <2> QED BY <1>3, <1>6, <2>3, <2>4 DEF RefuseNoTerminal, ServiceInv
  <1>7. CASE CountActive(s)
    <2>1. s \notin Live /\ Live' = Live \cup {s} /\ Counted' = Counted
      BY <1>2, <1>7 DEF Live, Counted, CountActive, Goes
    <2>2. session' \in SessionTypes
      BY <1>2, <1>7 DEF CountActive, Goes, Handlers
    <2>3. /\ Cardinality(Live') = Cardinality(Live) + 1
          /\ Cardinality(Live') \in 0..Cardinality(Sessions)
      <3>1. Live \in SUBSET Sessions /\ Live \cup {s} \in SUBSET Sessions
        BY DEF Live
      <3> QED BY <2>1, <3>1, SizesOfSets, WordIsLarge
    <2>4. active' = Cardinality(Live')
      <3>1. active' = (active + 1) % Word /\ active = Cardinality(Live)
        BY <1>2, <1>7 DEF CountActive, CountsAre
      <3>2. active < Word /\ active + 1 < Word
        BY <1>1, <2>3, <3>1, WordIsLarge
      <3> QED BY <1>1, <2>3, <3>1, <3>2, CounterArithmetic, WordIsLarge
    <2>5. CountsAre'
      BY <1>2, <1>7, <2>1, <2>4
         DEF CountsAre, CountActive, Goes
    <2>6. ServiceTypeOK'
      BY <1>2, <1>4, <1>7, <2>2, <2>3, <2>4
         DEF CountActive, ServiceTypeOK
    <2> QED BY <1>3, <1>7, <2>5, <2>6 DEF CountActive, ServiceInv
  <1>8. CASE CountTotal(s)
    <2>1. s \notin Counted /\ Counted' = Counted \cup {s} /\ Live' = Live
      BY <1>2, <1>8 DEF Live, Counted, CountTotal, Goes
    <2>2. session' \in SessionTypes
      BY <1>2, <1>8 DEF CountTotal, Goes, Handlers
    <2>3. /\ Cardinality(Counted') = Cardinality(Counted) + 1
          /\ Cardinality(Counted') \in 0..Cardinality(Sessions)
      <3>1. Counted \in SUBSET Sessions /\ Counted \cup {s} \in SUBSET Sessions
        BY DEF Counted
      <3> QED BY <2>1, <3>1, SizesOfSets, WordIsLarge
    <2>4. ~app /\ total' = Cardinality(Counted')
      <3>1. ~app /\ total' = (total + 1) % Word /\ total = Cardinality(Counted)
        BY <1>2, <1>8
           DEF CountTotal, CountsAre, Goes
      <3>2. total < Word /\ total + 1 < Word
        BY <1>1, <2>3, <3>1, WordIsLarge
      <3> QED BY <1>1, <2>3, <3>1, <3>2, CounterArithmetic, WordIsLarge
    <2>5. CountsAre'
      BY <1>2, <1>8, <2>1, <2>4 DEF CountsAre, CountTotal, Goes
    <2>6. ServiceTypeOK'
      BY <1>2, <1>4, <1>8, <2>2, <2>3, <2>4
         DEF CountTotal, ServiceTypeOK
    <2> QED BY <1>3, <1>8, <2>5, <2>6 DEF CountTotal, ServiceInv
  <1>9. CASE Render(s)
    <2>1. Live' = Live /\ Counted' = Counted
      BY <1>2, <1>9 DEF Live, Counted, Render, Goes
    <2>2. session' \in SessionTypes
      BY <1>2, <1>9 DEF Render, Goes, Handlers
    <2>3. CountsAre'
      BY <1>2, <1>9, <2>1 DEF CountsAre, Render, Goes
    <2>4. ServiceTypeOK'
      BY <1>2, <1>4, <1>9, <2>2 DEF Render, ServiceTypeOK
    <2> QED BY <1>3, <1>9, <2>3, <2>4 DEF Render, ServiceInv
  <1>10. CASE Uncount(s)
    <2>1. s \in Live /\ Live' = Live \ {s} /\ Counted' = Counted
      BY <1>2, <1>10 DEF Live, Counted, Uncount, Goes
    <2>2. session' \in SessionTypes
      BY <1>2, <1>10 DEF Uncount, Goes, Handlers
    <2>3. /\ Cardinality(Live') = Cardinality(Live) - 1
          /\ Cardinality(Live) > 0
      <3>1. Live \in SUBSET Sessions
        BY DEF Live
      <3> QED BY <2>1, <3>1, SizesOfSets, WordIsLarge
    <2>4. active' = Cardinality(Live')
      <3>1. /\ active' = (active + (Word - 1)) % Word
            /\ active = Cardinality(Live)
        BY <1>2, <1>10 DEF Uncount, MinusOne, CountsAre
      <3>2. active < Word
        BY <1>1, <3>1, WordIsLarge
      <3> QED BY <1>1, <2>3, <3>1, <3>2, CounterArithmetic, WordIsLarge
    <2>5. CountsAre'
      BY <1>2, <1>10, <2>1, <2>4 DEF CountsAre, Uncount, Goes
    <2>6. active' \in 0..Cardinality(Sessions)
      BY <1>1, <2>3, <2>4
    <2>7. ServiceTypeOK'
      BY <1>2, <1>4, <1>10, <2>2, <2>6
         DEF Uncount, ServiceTypeOK
    <2> QED BY <1>3, <1>10, <2>5, <2>7 DEF Uncount, ServiceInv
  <1>11. CASE LeaveApp(s)
    <2>1. Live' = Live /\ app
      BY <1>2, <1>11 DEF Live, LeaveApp, Goes, CountsAre
    <2>2. session' \in SessionTypes
      BY <1>2, <1>11 DEF LeaveApp, Goes, Handlers
    <2>3. CountsAre'
      BY <1>2, <1>11, <2>1 DEF CountsAre, LeaveApp, Goes
    <2>4. ServiceTypeOK'
      BY <1>2, <1>4, <1>11, <2>2 DEF LeaveApp, ServiceTypeOK
    <2> QED BY <1>3, <1>11, <2>3, <2>4 DEF LeaveApp, ServiceInv
  <1> QED BY <1>5, <1>6, <1>7, <1>8, <1>9, <1>10, <1>11 DEF Handler

\* The service starts with every counter at zero.
LEMMA ServiceStart == ServiceInit => ServiceInv
  <1> SUFFICES ASSUME ServiceInit PROVE ServiceInv
    OBVIOUS
  <1>1. Cardinality(Sessions) \in Nat /\ Cardinality({}) = 0
    BY WordIsLarge, FS_CardinalityType, FS_EmptySet
  <1>2. Live = {} /\ Counted = {}
    BY DEF ServiceInit, Live, Counted
  <1>3. NoStatus \in [pc : {"idle", "state", "active", "read"},
                   started : BOOLEAN, error : BOOLEAN, active : Nat, total : Nat]
    BY DEF NoStatus
  <1>4. ServiceTypeOK
    <2>1. /\ enabled \in BOOLEAN /\ app \in BOOLEAN
          /\ started \in BOOLEAN /\ errText \in BOOLEAN
      BY Zenon DEF ServiceInit
    <2>2. {active, total} \subseteq 0..Cardinality(Sessions)
      BY <1>1 DEF ServiceInit
    <2>3. session \in [Sessions -> Handlers
                                       \cup {"new", "refused", "gone"}]
      BY DEF ServiceInit
    <2> QED BY <1>3, <2>1, <2>2, <2>3
       DEF ServiceInit, ServiceTypeOK, ServerStates
  <1>5. CountsAre
    BY <1>1, <1>2 DEF ServiceInit, CountsAre
  <1>6. ErrorIsFailure
    BY DEF ServiceInit, ErrorIsFailure, NoStatus
  <1> QED BY <1>4, <1>5, <1>6 DEF ServiceInv

\* Every step keeps the invariant.
LEMMA ServiceStep ==
    ASSUME ServiceInv, [ServiceNext]_serviceVars
    PROVE  ServiceInv'
  <1>1. CASE UNCHANGED serviceVars
    <2>1. ServiceTypeOK' /\ ErrorIsFailure'
      BY <1>1
         DEF ServiceInv, ServiceTypeOK, ErrorIsFailure, serviceVars
    <2> QED BY <1>1, <2>1, QuietStep DEF serviceVars
  <1>2. CASE ServiceNext
    BY <1>2, ServerSteps, StatusSteps, SessionSteps
       DEF ServiceNext
  <1> QED BY <1>1, <1>2

\* The inductive invariant of the service, and with it its types, holds in
\* every state.
THEOREM ServiceInductive == ServiceSpec => []ServiceInv
  <1>1. ServiceInit => ServiceInv
    BY ServiceStart
  <1>2. ServiceInv /\ [ServiceNext]_serviceVars => ServiceInv'
    BY ServiceStep
  <1> QED BY <1>1, <1>2, PTL DEF ServiceSpec

\* The service's two counters, which every session of the built-in page changes
\* on its own: for any number of sessions active never wraps below zero, and
\* when no handler runs it is zero and total has missed nobody
\* (CountersSettle).
THEOREM CountersAreTrue == ServiceSpec => []CountersSettle
  <1>1. ServiceInv => CountersSettle
    <2> SUFFICES ASSUME ServiceInv PROVE CountersSettle
      OBVIOUS
    <2>1. /\ Live \in SUBSET Running /\ Running \in SUBSET Sessions
          /\ Counted \in SUBSET (Running \cup Gone)
          /\ Running \cup Gone \in SUBSET Sessions
      BY DEF Live, Counted, Running, Gone, Handlers
    <2>2. IsFiniteSet(Running) /\ IsFiniteSet(Running \cup Gone)
      BY WordIsLarge, <2>1, FS_Subset
    <2>3. active <= Cardinality(Running)
      BY <2>1, <2>2, FS_Subset DEF ServiceInv, CountsAre
    <2>4. total <= Cardinality(Running \cup Gone)
      <3>1. Cardinality(Running \cup Gone) \in Nat
        BY <2>2, FS_CardinalityType
      <3>2. Cardinality(Counted) <= Cardinality(Running \cup Gone)
        BY <2>1, <2>2, FS_Subset
      <3>3. 0 <= Cardinality(Running \cup Gone)
        BY <3>1
      <3>4. total = 0 \/ total = Cardinality(Counted)
        BY DEF ServiceInv, CountsAre
      <3> QED BY <3>2, <3>3, <3>4
    <2>5. ASSUME Running = {}
          PROVE  active = 0 /\ (~app => total = Cardinality(Gone))
      <3>1. Live = {} /\ Counted = Gone
        BY <2>5 DEF Live, Counted, Running, Gone, Handlers
      <3> QED BY <3>1, FS_EmptySet DEF ServiceInv, CountsAre
    <2> QED BY <2>3, <2>4, <2>5 DEF CountersSettle
  <1> QED BY <1>1, ServiceInductive, PTL

\* serve, setError and Status: an error in the status is a listener that
\* failed, never a Shutdown (the first half of StatusTellsFailure).
THEOREM ErrorsAreFailures ==
    ServiceSpec => [](status.error => server = "failed")
  <1>1. ServiceInv => (status.error => server = "failed")
    BY DEF ServiceInv, ErrorIsFailure
  <1> QED BY <1>1, ServiceInductive, PTL
=============================================================================
