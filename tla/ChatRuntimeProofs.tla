------------------------- MODULE ChatRuntimeProofs -------------------------
(***************************************************************************)
(* Proofs about ChatRuntime, for any number of callers, any directories,   *)
(* any layout of files and environment and any settings.                   *)
(***************************************************************************)
EXTENDS ChatRuntime, TLAPS

-----------------------------------------------------------------------------
(* What the callers rely on *)

\* The labels between Lock and Unlock.
Critical == {"export", "read", "restore", "unlock"}

\* A caller is inside exactly while it holds the mutex.
Exclusion == \A c \in Callers : call[c].pc \in Critical <=> mutex = c

\* What the holder has made of the variable: it is the process's own but
\* between Export and Restore, and the old value is at hand until then.
HolderKnowsEnv ==
    \A c \in Callers :
        /\ call[c].pc \in {"export", "unlock"} => env = host.xdg
        /\ call[c].pc \in {"read", "restore"} => env = call[c].home
        /\ call[c].pc \in {"export", "read", "restore"} =>
                call[c].saved = host.xdg

\* The values guessConfigHome may meet: the process's own, or the directory
\* every caller finds, where there is one.
Harmless(value) == value = host.xdg \/ (value = HomeAlone /\ HomeAlone \in Homes)

\* Half-way through guessConfigHome the first value met is one of them.
GuessHarmless ==
    \A c \in Callers :
        call[c].pc = "guess" => host.config = None /\ Harmless(call[c].seen)

\* Nobody gets to the mutex without a directory, or past it without settings.
Progress ==
    \A c \in Callers :
        /\ call[c].pc \notin {"idle", "guess", "registries", "failed"} =>
                call[c].home \in Homes
        /\ call[c].pc \in {"idle", "guess", "registries", "lock", "export",
                           "read"} => call[c].from = None
        /\ call[c].pc \in {"profiles", "snapshot", "request"} =>
                call[c].from # None

\* The inductive invariant.
IndInv ==
    /\ TypeOK
    /\ Exclusion
    /\ EnvRestored
    /\ HolderKnowsEnv
    /\ GuessHarmless
    /\ Progress
    /\ FindsHomeAlone
    /\ SettingsFromOwnHome
    /\ KeyStaysWithProvider

-----------------------------------------------------------------------------
(* guessConfigHome *)

\* The loop of guessConfigHome returns the first of its four candidates that
\* holds a configuration file.
LEMMA FirstHitIs ==
    ASSUME NEW a, NEW b, NEW c, NEW d
    PROVE  FirstHit(<<a, b, c, d>>) =
             IF HoldsConfig(a) THEN a ELSE
             IF HoldsConfig(b) THEN b ELSE
             IF HoldsConfig(c) THEN c ELSE
             IF HoldsConfig(d) THEN d ELSE None
  <1> DEFINE four == <<a, b, c, d>>
             hits == {i \in 1..4 : HoldsConfig(four[i])}
             first == CHOOSE i \in hits : \A j \in hits : i <= j
  <1>1. FirstHit(four) = IF hits = {} THEN None ELSE four[first]
    BY DEF FirstHit
  <1>2. four[1] = a /\ four[2] = b /\ four[3] = c /\ four[4] = d
    OBVIOUS
  <1>3. \A i : i \in hits <=> i \in {1, 2, 3, 4} /\ HoldsConfig(four[i])
    OBVIOUS
  <1> HIDE DEF four, hits
  <1>4. ASSUME NEW k \in {1, 2, 3, 4}, k \in hits, \A j \in hits : k <= j
        PROVE  first = k
    <2>1. \A j \in hits : j \in {1, 2, 3, 4}
      BY <1>3
    <2>2. first \in hits /\ \A j \in hits : first <= j
      BY <1>4
    <2> HIDE DEF first
    <2> QED BY <1>4, <2>1, <2>2
  <1> HIDE DEF first
  <1>5. CASE HoldsConfig(a)
    <2>1. first = 1 /\ hits # {}
      BY <1>2, <1>3, <1>4, <1>5
    <2> QED BY <1>1, <1>2, <1>5, <2>1 DEF four
  <1>6. CASE ~HoldsConfig(a) /\ HoldsConfig(b)
    <2>1. first = 2 /\ hits # {}
      BY <1>2, <1>3, <1>4, <1>6
    <2> QED BY <1>1, <1>2, <1>6, <2>1 DEF four
  <1>7. CASE ~HoldsConfig(a) /\ ~HoldsConfig(b) /\ HoldsConfig(c)
    <2>1. first = 3 /\ hits # {}
      BY <1>2, <1>3, <1>4, <1>7
    <2> QED BY <1>1, <1>2, <1>7, <2>1 DEF four
  <1>8. CASE /\ ~HoldsConfig(a) /\ ~HoldsConfig(b) /\ ~HoldsConfig(c)
             /\ HoldsConfig(d)
    <2>1. first = 4 /\ hits # {}
      BY <1>2, <1>3, <1>4, <1>8
    <2> QED BY <1>1, <1>2, <1>8, <2>1 DEF four
  <1>9. CASE /\ ~HoldsConfig(a) /\ ~HoldsConfig(b)
             /\ ~HoldsConfig(c) /\ ~HoldsConfig(d)
    <2>1. hits = {}
      BY <1>2, <1>3, <1>9
    <2> QED BY <1>1, <1>9, <2>1 DEF four
  <1> QED BY <1>5, <1>6, <1>7, <1>8, <1>9

\* Whatever harmless values the two unprotected reads meet, guessConfigHome
\* finds the directory it finds alone: another caller can only have exported
\* that very directory.
LEMMA GuessIsStable ==
    ASSUME host \in Host, host.config = None, NEW x, NEW y,
           Harmless(x), Harmless(y)
    PROVE  GuessConfigHome(x, y) = HomeAlone
  <1> DEFINE pick(u, v) ==
          IF HoldsConfig(host.root) THEN host.root ELSE
          IF HoldsConfig(u) THEN u ELSE
          IF HoldsConfig(UserConfigDir(v)) THEN UserConfigDir(v) ELSE
          IF HoldsConfig(host.userHome) THEN host.userHome ELSE None
  <1>1. \A u, v : GuessConfigHome(u, v) = pick(u, v)
    BY FirstHitIs DEF GuessConfigHome
  <1>2. HomeAlone = pick(host.xdg, host.xdg)
    BY <1>1 DEF HomeAlone
  <1>3. HomeAlone \in Homes => HoldsConfig(HomeAlone)
    BY <1>2, NoSuchHome
  <1>4. \A v \in Homes : UserConfigDir(v) = v
    BY DEF UserConfigDir
  <1>5. \A v : HoldsConfig(v) => v \in Homes
    BY DEF HoldsConfig
  <1>6. pick(x, y) = pick(host.xdg, host.xdg)
    BY <1>2, <1>3, <1>4, <1>5 DEF Harmless
  <1> QED BY <1>1, <1>2, <1>6

\* The files and the environment of the process are fixed, so the directory
\* everyone finds is.
LEMMA HomeAloneFixed == host' = host => HomeAlone' = HomeAlone
  BY DEF HomeAlone, GuessConfigHome, FirstHit, HoldsConfig, UserConfigDir

\* guessConfigHome returns a directory or nothing.
LEMMA GuessType ==
    ASSUME host \in Host, NEW x \in Homes \cup {None, Blank},
           NEW y \in Homes \cup {None, Blank}
    PROVE  GuessConfigHome(x, y) \in Homes \cup {None}
  <1>1. UserConfigDir(y) \in Homes \cup {None}
    BY DEF UserConfigDir, Host
  <1> QED BY <1>1, FirstHitIs DEF GuessConfigHome, HoldsConfig, Host

-----------------------------------------------------------------------------
(* providerDebug *)

\* A base URL and a key are names of providers, and a key is the key of the
\* provider whose URL is asked.
LEMMA AnswerMatches ==
    ASSUME NEW s \in Settings
    PROVE  /\ BaseURL(s) \in Keys \cup {None}
           /\ APIKey(s) \in Keys \cup {None}
           /\ BaseURL(s) # None /\ APIKey(s) # None => BaseURL(s) = APIKey(s)
  BY DEF Settings, APITypes, Keys, BaseURL, APIKey, Provider, None

-----------------------------------------------------------------------------
(* The steps *)

\* Only caller c has moved, to the label pc; the other fields are these.
CallBecomes(c, pc, seen, home, saved, from, asked) ==
    /\ call' \in [Callers -> Call]
    /\ call'[c].pc = pc /\ call'[c].seen = seen /\ call'[c].home = home
    /\ call'[c].saved = saved /\ call'[c].from = from /\ call'[c].asked = asked
    /\ \A d \in Callers \ {c} : call'[d] = call[d]

\* What the steps that set a field next to the label make of a record.
LEMMA TwoFields ==
    ASSUME NEW c \in Callers, call \in [Callers -> Call], NEW pc \in Labels
    PROVE  /\ \A v \in Homes \cup {None, Blank} :
                call' = [call EXCEPT ![c].pc = pc, ![c].seen = v] =>
                    CallBecomes(c, pc, v, call[c].home, call[c].saved,
                                call[c].from, call[c].asked)
           /\ \A v \in Homes \cup {None} :
                call' = [call EXCEPT ![c].pc = pc, ![c].home = v] =>
                    CallBecomes(c, pc, call[c].seen, v, call[c].saved,
                                call[c].from, call[c].asked)
           /\ \A v \in Homes \cup {None, Blank} :
                call' = [call EXCEPT ![c].pc = pc, ![c].saved = v] =>
                    CallBecomes(c, pc, call[c].seen, call[c].home, v,
                                call[c].from, call[c].asked)
           /\ \A v \in Answers :
                call' = [call EXCEPT ![c].pc = pc, ![c].asked = v] =>
                    CallBecomes(c, pc, call[c].seen, call[c].home,
                                call[c].saved, call[c].from, v)
  <1> DEFINE k == call[c]
  <1>1. k \in Call
    OBVIOUS
  <1>2. ASSUME NEW v \in Homes \cup {None, Blank},
               call' = [call EXCEPT ![c].pc = pc, ![c].seen = v]
        PROVE  CallBecomes(c, pc, v, k.home, k.saved, k.from, k.asked)
    <2>1. call' = [call EXCEPT ![c] = [[k EXCEPT !.pc = pc] EXCEPT !.seen = v]]
      BY <1>2
    <2> HIDE DEF k
    <2>2. [[k EXCEPT !.pc = pc] EXCEPT !.seen = v] \in Call
      BY <1>1 DEF Call
    <2> QED BY <1>1, <2>1, <2>2 DEF CallBecomes, Call
  <1>3. ASSUME NEW v \in Homes \cup {None},
               call' = [call EXCEPT ![c].pc = pc, ![c].home = v]
        PROVE  CallBecomes(c, pc, k.seen, v, k.saved, k.from, k.asked)
    <2>1. call' = [call EXCEPT ![c] = [[k EXCEPT !.pc = pc] EXCEPT !.home = v]]
      BY <1>3
    <2> HIDE DEF k
    <2>2. [[k EXCEPT !.pc = pc] EXCEPT !.home = v] \in Call
      BY <1>1 DEF Call
    <2> QED BY <1>1, <2>1, <2>2 DEF CallBecomes, Call
  <1>4. ASSUME NEW v \in Homes \cup {None, Blank},
               call' = [call EXCEPT ![c].pc = pc, ![c].saved = v]
        PROVE  CallBecomes(c, pc, k.seen, k.home, v, k.from, k.asked)
    <2>1. call' = [call EXCEPT ![c] = [[k EXCEPT !.pc = pc] EXCEPT !.saved = v]]
      BY <1>4
    <2> HIDE DEF k
    <2>2. [[k EXCEPT !.pc = pc] EXCEPT !.saved = v] \in Call
      BY <1>1 DEF Call
    <2> QED BY <1>1, <2>1, <2>2 DEF CallBecomes, Call
  <1>5. ASSUME NEW v \in Answers,
               call' = [call EXCEPT ![c].pc = pc, ![c].asked = v]
        PROVE  CallBecomes(c, pc, k.seen, k.home, k.saved, k.from, v)
    <2>1. call' = [call EXCEPT ![c] = [[k EXCEPT !.pc = pc] EXCEPT !.asked = v]]
      BY <1>5
    <2> HIDE DEF k
    <2>2. [[k EXCEPT !.pc = pc] EXCEPT !.asked = v] \in Call
      BY <1>1 DEF Call
    <2> QED BY <1>1, <2>1, <2>2 DEF CallBecomes, Call
  <1> QED BY <1>2, <1>3, <1>4, <1>5

\* Whatever the variable holds at an unprotected read is harmless.
LEMMA EnvHarmless == IndInv => Harmless(env)
  BY DEF IndInv, TypeOK, Exclusion, EnvRestored, HolderKnowsEnv, Progress,
         FindsHomeAlone, Harmless, Critical

\* A caller that is past the mutex has settings of the right type.
LEMMA EffectiveType ==
    ASSUME IndInv, NEW c \in Callers, At(c, "request")
    PROVE  Effective(c) \in Settings
  <1>1. call[c].from \in Homes /\ call[c].home \in Homes
    BY DEF IndInv, TypeOK, Progress, At, Call
  <1> QED BY <1>1, SettingsType DEF Effective, Source

\* Steps that leave the mutex and the variable alone.
LEMMA PrivateStep ==
    ASSUME IndInv, NEW c \in Callers,
           \/ Configured(c) \/ ReadXdg(c) \/ Guess(c) \/ Registries(c)
           \/ Profiles(c) \/ ProfilesFail(c) \/ Snapshot(c) \/ Probe(c)
           \/ Again(c)
    PROVE  IndInv'
  <1> USE NoSuchCaller, NoSuchHome, KindsOfCallers
      DEF IndInv, TypeOK, Exclusion, EnvRestored, HolderKnowsEnv, Progress,
          GuessHarmless, FindsHomeAlone, SettingsFromOwnHome,
          KeyStaysWithProvider, Harmless, Critical, At, Call, Labels
  <1>1. HomeAlone' = HomeAlone /\ host' = host /\ host \in Host
    BY HomeAloneFixed
       DEF Configured, ReadXdg, Guess, Registries, Profiles, ProfilesFail,
           Snapshot, Probe, Again
  <1>2. CASE Configured(c)
    <2>1. At(c, "idle") /\ host.config # None /\ UNCHANGED <<env, mutex>>
      BY <1>2 DEF Configured
    <2>2. CallBecomes(c, "registries", call[c].seen, host.config, call[c].saved,
                      call[c].from, call[c].asked)
      BY <1>1, <1>2, TwoFields DEF Configured, Host
    <2> USE DEF CallBecomes
    <2>11. TypeOK'
      BY <1>1, <2>1, <2>2 DEF CallBecomes, HomeAlone, Host
    <2>12. Exclusion'
      BY <1>1, <2>1, <2>2 DEF CallBecomes, HomeAlone, Host
    <2>13. EnvRestored'
      BY <1>1, <2>1, <2>2 DEF CallBecomes, HomeAlone, Host
    <2>14. HolderKnowsEnv'
      BY <1>1, <2>1, <2>2 DEF CallBecomes, HomeAlone, Host
    <2>15. GuessHarmless'
      BY <1>1, <2>1, <2>2 DEF CallBecomes, HomeAlone, Host
    <2>16. Progress'
      BY <1>1, <2>1, <2>2 DEF CallBecomes, HomeAlone, Host
    <2>17. FindsHomeAlone'
      BY <1>1, <2>1, <2>2 DEF CallBecomes, HomeAlone, Host
    <2>18. SettingsFromOwnHome'
      BY <1>1, <2>1, <2>2 DEF CallBecomes, HomeAlone, Host
    <2>19. KeyStaysWithProvider'
      BY <1>1, <2>1, <2>2 DEF CallBecomes, HomeAlone, Host
    <2> QED BY <2>11, <2>12, <2>13, <2>14, <2>15, <2>16, <2>17, <2>18, <2>19
  <1>3. CASE ReadXdg(c)
    <2>1. At(c, "idle") /\ host.config = None /\ UNCHANGED <<env, mutex>>
      BY <1>3 DEF ReadXdg
    <2>2. CallBecomes(c, "guess", env, call[c].home, call[c].saved,
                      call[c].from, call[c].asked)
      BY <1>3, TwoFields DEF ReadXdg
    <2> USE DEF CallBecomes
    <2>11. TypeOK'
      BY <1>1, <2>1, <2>2, EnvHarmless DEF CallBecomes
    <2>12. Exclusion'
      BY <1>1, <2>1, <2>2, EnvHarmless DEF CallBecomes
    <2>13. EnvRestored'
      BY <1>1, <2>1, <2>2, EnvHarmless DEF CallBecomes
    <2>14. HolderKnowsEnv'
      BY <1>1, <2>1, <2>2, EnvHarmless DEF CallBecomes
    <2>15. GuessHarmless'
      BY <1>1, <2>1, <2>2, EnvHarmless DEF CallBecomes
    <2>16. Progress'
      BY <1>1, <2>1, <2>2, EnvHarmless DEF CallBecomes
    <2>17. FindsHomeAlone'
      BY <1>1, <2>1, <2>2, EnvHarmless DEF CallBecomes
    <2>18. SettingsFromOwnHome'
      BY <1>1, <2>1, <2>2, EnvHarmless DEF CallBecomes
    <2>19. KeyStaysWithProvider'
      BY <1>1, <2>1, <2>2, EnvHarmless DEF CallBecomes
    <2> QED BY <2>11, <2>12, <2>13, <2>14, <2>15, <2>16, <2>17, <2>18, <2>19
  <1>4. CASE Guess(c)
    <2>1. GuessConfigHome(call[c].seen, env) = HomeAlone
      BY <1>1, <1>4, EnvHarmless, GuessIsStable DEF Guess
    <2>2. HomeAlone \in Homes \cup {None}
      BY <1>1, <1>4, <2>1, GuessType DEF Guess
    <2>3. At(c, "guess") /\ UNCHANGED <<env, mutex>>
      BY <1>4 DEF Guess
    <2>4. CallBecomes(c, "registries", call[c].seen, HomeAlone, call[c].saved,
                      call[c].from, call[c].asked)
      BY <1>4, <2>1, <2>2, TwoFields DEF Guess
    <2> USE DEF CallBecomes
    <2>11. TypeOK'
      BY <1>1, <2>2, <2>3, <2>4 DEF CallBecomes
    <2>12. Exclusion'
      BY <1>1, <2>2, <2>3, <2>4 DEF CallBecomes
    <2>13. EnvRestored'
      BY <1>1, <2>2, <2>3, <2>4 DEF CallBecomes
    <2>14. HolderKnowsEnv'
      BY <1>1, <2>2, <2>3, <2>4 DEF CallBecomes
    <2>15. GuessHarmless'
      BY <1>1, <2>2, <2>3, <2>4 DEF CallBecomes
    <2>16. Progress'
      BY <1>1, <2>2, <2>3, <2>4 DEF CallBecomes
    <2>17. FindsHomeAlone'
      BY <1>1, <2>2, <2>3, <2>4 DEF CallBecomes
    <2>18. SettingsFromOwnHome'
      BY <1>1, <2>2, <2>3, <2>4 DEF CallBecomes
    <2>19. KeyStaysWithProvider'
      BY <1>1, <2>2, <2>3, <2>4 DEF CallBecomes
    <2> QED BY <2>11, <2>12, <2>13, <2>14, <2>15, <2>16, <2>17, <2>18, <2>19
  <1>5. CASE Registries(c)
    BY <1>1, <1>5 DEF Registries, Resolved
  <1>6. CASE Profiles(c)
    BY <1>1, <1>6 DEF Profiles, Kinds
  <1>7. CASE ProfilesFail(c)
    BY <1>1, <1>7 DEF ProfilesFail
  <1>8. CASE Snapshot(c)
    BY <1>1, <1>8 DEF Snapshot
  <1>9. CASE Probe(c)
    <2> DEFINE url == BaseURL(Effective(c))
               key == APIKey(Effective(c))
    <2>1. At(c, "request") /\ UNCHANGED <<env, mutex>>
      BY <1>9 DEF Probe
    <2>2. /\ url \in Keys \cup {None} /\ key \in Keys \cup {None}
          /\ url # None /\ key # None => url = key
      BY <2>1, EffectiveType, AnswerMatches
    <2> DEFINE end == IF url = None THEN "failed" ELSE "done"
               answer == IF url = None THEN NoAnswer
                                       ELSE [url |-> url, key |-> key]
    <2>3. call' = [call EXCEPT ![c].pc = end, ![c].asked = answer]
      BY <1>9 DEF Probe
    <2> HIDE DEF url, key
    <2>4. /\ end \in {"done", "failed"}
          /\ answer \in Answers
          /\ answer.key # None => answer.url = answer.key
      BY <2>2 DEF NoAnswer, Answers
    <2> HIDE DEF end, answer
    <2>5. CallBecomes(c, end, call[c].seen, call[c].home, call[c].saved,
                      call[c].from, answer)
      <3>1. end \in Labels /\ call \in [Callers -> Call]
        BY <2>4
      <3> QED BY <2>3, <2>4, <3>1, TwoFields, Zenon
    <2> USE DEF CallBecomes
    <2>11. TypeOK'
      BY <1>1, <2>1, <2>4, <2>5 DEF CallBecomes
    <2>12. Exclusion'
      BY <1>1, <2>1, <2>4, <2>5 DEF CallBecomes
    <2>13. EnvRestored'
      BY <1>1, <2>1, <2>4, <2>5 DEF CallBecomes
    <2>14. HolderKnowsEnv'
      BY <1>1, <2>1, <2>4, <2>5 DEF CallBecomes
    <2>15. GuessHarmless'
      BY <1>1, <2>1, <2>4, <2>5 DEF CallBecomes
    <2>16. Progress'
      BY <1>1, <2>1, <2>4, <2>5 DEF CallBecomes
    <2>17. FindsHomeAlone'
      BY <1>1, <2>1, <2>4, <2>5 DEF CallBecomes
    <2>18. SettingsFromOwnHome'
      BY <1>1, <2>1, <2>4, <2>5 DEF CallBecomes
    <2>19. KeyStaysWithProvider'
      BY <1>1, <2>1, <2>4, <2>5 DEF CallBecomes
    <2> QED BY <2>11, <2>12, <2>13, <2>14, <2>15, <2>16, <2>17, <2>18, <2>19
  <1>10. CASE Again(c)
    BY <1>1, <1>10 DEF Again, Idle, NoAnswer, Answers
  <1> QED BY <1>2, <1>3, <1>4, <1>5, <1>6, <1>7, <1>8, <1>9, <1>10

\* The steps of resolveBaseStepSettings.
LEMMA CriticalStep ==
    ASSUME IndInv, NEW c \in Callers,
           \/ Lock(c) \/ Export(c) \/ ExportFails(c) \/ ReadSettings(c)
           \/ ReadFails(c) \/ Restore(c) \/ Unlock(c)
    PROVE  IndInv'
  <1> USE NoSuchCaller, NoSuchHome
      DEF IndInv, TypeOK, Exclusion, EnvRestored, HolderKnowsEnv, Progress,
          GuessHarmless, FindsHomeAlone, SettingsFromOwnHome,
          KeyStaysWithProvider, Harmless, Critical, At, Call, Labels
  <1>1. HomeAlone' = HomeAlone /\ host' = host /\ host \in Host
    BY HomeAloneFixed
       DEF Lock, Export, ExportFails, ReadSettings, ReadFails, Restore, Unlock
  <1>2. CASE Lock(c)
    <2>1. At(c, "lock") /\ mutex = None /\ mutex' = c /\ env' = env
      BY <1>2 DEF Lock, MutexFree
    <2>2. CallBecomes(c, "export", call[c].seen, call[c].home, env,
                      call[c].from, call[c].asked)
      BY <1>2, TwoFields DEF Lock
    <2> USE DEF CallBecomes
    <2>11. TypeOK'
      BY <1>1, <2>1, <2>2 DEF CallBecomes
    <2>12. Exclusion'
      BY <1>1, <2>1, <2>2 DEF CallBecomes
    <2>13. EnvRestored'
      BY <1>1, <2>1, <2>2 DEF CallBecomes
    <2>14. HolderKnowsEnv'
      BY <1>1, <2>1, <2>2 DEF CallBecomes
    <2>15. GuessHarmless'
      BY <1>1, <2>1, <2>2 DEF CallBecomes
    <2>16. Progress'
      BY <1>1, <2>1, <2>2 DEF CallBecomes
    <2>17. FindsHomeAlone'
      BY <1>1, <2>1, <2>2 DEF CallBecomes
    <2>18. SettingsFromOwnHome'
      BY <1>1, <2>1, <2>2 DEF CallBecomes
    <2>19. KeyStaysWithProvider'
      BY <1>1, <2>1, <2>2 DEF CallBecomes
    <2> QED BY <2>11, <2>12, <2>13, <2>14, <2>15, <2>16, <2>17, <2>18, <2>19
  <1>3. CASE Export(c)
    BY <1>1, <1>3 DEF Export, Exported
  <1>4. CASE ExportFails(c)
    BY <1>1, <1>4 DEF ExportFails
  <1>5. CASE ReadSettings(c)
    BY <1>1, <1>5 DEF ReadSettings
  <1>6. CASE ReadFails(c)
    BY <1>1, <1>6 DEF ReadFails
  <1>7. CASE Restore(c)
    BY <1>1, <1>7 DEF Restore, OldValue, Host
  <1>8. CASE Unlock(c)
    BY <1>1, <1>8 DEF Unlock
  <1> QED BY <1>2, <1>3, <1>4, <1>5, <1>6, <1>7, <1>8

\* Every step of every caller keeps the invariant.
LEMMA IndStep == IndInv /\ [Next]_vars => IndInv'
  <1> SUFFICES ASSUME IndInv, [Next]_vars PROVE IndInv'
    OBVIOUS
  <1>1. ASSUME NEW c \in Callers, Step(c) \/ Lock(c) \/ Again(c)
        PROVE  IndInv'
    BY <1>1, PrivateStep, CriticalStep DEF Step
  <1>2. CASE UNCHANGED vars
    <2>1. HomeAlone' = HomeAlone
      BY <1>2, HomeAloneFixed DEF vars
    <2> QED
      BY <1>2, <2>1
         DEF vars, IndInv, TypeOK, Exclusion, EnvRestored, HolderKnowsEnv,
             GuessHarmless, Harmless, Progress, FindsHomeAlone,
             SettingsFromOwnHome, KeyStaysWithProvider
  <1> QED BY <1>1, <1>2 DEF Next

\* It holds when the process has started.
LEMMA IndInit == Init => IndInv
  <1> SUFFICES ASSUME Init PROVE IndInv
    OBVIOUS
  <1> USE DEF Init
  <1>1. \A c \in Callers : call[c] = Idle
    OBVIOUS
  <1>2. Idle \in Call
    BY DEF Idle, Call, Labels, NoAnswer, Answers
  <1>3. TypeOK
    BY <1>2, HostsType DEF TypeOK, Host
  <1>4. /\ Idle.pc = "idle" /\ Idle.from = None /\ Idle.asked.key = None
    BY DEF Idle, NoAnswer
  <1> QED
    BY <1>1, <1>3, <1>4, NoSuchCaller
       DEF IndInv, Exclusion, Critical, EnvRestored, HolderKnowsEnv,
           GuessHarmless, Progress, FindsHomeAlone, SettingsFromOwnHome,
           KeyStaysWithProvider

\* The inductive invariant of loadRuntimeDetails' callers.
THEOREM Inductive == Spec => []IndInv
  BY IndInit, IndStep, PTL DEF Spec

-----------------------------------------------------------------------------
(* The results *)

\* Every variable keeps its type, whoever runs loadRuntimeDetails.
THEOREM TypeCorrect == Spec => []TypeOK
  <1>1. IndInv => TypeOK
    BY DEF IndInv
  <1> QED BY <1>1, Inductive, PTL

\* However many callers there are and whatever fails, XDG_CONFIG_HOME is
\* what the process was started with whenever the mutex is free.
THEOREM EnvironmentRestored == Spec => []EnvRestored
  <1>1. IndInv => EnvRestored
    BY DEF IndInv
  <1> QED BY <1>1, Inductive, PTL

\* The two reads of guessConfigHome outside the mutex are benign: every
\* caller resolves the directory it would resolve alone.
THEOREM UnlockedReadsAreBenign == Spec => []FindsHomeAlone
  <1>1. IndInv => FindsHomeAlone
    BY DEF IndInv
  <1> QED BY <1>1, Inductive, PTL

\* The library reads the directory its caller resolved, never another's.
THEOREM OwnSettings == Spec => []SettingsFromOwnHome
  <1>1. IndInv => SettingsFromOwnHome
    BY DEF IndInv
  <1> QED BY <1>1, Inductive, PTL

\* For any settings, the probe sends a key only to its own provider.
THEOREM KeyToItsProvider == Spec => []KeyStaysWithProvider
  <1>1. IndInv => KeyStaysWithProvider
    BY DEF IndInv
  <1> QED BY <1>1, Inductive, PTL

=============================================================================
