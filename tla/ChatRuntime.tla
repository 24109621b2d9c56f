---------------------------- MODULE ChatRuntime ----------------------------
(***************************************************************************)
(* How the AI chat finds its configuration (internal/aichat):              *)
(* loadRuntimeDetails, run by every SSH session that builds a chat surface *)
(* and by the web handlers of the debug snapshot and the provider probe,   *)
(* all on goroutines of one process.                                       *)
(*                                                                         *)
(* The base settings are read by a library that takes its directory from   *)
(* the environment, so resolveBaseStepSettings exports XDG_CONFIG_HOME     *)
(* under a mutex and puts the old value back.  guessConfigHome reads the   *)
(* same variable, twice, without the mutex: it can meet the value another  *)
(* caller has exported.                                                    *)
(*                                                                         *)
(* Abstractions.  A directory is a member of Homes; what matters of it is  *)
(* which of the two configuration files it holds.  The files, the user     *)
(* database and the other environment variables (host) do not change while *)
(* the process runs; all callers pass the same state root.  Settings are   *)
(* reduced to what providerDebug looks at.                                 *)
(***************************************************************************)
EXTENDS Integers

CONSTANTS
    Callers,        \* goroutines that run loadRuntimeDetails
    KindOf,         \* what each does with the result: chat, debug or probe
    Homes,          \* configuration directories
    Hosts,          \* layouts of files and environment considered
    EffectiveOf     \* settings, by directory and source of the profiles

Kinds == {"chat", "debug", "probe"}

\* No directory; an unset variable.
None == "none"

\* A variable that is set to the empty string.
Blank == ""

\* The profile registries come from an option or PINOCCHIO_PROFILE_REGISTRIES.
Given == "given"

\* An API type names its own base URL and key; openai-responses uses openai's.
APITypes == {"", "openai", "openai-responses", "claude"}
Keys == {"openai", "openai-responses", "claude"}

Settings == [api : APITypes, bases : SUBSET Keys, keys : SUBSET Keys]

ASSUME KindsOfCallers == KindOf \in [Callers -> Kinds]
ASSUME NoSuchCaller == None \notin Callers
ASSUME NoSuchHome == Homes \cap {None, Blank, Given} = {}
ASSUME SettingsType == EffectiveOf \in [Homes \X (Homes \cup {Given}) -> Settings]

\* root: the parent of the state root; config: GO_INIT_PINOCCHIO_CONFIG_HOME;
\* dotConfig: $HOME/.config; userHome: the user database's home/.config.
Host == [root : Homes \cup {None}, config : Homes \cup {None},
         xdg : Homes \cup {None, Blank}, dotConfig : Homes \cup {None},
         userHome : Homes \cup {None}, registries : BOOLEAN,
         files : [Homes -> SUBSET {"config.yaml", "profiles.yaml"}]]

ASSUME HostsType == Hosts \subseteq Host

VARIABLES
    host,       \* files and environment of the process, fixed
    env,        \* XDG_CONFIG_HOME
    mutex,      \* the holder of resolveBaseSettingsMu
    call        \* per caller: where it is and what it has read

vars == <<host, env, mutex, call>>

Labels == {"idle", "guess", "registries", "lock", "export", "read", "restore",
           "unlock", "profiles", "snapshot", "request", "done", "failed"}

Answers == [url : Keys \cup {None}, key : Keys \cup {None}]

Call == [pc : Labels, seen : Homes \cup {None, Blank},
         home : Homes \cup {None}, saved : Homes \cup {None, Blank},
         from : Homes \cup {None}, asked : Answers]

NoAnswer == [url |-> None, key |-> None]

Idle == [pc |-> "idle", seen |-> None, home |-> None, saved |-> None,
         from |-> None, asked |-> NoAnswer]

Init ==
    /\ host \in Hosts
    /\ env = host.xdg
    /\ mutex = None
    /\ call = [c \in Callers |-> Idle]

At(c, pc) == call[c].pc = pc

-----------------------------------------------------------------------------
(* resolveRuntime: the directory and the registries *)

\* os.UserConfigDir: the variable, or $HOME/.config when it is empty.
UserConfigDir(value) == IF value \in Homes THEN value ELSE host.dotConfig

\* fileExists of config.yaml or profiles.yaml.
HoldsConfig(h) == h \in Homes /\ host.files[h] # {}

\* guessConfigHome's loop: the first candidate that holds a file.
FirstHit(candidates) ==
    LET hits == {i \in 1..4 : HoldsConfig(candidates[i])}
    IN  IF hits = {} THEN None
        ELSE candidates[CHOOSE i \in hits : \A j \in hits : i <= j]

\* guessConfigHome, with what its two reads of the variable returned.
GuessConfigHome(first, second) ==
    FirstHit(<<host.root, first, UserConfigDir(second), host.userHome>>)

\* resolveRuntime: GO_INIT_PINOCCHIO_CONFIG_HOME decides when it is set.
Configured(c) ==
    /\ At(c, "idle") /\ host.config # None
    /\ call' = [call EXCEPT ![c].pc = "registries", ![c].home = host.config]
    /\ UNCHANGED <<host, env, mutex>>

\* guessConfigHome's first read, os.Getenv.
ReadXdg(c) ==
    /\ At(c, "idle") /\ host.config = None
    /\ call' = [call EXCEPT ![c].pc = "guess", ![c].seen = env]
    /\ UNCHANGED <<host, env, mutex>>

\* guessConfigHome's second read, in os.UserConfigDir, and the choice.
Guess(c) ==
    /\ At(c, "guess")
    /\ call' = [call EXCEPT ![c].pc = "registries",
                            ![c].home = GuessConfigHome(call[c].seen, env)]
    /\ UNCHANGED <<host, env, mutex>>

\* resolveRuntime's two errors: no directory, or no registry.
Resolved(h) ==
    /\ h # None
    /\ host.registries \/ "profiles.yaml" \in host.files[h]

\* Mutant: a missing configuration is waited for.
RegistriesRetried(c) ==
    /\ At(c, "registries")
    /\ call' = [call EXCEPT ![c].pc =
                    IF Resolved(call[c].home) THEN "lock" ELSE "guess"]
    /\ UNCHANGED <<host, env, mutex>>

Registries(c) ==
    /\ At(c, "registries")
    /\ call' = [call EXCEPT ![c].pc =
                    IF Resolved(call[c].home) THEN "lock" ELSE "failed"]
    /\ UNCHANGED <<host, env, mutex>>

-----------------------------------------------------------------------------
(* resolveBaseStepSettings *)

\* Mutant: the mutex is not taken.
MutexFreeIgnored(c) == TRUE

MutexFree(c) == mutex = None

\* Lock, and os.LookupEnv.
Lock(c) ==
    /\ At(c, "lock") /\ MutexFree(c)
    /\ mutex' = c
    /\ call' = [call EXCEPT ![c].pc = "export", ![c].saved = env]
    /\ UNCHANGED <<host, env>>

\* Mutant: the state root's parent is exported, not the directory found.
ExportedRoot(c) == host.root

Exported(c) == call[c].home

\* os.Setenv.
Export(c) ==
    /\ At(c, "export")
    /\ env' = Exported(c)
    /\ call' = [call EXCEPT ![c].pc = "read"]
    /\ UNCHANGED <<host, mutex>>

\* os.Setenv refuses the value: nothing is exported, nothing to put back.
ExportFails(c) ==
    /\ At(c, "export")
    /\ call' = [call EXCEPT ![c].pc = "unlock"]
    /\ UNCHANGED <<host, env, mutex>>

\* ResolveBaseStepSettings reads the configuration of the exported directory.
ReadSettings(c) ==
    /\ At(c, "read")
    /\ call' = [call EXCEPT ![c].pc = "restore", ![c].from = env]
    /\ UNCHANGED <<host, env, mutex>>

\* It fails; from stays None and the deferred calls still run.
ReadFails(c) ==
    /\ At(c, "read")
    /\ call' = [call EXCEPT ![c].pc = "restore"]
    /\ UNCHANGED <<host, env, mutex>>

\* Mutant: hadOldValue is dropped, an unset variable comes back empty.
OldValueAlwaysSet(c) == IF call[c].saved = None THEN Blank ELSE call[c].saved

OldValue(c) == call[c].saved

\* The deferred Setenv or Unsetenv.
Restore(c) ==
    /\ At(c, "restore")
    /\ env' = OldValue(c)
    /\ call' = [call EXCEPT ![c].pc = "unlock"]
    /\ UNCHANGED <<host, mutex>>

\* The deferred Unlock.
Unlock(c) ==
    /\ At(c, "unlock")
    /\ mutex' = None
    /\ call' = [call EXCEPT ![c].pc = IF call[c].from = None THEN "failed"
                                                             ELSE "profiles"]
    /\ UNCHANGED <<host, env>>

-----------------------------------------------------------------------------
(* The profiles, and what the callers do with the result *)

\* The registries the profiles manager reads.
Source(h) == IF host.registries THEN Given ELSE h

Effective(c) == EffectiveOf[call[c].from, Source(call[c].home)]

\* Load, list and switch to the profile.
Profiles(c) ==
    /\ At(c, "profiles")
    /\ call' = [call EXCEPT ![c].pc =
                    CASE KindOf[c] = "probe" -> "request"
                      [] KindOf[c] = "debug" -> "snapshot"
                      [] OTHER -> "done"]
    /\ UNCHANGED <<host, env, mutex>>

\* One of the three fails.
ProfilesFail(c) ==
    /\ At(c, "profiles")
    /\ call' = [call EXCEPT ![c].pc = "failed"]
    /\ UNCHANGED <<host, env, mutex>>

\* DebugSnapshot: what cannot be read of the files and the two databases is
\* reported in the snapshot; only registries that do not parse make it fail.
Snapshot(c) ==
    /\ At(c, "snapshot")
    /\ \E end \in {"done", "failed"} : call' = [call EXCEPT ![c].pc = end]
    /\ UNCHANGED <<host, env, mutex>>

\* The names under which providerDebug looks up base URL and key.
Provider(api) == IF api \in {"openai", "openai-responses"} THEN "openai" ELSE api

\* Mutant: every provider without a base URL falls back to openai's.
BaseURLDefaulted(s) ==
    IF Provider(s.api) \in s.bases THEN Provider(s.api) ELSE "openai"

\* lookupBaseURL: the configured URL; only openai has a default.
BaseURL(s) ==
    IF s.api # "" /\ (Provider(s.api) \in s.bases \/ Provider(s.api) = "openai")
    THEN Provider(s.api) ELSE None

\* lookupAPIKey.
APIKey(s) ==
    IF s.api # "" /\ Provider(s.api) \in s.keys THEN Provider(s.api) ELSE None

\* ProbeProviderHTTPS: the request providerDebug describes, answered, failed
\* or timed out; without a base URL there is no request.
Probe(c) ==
    /\ At(c, "request")
    /\ LET url == BaseURL(Effective(c))
       IN  call' = [call EXCEPT
                       ![c].pc = IF url = None THEN "failed" ELSE "done",
                       ![c].asked =
                            IF url = None THEN NoAnswer
                            ELSE [url |-> url, key |-> APIKey(Effective(c))]]
    /\ UNCHANGED <<host, env, mutex>>

\* The caller is through; another session or request comes.
Again(c) ==
    /\ call[c].pc \in {"done", "failed"}
    /\ call' = [call EXCEPT ![c] = Idle]
    /\ UNCHANGED <<host, env, mutex>>

-----------------------------------------------------------------------------
Step(c) ==
    \/ Configured(c) \/ ReadXdg(c) \/ Guess(c) \/ Registries(c)
    \/ Export(c) \/ ExportFails(c) \/ ReadSettings(c) \/ ReadFails(c)
    \/ Restore(c) \/ Unlock(c)
    \/ Profiles(c) \/ ProfilesFail(c) \/ Snapshot(c) \/ Probe(c)

Next == \E c \in Callers : Step(c) \/ Lock(c) \/ Again(c)

\* Goroutines are scheduled, the HTTP client has a timeout, and sync.Mutex
\* hands itself to a waiter after a while.
Fairness == \A c \in Callers : WF_vars(Step(c)) /\ SF_vars(Lock(c))

Spec == Init /\ [][Next]_vars /\ Fairness

-----------------------------------------------------------------------------
(* Properties *)

\* Every variable has its type.
TypeOK ==
    /\ host \in Host
    /\ env \in Homes \cup {None, Blank}
    /\ mutex \in Callers \cup {None}
    /\ call \in [Callers -> Call]

\* Nothing of a configuration read is left behind in the environment: when
\* nobody holds the mutex, XDG_CONFIG_HOME is what the process was started
\* with, unset included, whatever failed (resolveBaseStepSettings).
EnvRestored == mutex = None => env = host.xdg

\* The directory a caller finds when nobody else runs.
HomeAlone ==
    IF host.config # None THEN host.config
    ELSE GuessConfigHome(host.xdg, host.xdg)

\* Chat surface, debug endpoint and probe never drift: whatever value of
\* another caller guessConfigHome's two unprotected reads meet, it finds the
\* directory it would find alone (guessConfigHome, resolveBaseStepSettings).
FindsHomeAlone ==
    \A c \in Callers :
        call[c].pc \notin {"idle", "guess", "failed"} =>
            call[c].home = HomeAlone

\* Settings are read from the directory the caller resolved, although the
\* library takes it from the shared environment (resolveBaseStepSettings).
SettingsFromOwnHome ==
    \A c \in Callers : call[c].from # None => call[c].from = call[c].home

\* A key is sent only to the base URL configured for the same provider
\* (providerDebug, probeProviderHTTPSWithClient).
KeyStaysWithProvider ==
    \A c \in Callers :
        call[c].asked.key # None => call[c].asked.url = call[c].asked.key

\* Every call returns, whatever fails and however many others run: no error
\* path keeps the mutex (loadRuntimeDetails).
LoadReturns ==
    \A c \in Callers : ~At(c, "idle") ~> call[c].pc \in {"done", "failed"}

=============================================================================
