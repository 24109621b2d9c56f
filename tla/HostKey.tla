------------------------------- MODULE HostKey -------------------------------
(***************************************************************************)
(* The SSH host key across boots (internal/sshapp: Start, ensureHostKey,   *)
(* hostKeyValid, writeAtomic).  Clients pin the key, so a key that was     *)
(* once served must be the key of every later boot, although power may be  *)
(* lost between any two system calls and each of them may fail.            *)
(*                                                                         *)
(* The directory is seen twice: cache is what the running system reads,    *)
(* disk what survives a power loss.  The file system writes its metadata   *)
(* journal back at any time, in order; fsync on the directory forces it.   *)
(* A file's data is synced before the rename, so a directory entry never   *)
(* leads to a partly written file.  A key is named by the boot that        *)
(* generated it (0: a key older than the modelled boots).  Permissions and *)
(* left-over temporary files are not modelled.                             *)
(***************************************************************************)
EXTENDS Naturals

CONSTANTS
    NoFile,       \* no directory entry
    Bad,          \* an empty or unparsable file
    Persistent,   \* the key's directory is on the mounted storage
    MaxBoots      \* bound: power cycles

ASSUME NoFileIsNoKey == NoFile \notin Nat
ASSUME BadIsNoKey == Bad \notin Nat
ASSUME BootsType == MaxBoots \in Nat
ASSUME PersistentType == Persistent \in BOOLEAN

VARIABLES
    pc,         \* where sshapp.Start is
    cache,      \* the directory as the running system sees it
    disk,       \* the directory after a power loss
    pair,       \* the generated key pair, NoFile before keygen.New
    boots,      \* power cycles so far
    served,     \* the key of the running server, NoFile when none runs
    announced   \* history: every key ever served

vars == <<pc, cache, disk, pair, boots, served, announced>>

Files == {"priv", "pub"}
Keys == Nat
Contents == Keys \cup {NoFile, Bad}
Empty == [f \in Files |-> NoFile]

\* The places where Start may be, in program order.
Steps == {"mkdir", "check", "removePriv", "removePub", "keygen", "tempPriv",
          "renamePriv", "syncPriv", "tempPub", "renamePub", "syncPub",
          "recheck", "listen"}
Places == Steps \cup {"off", "serving", "halted"}

Init ==
    /\ pc = "off"
    /\ disk \in [Files -> {NoFile, Bad, 0}]
    /\ cache = disk
    /\ pair = NoFile
    /\ boots = 0
    /\ served = NoFile
    /\ announced = {}

-----------------------------------------------------------------------------
(* hostKeyValid: absent, empty and unparsable files are not valid *)
Valid(dir) == dir["priv"] \in Keys

\* Only the program counter moves.
Goto(place) ==
    /\ pc' = place
    /\ UNCHANGED <<cache, disk, pair, boots, served, announced>>

\* Mutant: a key is generated on every boot.
NextAfterCheckAlways == "removePriv"

NextAfterCheck == IF Valid(cache) THEN "listen" ELSE "removePriv"

\* MkdirAll and Chmod.
MakeDirectory == pc = "mkdir" /\ Goto("check")

\* The first hostKeyValid.
CheckKey == pc = "check" /\ Goto(NextAfterCheck)

\* os.Remove, its error ignored.
RemoveFile(f, at, then) ==
    /\ pc = at
    /\ pc' = then
    /\ \E c \in {NoFile, cache[f]} : cache' = [cache EXCEPT ![f] = c]
    /\ UNCHANGED <<disk, pair, boots, served, announced>>

\* keygen.New generates a pair when no private key file is there ...
GenerateKey ==
    /\ pc = "keygen" /\ cache["priv"] = NoFile
    /\ pc' = "tempPriv"
    /\ pair' = boots + 1
    /\ UNCHANGED <<cache, disk, boots, served, announced>>

\* Mutant: try again instead of giving up.
KeygenRejectsRetry ==
    pc = "keygen" /\ cache["priv"] # NoFile /\ Goto("check")

\* ... and fails on one that could not be removed and does not parse.
KeygenRejects ==
    pc = "keygen" /\ cache["priv"] # NoFile /\ Goto("halted")

\* writeAtomic: temporary file created, written, synced and closed.
WriteTemp(at, then) == pc = at /\ Goto(then)

\* writeAtomic: rename over the final name.
RenameTemp(f, at, then) ==
    /\ pc = at
    /\ pc' = then
    /\ cache' = [cache EXCEPT ![f] = pair]
    /\ UNCHANGED <<disk, pair, boots, served, announced>>

\* Mutant: the directory is not synced.
SyncDirSkipped(at, then) == pc = at /\ Goto(then)

\* writeAtomic: fsync of the directory.
SyncDir(at, then) ==
    /\ pc = at
    /\ pc' = then
    /\ disk' = cache
    /\ UNCHANGED <<cache, pair, boots, served, announced>>

\* The second hostKeyValid; a key that is not readable is an error.
RecheckKey == pc = "recheck" /\ Goto(IF Valid(cache) THEN "listen" ELSE "halted")

\* wish.NewServer loads the key from the file, net.Listen succeeds.
Listen ==
    /\ pc = "listen"
    /\ pc' = "serving"
    /\ served' = cache["priv"]
    /\ announced' = announced \cup {cache["priv"]}
    /\ UNCHANGED <<cache, disk, pair, boots>>

\* A system call, keygen.New, NewServer or Listen fails: Start returns the
\* error and the guest halts.  Removing files reports no error.
StepFails ==
    /\ pc \in Steps \ {"removePriv", "removePub"}
    /\ Goto("halted")

-----------------------------------------------------------------------------
(* The machine around Start *)

\* The kernel writes the journal back.
WriteBack ==
    /\ disk # cache
    /\ disk' = cache
    /\ UNCHANGED <<pc, cache, pair, boots, served, announced>>

PowerOn ==
    /\ pc = "off"
    /\ Goto("mkdir")

\* Power is lost or the guest is killed.  Without persistent storage the
\* directory is part of the initramfs and starts empty.
PowerLoss ==
    /\ pc # "off" /\ boots < MaxBoots
    /\ pc' = "off"
    /\ boots' = boots + 1
    /\ disk' = IF Persistent THEN disk ELSE Empty
    /\ cache' = disk'
    /\ pair' = NoFile
    /\ served' = NoFile
    /\ UNCHANGED announced

Proceed ==
    \/ MakeDirectory \/ CheckKey
    \/ RemoveFile("priv", "removePriv", "removePub")
    \/ RemoveFile("pub", "removePub", "keygen")
    \/ GenerateKey \/ KeygenRejects
    \/ WriteTemp("tempPriv", "renamePriv")
    \/ RenameTemp("priv", "renamePriv", "syncPriv")
    \/ SyncDir("syncPriv", "tempPub")
    \/ WriteTemp("tempPub", "renamePub")
    \/ RenameTemp("pub", "renamePub", "syncPub")
    \/ SyncDir("syncPub", "recheck")
    \/ RecheckKey \/ Listen

Next == Proceed \/ StepFails \/ WriteBack \/ PowerOn \/ PowerLoss

\* The guest runs its own code as long as it has power; nothing has to fail.
Spec == Init /\ [][Next]_vars /\ WF_vars(Proceed) /\ WF_vars(PowerOn)

-----------------------------------------------------------------------------
(* Properties *)

\* Every variable has its type.
TypeOK ==
    /\ pc \in Places
    /\ cache \in [Files -> Contents] /\ disk \in [Files -> Contents]
    /\ pair \in Keys \cup {NoFile}
    /\ boots \in 0..MaxBoots
    /\ served \in Contents
    /\ announced \subseteq Contents

\* The key a client has seen is the key it will always see: on persistent
\* storage no two boots serve different keys, wherever power was lost before
\* (Start, ensureHostKey, writeAtomic).
OneKeyForever ==
    Persistent => \A j, k \in announced : j = k

\* A boot that generated the key and serves has stored the whole pair
\* durably: a power loss right after the first connection loses neither file
\* (writeAtomic).
GeneratedPairIsDurable ==
    pc = "serving" /\ pair # NoFile =>
        \A f \in Files : cache[f] = pair /\ disk[f] = pair

\* A readable private key that reached the disk is never replaced or removed
\* (ensureHostKey deletes only what hostKeyValid rejected).
DurableKeyKept ==
    [][Persistent /\ Valid(disk) => disk'["priv"] = disk["priv"]]_vars

\* Start comes to an end in every boot: the guest serves or halts, again and
\* again after every power cycle.
StartEnds == []<>(pc \in {"serving", "halted"})

-----------------------------------------------------------------------------
(* The inductive invariant behind them *)

\* While Start replaces the key there is no readable key to lose; from the
\* rename on the new key is in place, from the directory sync on for good.
KeyProgress ==
    /\ pc \in {"off", "mkdir", "check"} => cache = disk /\ pair = NoFile
    /\ pc \in {"removePriv", "removePub", "keygen", "tempPriv", "renamePriv"}
          => ~Valid(cache) /\ ~Valid(disk)
    /\ pc \in {"tempPriv", "renamePriv", "syncPriv", "tempPub", "renamePub",
               "syncPub", "recheck"} => pair \in Keys
    /\ pc \in {"syncPriv", "tempPub", "renamePub", "syncPub", "recheck"}
          => cache["priv"] = pair
    /\ pc \in {"tempPub", "renamePub", "syncPub", "recheck", "listen",
               "serving"} => Valid(cache) /\ disk["priv"] = cache["priv"]
    /\ pc = "syncPub" => cache["pub"] = pair
    /\ pc \in {"recheck", "listen", "serving"} /\ pair # NoFile =>
          \A f \in Files : cache[f] = pair /\ disk[f] = pair

\* A durable readable key is the key the running system sees, and on
\* persistent storage every announced key is the durable one.
KeyAgreement ==
    /\ Valid(disk) => cache["priv"] = disk["priv"]
    /\ announced \subseteq Keys
    /\ Persistent => \A k \in announced : disk["priv"] = k

IndInv == TypeOK /\ KeyProgress /\ KeyAgreement

=============================================================================
