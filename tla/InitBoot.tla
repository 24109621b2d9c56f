------------------------------ MODULE InitBoot ------------------------------
(***************************************************************************)
(* The boot sequence of PID 1 (cmd/init/main.go): which steps are fatal,   *)
(* which degrade, which files end up on which file system.                 *)
(*                                                                         *)
(* The persistent storage is mounted on /var/lib/go-init, the host share   *)
(* on /var/lib/go-init/shared and the host key is kept in                  *)
(* /var/lib/go-init/ssh, unless the environment says otherwise, for each   *)
(* of the three by itself.  A mount hides whatever its mount point showed  *)
(* before.  The log store, the board and the host key are opened by path,  *)
(* so the order of mounts and opens decides where their data goes.  A path *)
(* is the sequence of its names; filepath.Join is \o.  The mounts of /proc, *)
(* /sys and /dev are left out: no path leads there.  Time is counted in    *)
(* polling intervals.  Messages, addresses and the contents of files are   *)
(* left out; networking.Configure is the module Dhcp.                      *)
(***************************************************************************)
EXTENDS Integers, Sequences, SequencesExt

CONSTANTS
    DeviceWait,  \* storage.Config.WaitFor, in polls
    RngWait,     \* the two seconds of main, in polls
    Name,        \* names of files and directories
    StoragePoints, SharePoints, KeyPaths
                 \* what the environment may say of the three paths

ASSUME WaitsAreNat == DeviceWait \in Nat /\ RngWait \in Nat

Path == Seq(Name)

ASSUME PathsAreSeqs ==
    /\ {"state", "chat", "logs.db", "app", "bbs"} \subseteq Name
    /\ StoragePoints \cup SharePoints \cup KeyPaths \subseteq Path

VARIABLES
    config,    \* what the three LoadConfigFromEnv read; it never changes
    done,      \* number of finished steps of BootOrder
    at,        \* place inside the current step
    waited,    \* polls slept in the current step
    device,    \* the block device node exists
    rng,       \* virtio-rng is visible
    mounts,    \* mounted file systems, oldest first
    opened,    \* files opened for good: where each was found
    share,     \* sharedstate.Result.Mounted
    report     \* entropy.Result.VirtioRNGVisible

vars == <<config, done, at, waited, device, rng, mounts, opened, share,
          report>>

\* Mutant: the share is mounted before the storage it lies in.
BootOrderShareFirst ==
    <<"filesystem", "share", "storage", "logs", "rng", "network", "bbs",
      "ssh", "web">>

\* Mutant: logging starts before the storage is there.
BootOrderLogsFirst ==
    <<"filesystem", "logs", "storage", "share", "rng", "network", "bbs",
      "ssh", "web">>

\* main's order.
BootOrder ==
    <<"filesystem", "storage", "share", "logs", "rng", "network", "bbs",
      "ssh", "web">>

Serving == done = Len(BootOrder) /\ at # "halted"
Halted == at = "halted"

\* The current step, at one of its places.
At(step, place) ==
    /\ done < Len(BootOrder) /\ BootOrder[done + 1] = step
    /\ at = place

\* GO_INIT_ENABLE_STORAGE, _SHARED_STATE, _SSH and GO_INIT_SHARED_STATE_REQUIRED;
\* the mount points of storage and share and the path of the host key.
Config ==
    [storage : BOOLEAN, share : BOOLEAN, required : BOOLEAN, ssh : BOOLEAN,
     storageAt : StoragePoints, shareAt : SharePoints, keyAt : KeyPaths]

Init ==
    /\ config \in Config
    /\ done = 0 /\ at = "start" /\ waited = 0
    /\ device = FALSE /\ rng = FALSE
    /\ mounts = <<>> /\ opened = {}
    /\ share = FALSE /\ report = FALSE

\* How a step continues, ends, or ends the boot (boot.Halt never returns).
Go(place) == at' = place /\ UNCHANGED done
Finish == done' = done + 1 /\ at' = "start" /\ waited' = 0
Halt == Go("halted") /\ UNCHANGED waited

-----------------------------------------------------------------------------
(* Paths and mounts *)

\* The mounts a path lies under.
Under(path) == {i \in DOMAIN mounts : IsPrefix(mounts[i].on, path)}

\* The file system a path leads to: the newest mount that covers it.
Resolve(path) ==
    IF Under(path) = {} THEN "initramfs" ELSE mounts[Max(Under(path))].fs

Mount(fs, on) == mounts' = Append(mounts, [fs |-> fs, on |-> on])

OpenFile(file, path) ==
    opened' = opened \cup {[file |-> file, path |-> path, fs |-> Resolve(path)]}

-----------------------------------------------------------------------------
(* The steps of main *)

\* PrepareFilesystem: failed mounts are only recorded.
PrepareFilesystem ==
    /\ At("filesystem", "start") /\ Finish
    /\ UNCHANGED <<config, device, rng, mounts, opened, share, report>>

\* storage.Prepare, disabled.
SkipStorage ==
    /\ At("storage", "start") /\ ~config.storage
    /\ Finish
    /\ UNCHANGED <<config, device, rng, mounts, opened, share, report>>

\* waitForDevice: the device is there; MkdirAll of the mount point.
FindDevice ==
    /\ At("storage", "start") /\ config.storage /\ device
    /\ Go("mount")
    /\ UNCHANGED <<config, waited, device, rng, mounts, opened, share, report>>

\* Mutant: the deadline is not looked at.
SleepForDeviceForever ==
    /\ At("storage", "start") /\ config.storage /\ ~device
    /\ waited' = (waited + 1) % (DeviceWait + 2)
    /\ UNCHANGED <<config, done, at, device, rng, mounts, opened, share,
                   report>>

\* waitForDevice: not there yet, sleep one poll.
SleepForDevice ==
    /\ At("storage", "start") /\ config.storage /\ ~device
    /\ waited <= DeviceWait
    /\ waited' = waited + 1
    /\ UNCHANGED <<config, done, at, device, rng, mounts, opened, share,
                   report>>

\* waitForDevice: not there and the deadline has passed.
GiveUpOnDevice ==
    /\ At("storage", "start") /\ config.storage /\ ~device
    /\ waited > DeviceWait
    /\ Halt
    /\ UNCHANGED <<config, device, rng, mounts, opened, share, report>>

MountStorage ==
    /\ At("storage", "mount")
    /\ Mount("storage", config.storageAt)
    /\ Go("directories")
    /\ UNCHANGED <<config, waited, device, rng, opened, share, report>>

\* ensureStateDirectories.
StorageReady ==
    /\ At("storage", "directories") /\ Finish
    /\ UNCHANGED <<config, device, rng, mounts, opened, share, report>>

\* Mount point, mount or directories of the storage fail: fatal.
StorageFails ==
    /\ At("storage", "mount") \/ At("storage", "directories")
    /\ Halt
    /\ UNCHANGED <<config, device, rng, mounts, opened, share, report>>

\* sharedstate.Prepare: disabled, or no mount point or no mount (whatever
\* LoadNinePStack did); main logs the error and goes on, required or not.
ShareUnavailable ==
    /\ At("share", "start") /\ Finish
    /\ UNCHANGED <<config, device, rng, mounts, opened, share, report>>

\* sharedstate.Prepare mounts the share.  When its directories then cannot be
\* made the error is logged like the others and Mounted stays true, so both
\* outcomes go on alike.
MountShare ==
    /\ At("share", "start") /\ config.share
    /\ Mount("share", config.shareAt)
    /\ share' = TRUE
    /\ Finish
    /\ UNCHANGED <<config, device, rng, opened, report>>

\* Under the storage mount point, whether or not anything is mounted there.
LogPath == config.storageAt \o <<"state", "chat", "logs.db">>

\* logstore.Open; the loggers then write to it.
OpenLogStore ==
    /\ At("logs", "start")
    /\ OpenFile("log", LogPath)
    /\ Finish
    /\ UNCHANGED <<config, device, rng, mounts, share, report>>

\* LoadVirtioRNG fails or the module is missing: a single probe.
ProbeEntropy ==
    /\ At("rng", "start")
    /\ report' = rng
    /\ Finish
    /\ UNCHANGED <<config, device, rng, mounts, opened, share>>

\* The module is loaded or was there already: WaitForVirtioRNG probes.
LoadVirtioRNG ==
    /\ At("rng", "start")
    /\ report' = rng
    /\ Go("wait")
    /\ UNCHANGED <<config, waited, device, rng, mounts, opened, share>>

\* waitForVirtioRNG's loop: sleep, probe again.
PollRng ==
    /\ At("rng", "wait") /\ ~report
    /\ waited < RngWait
    /\ waited' = waited + 1
    /\ report' = rng
    /\ UNCHANGED <<config, done, at, device, rng, mounts, opened, share>>

\* It ends when the device is seen or the deadline has passed.
RngWaitEnds ==
    /\ At("rng", "wait")
    /\ report \/ waited >= RngWait
    /\ Finish
    /\ UNCHANGED <<config, device, rng, mounts, opened, share, report>>

\* networking.Configure succeeds.
ConfigureNetwork ==
    /\ At("network", "start") /\ Finish
    /\ UNCHANGED <<config, device, rng, mounts, opened, share, report>>

\* Mutant: the storage's directory, whatever became of the share.
BBSRootStored == config.storageAt \o <<"app", "bbs">>

\* sharedstate.BBSRoot.
BBSRoot ==
    IF share THEN config.shareAt \o <<"bbs">>
    ELSE config.storageAt \o <<"app", "bbs">>

\* bbsstore.Open.
OpenBoard ==
    /\ At("bbs", "start")
    /\ OpenFile("board", BBSRoot)
    /\ Finish
    /\ UNCHANGED <<config, device, rng, mounts, share, report>>

\* sshapp.Start: the host key is read or made, the server listens.
StartSsh ==
    /\ At("ssh", "start") /\ config.ssh
    /\ OpenFile("key", config.keyAt)
    /\ Finish
    /\ UNCHANGED <<config, device, rng, mounts, share, report>>

\* sshapp.Start, disabled.
SkipSsh ==
    /\ At("ssh", "start") /\ ~config.ssh
    /\ Finish
    /\ UNCHANGED <<config, device, rng, mounts, opened, share, report>>

\* webui.NewHandler and ServeHTTP.
ServeHTTP ==
    /\ At("web", "start") /\ Finish
    /\ UNCHANGED <<config, device, rng, mounts, opened, share, report>>

\* An error of any of these is fatal.
StepFails ==
    /\ \E step \in {"logs", "network", "bbs", "ssh", "web"} : At(step, "start")
    /\ Halt
    /\ UNCHANGED <<config, device, rng, mounts, opened, share, report>>

\* The HTTP server stops with an error later on.
ServerFails ==
    /\ Serving
    /\ Halt
    /\ UNCHANGED <<config, device, rng, mounts, opened, share, report>>

-----------------------------------------------------------------------------
(* The kernel's drivers *)

DeviceAppears ==
    /\ ~device
    /\ device' = TRUE
    /\ UNCHANGED <<config, done, at, waited, rng, mounts, opened, share,
                   report>>

RngAppears ==
    /\ ~rng
    /\ rng' = TRUE
    /\ UNCHANGED <<config, done, at, waited, device, mounts, opened, share,
                   report>>

Proceed ==
    \/ PrepareFilesystem
    \/ SkipStorage \/ FindDevice \/ SleepForDevice \/ GiveUpOnDevice
    \/ MountStorage \/ StorageReady \/ StorageFails
    \/ ShareUnavailable \/ MountShare
    \/ OpenLogStore
    \/ ProbeEntropy \/ LoadVirtioRNG \/ PollRng \/ RngWaitEnds
    \/ ConfigureNetwork \/ OpenBoard \/ StartSsh \/ SkipSsh
    \/ ServeHTTP
    \/ StepFails

Next == Proceed \/ ServerFails \/ DeviceAppears \/ RngAppears

\* PID 1 is scheduled and its sleeps end; devices may never appear.
Spec == Init /\ [][Next]_vars /\ WF_vars(Proceed)

-----------------------------------------------------------------------------
(* Properties *)

FileSystems == {"initramfs", "storage", "share"}

\* Every variable has its type.
TypeOK ==
    /\ config \in Config
    /\ done \in 0..Len(BootOrder)
    /\ at \in {"start", "mount", "directories", "wait", "halted"}
    /\ waited \in Nat
    /\ {device, rng, share, report} \subseteq BOOLEAN
    /\ mounts \in Seq([fs : FileSystems, on : StoragePoints \cup SharePoints])
    /\ opened \subseteq [file : {"log", "board", "key"}, path : Path,
                       fs : FileSystems]

\* No later mount hides a file that was opened: the log database, the board
\* and the host key stay reachable by the path they were opened with (main's
\* order of Prepare and Open).
NothingShadowed ==
    \A o \in opened : Resolve(o.path) = o.fs

\* With storage enabled nothing that should survive a reboot is opened on the
\* initramfs, wherever the environment puts storage and share and whatever
\* became of the share; only a host key whose own setting leads out of the
\* storage may be lost (main, BBSRoot, the defaults of sshapp's config).
StateIsDurable ==
    config.storage =>
        \A o \in opened : o.fs = "initramfs" =>
            o.file = "key" /\ ~IsPrefix(config.storageAt, config.keyAt)

\* The board is on the share, where the host's cmd/bbs looks for it, exactly
\* when a share is mounted, wherever that is (BBSRoot).
BoardFollowsShare ==
    \A o \in opened : o.file = "board" => (o.fs = "share" <=> share)

\* The boot comes to an end although devices may never show up: the guest
\* serves or halts (waitForDevice, waitForVirtioRNG).
BootEnds == <>(Serving \/ Halted)

\* The design's rule for a required share ("if sharedResult.Required &&
\* !sharedResult.Mounted: halt"): the guest does not serve without it.
RequiredShareIsMounted ==
    config.share /\ config.required /\ Serving => share

=============================================================================
