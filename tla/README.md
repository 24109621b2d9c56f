# A TLA+ model of qemu-go-init

qemu-go-init is a Linux guest whose only user-space program is one Go binary,
run as PID 1 inside QEMU. It mounts its file systems, configures the network
by DHCP, serves a status page over HTTP and a Bubble Tea bulletin board over
SSH. The board is a SQLite file on a directory the host shares into the guest,
so that the host's own `cmd/bbs` shows and writes the same messages.

This directory models the parts of that program whose correctness depends on
orders of events: concurrent sessions over one database, power losses while
the host key is written, mounts and opens during boot, DHCP over an
unreliable network, goroutines that share the log writer or an environment
variable, a session that ends while its chat is at work, signals that get
lost; and the archive the guest boots from. TLC checks the models on small
instances; TLAPS proves their safety properties for instances of any size.

## 1. Inventory

| Component | State | Operations | Hard behaviour |
|---|---|---|---|
| `internal/bbsstore` | table `messages` in one SQLite file | `Open` (schema, seed), `ListMessages`, `CreateMessage` | several processes, count-then-seed, busy errors |
| `internal/bbsapp` | per session: mode, messages, cursor, composer | key handlers, `messagesLoadedMsg`, `messageCreatedMsg` | commands run on goroutines, answers in any order and in any mode |
| `internal/sshbbs`, `cmd/bbs` | sessions, programs | start, failed start, end | sessions end while commands run; `Close` on another goroutine |
| `internal/sshapp` | host key files, listener, counters | `Start`, `ensureHostKey`, `writeAtomic`, `Status`, `Shutdown` | power loss between system calls, ignored errors |
| `cmd/init`, `internal/boot` | the boot sequence | `PrepareFilesystem`, `Halt`, `StartChildReaper`, `ServeHTTP` | order of mounts and opens, fatal and tolerated failures |
| `internal/storage`, `internal/sharedstate` | mounts | `prepare`, `waitForDevice`, `BBSRoot` | devices that appear late or never, partial failure |
| `internal/kmod`, `internal/entropy` | module, probe result | `ensureModule`, `Probe`, `WaitForVirtioRNG` | polling against a deadline |
| `internal/networking` | lease, kernel address, route, resolver | `Configure`, `requestLease`, `applyLease` | loss, duplication, reordering, several servers, retries and a deadline |
| `internal/logstore`, `cmd/importqemulogs`, `internal/zlog` | log table, line buffer | `Write`, `Insert`, `Snapshot`, import | two loggers on one writer, dropped inserts |
| `internal/aichat`, `internal/jsrepl` | configuration, event routers, turn and timeline stores, REPL runtime | `New`, `loadRuntimeDetails`, `AttachProgram`, `PersistTurn`, `Close`, `DebugSnapshot`, `ProbeProviderHTTPS` | process-wide environment variable, partial construction, work that outlives the user's mode or the connection |
| `internal/initramfs`, `cmd/mkinitramfs` | the archive | `AddDirectory`, `AddFile`, `Close` | alignment, 32-bit fields |
| `internal/webui` | none | read-only handlers | status read in several steps while it changes |

Components call each other directly, share the database file and the
environment, and talk to the outside over the network, the block device and
the 9p share. `PROJECT.json` lists the hazards line by line.

What makes each one correct: a save is stored once or not at all and shown
truthfully (board); a client never sees the host key change (SSH); nothing
durable is written where a reboot or a later mount loses it (boot); no address
is used that nobody leased, and the boot is not held up for ever (network);
every line logged is one row (log);
the kernel finds every entry (archive); no caller reads another's configuration
(chat); what a session opened is released however it ends (sessions); every
child is reaped (PID 1); the status tells what is (SSH service).

## 2. Modules

| Module | Models | Run by |
|---|---|---|
| `BbsBoard` | `bbsstore` and `bbsapp` together: processes, sessions, commands | `MCBbsBoard` |
| `PostLog` | abstract: what the board promises | `MCBbsBoard`, through `BbsBoard` |
| `HostKey` | `sshapp.Start` and `ensureHostKey` over boots | itself |
| `InitBoot` | `cmd/init/main.go` with storage, share, entropy | `MCInitBoot` |
| `Dhcp` | `networking.Configure` with servers and network | itself |
| `LogStore` | the `logstore` writer under both loggers of the guest | `MCLogStore` |
| `Initramfs` | `mkinitramfs` over the newc writer | `MCInitramfs` |
| `ChatRuntime` | `aichat.loadRuntimeDetails` and its three callers | `MCChatRuntime` |
| `ChatSession` | one session's REPL and chat, from `New` to `Close` | itself |
| `SshService` | `sshapp.Service`: serve, sessions, counters, status | itself |
| `ChildReaper` | `boot.StartChildReaper` | itself |
| `BbsBoardProofs` | theorems: `BbsBoard`, and that it implements `PostLog` | |
| `SshProofs` | theorems: `HostKey` and `SshService` | |
| `Pid1Proofs` | theorems: `InitBoot` and `ChildReaper` | |
| `DhcpProofs`, `LogStoreProofs`, `InitramfsProofs`, `ChatRuntimeProofs`, `ChatSessionProofs` | theorems about the module of that name | |

Operators whose names end in a variant of another one's name and whose comment
begins with "Mutant" are wrong versions of that operator, kept to show that the
properties can fail; no specification uses them.

### BbsBoard

`rows` is the table, in id order; a row remembers which command of which
session (or which process's seed) inserted it. `store[p]` is how far `Open` has
come in process `p`: the count and the seed of `Store.init` are two steps,
because they are two statements without a transaction. `model[s]` is the
`bbsapp.Model` of session `s`; `cmds` holds the commands that were issued and
not yet answered. A command goes through three separate steps: the key handler
issues it, its goroutine executes it against the store (`ListMessages`,
`CreateMessage`, `StoreFails`), the event loop receives the answer (`Deliver`).
Anything may happen in between, which is exactly what Bubble Tea allows.
`Deliver` is `Update`'s two answer cases, `Up` ... `Esc` are the key handlers.
`Leave` ends a session and leaves its commands running (they use
`context.Background()`); `Restart` kills a process with everything in it.

A save may fail before its row is inserted (`StoreFails`) or after it, when the
id of the new row cannot be read (`CreateMessage`'s second answer).

Every statement is atomic and all processes agree on their order. For the
processes of one kernel SQLite's file locks give that. Between the guest, which
reaches the file through 9p, and the host it is an assumption about QEMU's 9p
server and the guest's mount; nothing in the repository enforces it, and its
design expects one active writer at a time.

Left out: the author field and its default, the status line, rendering, the
inside of the REPL and the chat. A session connects once.

### PostLog

What is left of the board when processes, databases, commands and keys are
taken away: `log` only grows, a post is requested, committed or given up, a
reader is shown committed posts. `BbsBoard` maps its rows to `log`, the inserts
that were issued and not executed (seeds included) to `pending` and each
session's list to `shown`; `ImplementsPostLog` is `PostLog`'s specification
under that mapping. A crash of a process is one `GiveUp`.

### HostKey

`cache` is the key directory as the running system sees it, `disk` as it is
after a power loss. Every system call of `ensureHostKey` and `writeAtomic` is a
step; each may fail, and power may go between any two. Only `fsync` of the
directory forces `disk` up to `cache`, but the kernel may write back at any
time (`WriteBack`). A temporary file is synced before its rename, so no entry
leads to a partly written file; this is assumed of the file system. Files that
are unreadable at the first boot are in `Init`.

### InitBoot

`BootOrder` is `main`'s sequence; `done` and `at` say where it stands. A path is
the sequence of its names, and it leads to the newest mount whose mount point is
a prefix of it. `config` holds the four switches and the three paths that the
environment can move: `GO_INIT_STORAGE_MOUNT_POINT`,
`GO_INIT_SHARED_STATE_MOUNT_POINT` and `GO_INIT_SSH_HOST_KEY_PATH`. Log database
and fallback board follow the storage's mount point, the shared board the
share's; the host key follows nothing but its own setting. Paths are absolute and
without symbolic links, and none leads into `/proc`, `/sys` or `/dev`.
`networking.Configure` appears as one step that succeeds or fails; `Dhcp` is its
detail.

### Dhcp

Packets are a set: receiving may leave a duplicate behind and packets in
flight may vanish, so loss, duplication, delay and reordering are all there.
Both exchanges share a transaction id, so the model tells packets apart by type
and server only. `left` counts down to the context's deadline, `wait` to the
end of the attempt, for which `span` was allowed. `SendAndRead` belongs to the `nclient4` library and is
modelled from its use: send, wait, double the wait, skip what does not match
and wait anew. The retry count is what `intEnv` makes of the setting; the
timeout is positive because `durationEnv` makes it so.

### LogStore

The standard logger and zerolog write through one `MultiWriter` to the console
and then to one `writer`. A write is a sequence of tokens (text, white space,
newline). A goroutine takes the mutex and buffers (`Buffer`), then cuts and
inserts line by line (`CutLine`, `Insert`, `InsertFails`, `SkipBlank`) until no
newline is left (`Unlock`). The history variable `stream` is all that was
buffered; a row is named by the position of its newline in it, so that the
properties can compare the table with the stream. `parseLine` is reduced to the
level, the field by which a JSON line differs. A failing console stops a write
before the store, as `MultiWriter` does.

### Initramfs

`stage` and `next` follow `run` and `writeArchive`; `out` has the entries with
the offset each starts at. Padding is computed as `pad4` does, from the length
of the part, and checked against the offsets at which a newc reader looks. Paths
are sequences of components, clean as `filepath.Clean` leaves them; an extra file
given by an unclean path is written under that path, below directories made for
the clean one. The error of the output file's deferred `Close` is ignored by
`run`, so the archive of a successful run is what the write calls accepted.
`NameLen`
gives the bytes of a path's name: the padding may depend on nothing else of it,
so any function will do, and `MCInitramfs` adds up the lengths of the components
and slashes. Lengths are assumed to fit their 32-bit field (`SizesFit`).

### ChatRuntime

`env` is the process's `XDG_CONFIG_HOME`, `mutex` the holder of
`resolveBaseSettingsMu`, `call[c]` where a caller is and what it has read. The
two reads of the variable in `guessConfigHome` are two steps, because neither is
under the mutex. `host` is everything that does not change: files, home
directories, the other variables; `Hosts` is the set of its values considered. A
caller is a chat session, the debug endpoint or the probe; they differ after the profiles
are loaded. `EffectiveOf` is what the profile library makes of directory and
registries. All callers pass the same state root, as `cmd/init` and `cmd/bbs` do.

### ChatSession

`build` walks through `jsrepl.New` and `aichat.New`, each step of which may
fail; `res` is what is open. `Attach` starts the routers (`runs`). `work[k]` is a
REPL evaluation or chat completion from submission to the message that ends it;
`Deliver` is `Update`'s default case, which hands a message to the child whose
mode it is and to nobody otherwise. `closer` walks through `Model.Close`, on a
goroutine of its own, as soon as the context ends, which is the connection's: it
may outlive the program, and the program may outlive it. Cancelling a router only
tells it to stop; it may go on taking events (`RunStops` comes later) until its
`Close` has waited for the handlers. External, and modelled from their use: the chat backend, the REPL
model, the event router, whose `Close` waits for handlers that run. The
in-memory bus of the REPL holds nothing that needs closing.

### SshService

`server` is how far `Start` and `Serve` have come; `active` and `total` are the
atomic counters, modulo `Word`, which there are fewer sessions than
(`WordIsLarge`); `session[s]` is where a handler is. `Status` is
read in three steps (the fields under the lock, then each counter), as a web
request does. `app` says that `Start` was given an application, as `cmd/init` does;
its sessions bypass `sessionMiddleware`, and nobody counts them.

### ChildReaper

`pending` has the signals the process was sent, one of a kind at most;
`signals` is the channel, to which the runtime sends without waiting (`Notify`).
The goroutine takes one signal at a time and reaps until `wait4` finds nothing;
`reapChildren` also returns on an error, and with `WNOHANG` the only one is
`ECHILD`, that there is no child.

## 3. Runs

| Run | Bounds | What it shows |
|---|---|---|
| `board` | guest and host process, one session each, two commands and one (first loads included), one text, one crash | a view is always a listing under own posts, rows are stored once, an open board is never empty, an answer closes the composer only for a committed save, commands are answered, reloads show what was committed, the board implements `PostLog` |
| `host_key` | four boots, persistent storage | one key for ever, generated pairs durable, durable keys kept, start ends |
| `boot` | two polls per wait, all four switches, twenty layouts of storage, share and host key | nothing hidden, nothing on the initramfs but a key kept outside the storage, the board on the share exactly when the share is mounted, the boot ends |
| `boot_required` (violated) | the same | a required share is not required |
| `dhcp` | two servers, timeout one tick, retry settings 0 to 3 | only leased addresses, silence waited out, the configuration applied, an end |
| `log` | two goroutines, four writes of whole lines or pieces | rows are the stream's lines in order and at their level, only a refused insert loses one, every write returns |
| `archive` | up to two extra files with paths of one to three components, five lengths | alignment, order and completeness of the archive |
| `chat_runtime` | debug endpoint and probe, two directories, 1536 layouts | the override never misleads a caller and is put back; a key goes to its own provider; every call returns |
| `chat_session` | two submissions | failed construction and `Close` release everything, in order; turns are saved; answers arrive |
| `ssh_service` | three sessions, with and without an application | counters claim no session that is not there and settle; a failed listener is reported, a shutdown is not |
| `ssh_counts` (violated) | two sessions | with an application sessions come and go uncounted |
| `child_reaper` | two children, eight other signals, channel of eight | every zombie is reaped until eight interrupts can flood the channel |

A session's first load counts as a command. So one session of the `board` run
loads and then saves, posts or reloads, the other one only loads; the two
processes open, seed and crash around them, and one crash reaches every point of
`Open` and of a command. Two saves of one session, or of two, in flight at once
are beyond the run: the theorems of section 4 cover the safety properties for any
number of commands, sessions and crashes, and larger instances (three commands
and more than half a million states) take too long with the temporal properties.
`ReloadShowsCommitted` follows the row with id 2, the first one that can be
inserted once a session is connected; in the run it is the first session's save
or the other process's seed. The layouts of the `boot` run have the storage at its
default place and elsewhere, the share inside it, beside it, on the same mount
point, on one of its directories and above it, and the key in either place. Four
boots contain
a boot that leaves a half-made key, one that repairs it, one that serves it and
one that must serve the same. Three retries make the doubling timers outlast the
deadline and two servers give a foreign answer. Four writes make a line out of
two goroutines' pieces with lines before and after it; two files meet in a shared
parent at different depths, and the lengths of names and data leave every
remainder by 4. Two callers are all that can meet in one variable of which one
holds the mutex; two directories tell the right one from the wrong one, and
`SomeHosts` has every combination of set and unset candidates,
with every combination of files in the first. Two submissions give a child work
after a lost answer, and both children work at once. Three sessions with a
modulus of eight (`Word`, for 2^64) make a counter that goes below zero visible.
The channel has its real capacity of eight, and eight other signals fill it.

Deadlock checking is off where the system may rest: users may stop pressing
keys, a booted guest may serve for ever, a configured network and a built
archive are final, loggers, signals and connections may stop coming.

Fairness. Goroutines and event loops are scheduled (`Execute`, `Deliver`),
PID 1 runs its own code (`Proceed`), time passes and timers fire (`Tick`,
`Attempt`, `DeadlineExceeded`). A goroutine inside `Write` runs on, and one that
waits for the writer's mutex gets it in the end (strong fairness of `Buffer`):
Go's mutex hands itself over to a waiter that has starved; the same holds for
the chat's settings mutex (`Lock`), and the other steps of a call end because
the HTTP client has a timeout. In a session, completions end (the client has a
timeout), the program quits after its connection, and a router whose context is
done stops. The runtime delivers signals, web requests keep reading the status.
Nothing is assumed of users, connections, servers, the network or devices, and
nothing has to fail.

### Findings

* `ssh_counts`: the web page shows "Active sessions" and "Total sessions", and the
  diary says that it reflects live session counters. They are kept by the built-in
  status app only; with the board, which `cmd/init` installs in its place, they
  stay at zero.
* `boot_required`: the design says the guest halts when a required share is
  missing; `main` only logs the error, and `Required` is never read.

### Observations

Limits of the code that the models show and whose properties are stated around
them:

* SIGINT and SIGTERM share the reaper's channel. A SIGCHLD that meets eight of
  them is dropped, and the child stays a zombie until another one exits
  (`ChannelFloodable` in `ChildReaper`).
* `Store.init` counts and seeds in two statements. When guest and host open a new
  database at the same moment both seed it, and the board starts with two welcome
  posts; `CommittedOnce` says that neither seeds it twice. The design has one
  active writer at a time.
* The answer of a successful save closes and clears the composer that is open when
  it arrives, whichever draft is in it by then; `ComposerClosedOnlyByCommit` is
  about the saves that were not committed.
* A save that is answered with an error may have been stored (`LastInsertId`), and
  a user who saves the kept draft again stores it twice, by two commands.
* The host key's path does not follow the storage: a guest whose
  `GO_INIT_STORAGE_MOUNT_POINT` is moved without `GO_INIT_SSH_HOST_KEY_PATH`
  keeps its key on the initramfs and has a new one after every boot
  (`StateIsDurable` excepts it).
* Messages of the chat's backend reach the chat only while its mode is on. The
  failure of a completion that comes after Ctrl+B is dropped, and the chat still
  waits when the user comes back (`Routed` in `ChatSession`; `AnswerReachesUser`
  is about users who stay).

## 4. Proofs

Every invariant that a run checks is a theorem, and so are the action properties
`ComposerClosedOnlyByCommit` and `DurableKeyKept` and the refinement
`ImplementsPostLog`: the run shows it on one small instance, the theorem for
every value of the constants. All proofs follow one plan. An inductive invariant
is stated as a conjunction of named parts and checked by TLC on the run's
instance; a lemma for each action, or for each group of actions that change the
same thing, shows that it is kept; and the theorems are its consequences.

| Module | For every | Properties proved |
|---|---|---|
| `BbsBoardProofs` | set of sessions, processes, texts; number of commands and crashes | `TypeOK`, `CommittedOnce`, `RowsComplete`, `OpenStoreNotEmpty`, `CursorInRange`, `ViewIsListingUnderOwnPosts`, `ComposerClosedOnlyByCommit`, `ImplementsPostLog` |
| `SshProofs`, host key | number of boots, persistent or volatile storage | `OneKeyForever`, `GeneratedPairIsDurable`, `DurableKeyKept` |
| `SshProofs`, service | finite set of sessions, modulus above its size | `CountersSettle`, first half of `StatusTellsFailure` |
| `Pid1Proofs`, boot | switches, mount points and key path, number of polls | `TypeOK`, `NothingShadowed`, `StateIsDurable`, `BoardFollowsShare` |
| `Pid1Proofs`, reaper | set of children, capacity, number of interrupts | `TypeOK`, `NoZombieForgotten` |
| `DhcpProofs` | set of servers, timeout, retry settings | `TypeOK`, `AddressWasLeased`, `SilenceUsesDeadline`, `ConfiguredIsApplied` |
| `LogStoreProofs` | set of goroutines, chunks, number of writes | `TypeOK`, `RowsAreLines`, `NothingLost` |
| `InitramfsProofs` | set of paths, lengths of names and files, number of files | `TypeOK`, `ReadsBack`, `ParentsFirst`, `ArchiveComplete` |
| `ChatRuntimeProofs` | set of callers, directories, hosts, settings | `TypeOK`, `EnvRestored`, `FindsHomeAlone`, `SettingsFromOwnHome`, `KeyStaysWithProvider` |
| `ChatSessionProofs` | number of submissions | `TypeOK`, `FailedNewReleases`, `TimelineOpenWhileWritten`, `TurnsSavedWhileConnected` |

The assumptions are the named `ASSUME`s of the modules: constants have their
types, model values that stand for "none" differ from the rest, timeouts and
capacities are positive where the code makes them so (`durationEnv`, the
channel's 8), and two that say something about the world: files are shorter than
their length field can say (`SizesFit`), and there are fewer sessions than a
counter can count (`WordIsLarge`). `SshProofs` and `Pid1Proofs` extend two modules
each, which share no variables; that is why `SshService` and `ChildReaper` call
their specifications `ServiceSpec` and `ReaperSpec`.

### Why the properties are not inductive, and what is added

*Board.* That a row is inserted once needs to know that a command that has not
run left no row (`NotYetCommitted`), that the rows of a session carry numbers it
has issued (`RowsIssued`), and that no two commands in flight share a number
(`CommandsDistinct`). That a view is explained needs to know that a successful
answer names a committed row or a length the table had (`AnswersCommitted`). The
proof has two halves: the *ledger* lemmas follow rows and commands, the *shows*
lemmas follow one session's view: a view stays explained when the table grows
(`ViewGrows`), a listing is explained (`ViewOfListing`), and so is an own post on
top of an explained view (`ViewOfOwnPost`).

*Board to log.* A step that leaves the table alone maps to `Request`, `Show` or
`GiveUp`, an insert to `Commit` (`MapsToRequest` and so on). The invariant comes
in three times: lists name rows that exist (`ListsRows`), a committed command is
not the image of a pending post, and a post is requested once.

*Host key.* `KeyProgress` says what holds at each place of `ensureHostKey`:
before the rename there is no readable key to lose, after it the new one is in
place, after the directory sync for good. `KeyAgreement` says that a durable
readable key is the visible one and the announced one.

*Service.* `CountersSettle` compares numbers that wrap with sizes of sets.
`CountsAre` names the sets (empty ones when there is an application), the handlers between the two additions of
`sessionMiddleware` and those behind the second; each addition moves one session
across the border of one set, and no sum reaches `Word`.

*Reaper.* A SIGCHLD is dropped when the channel is full; some SIGCHLD must then
be in it unless eight other signals are. `StretchBounded` counts: however far
back from the end of the channel there are only other signals, that stretch and
the pending ones are no more than were sent. Counting from every place, not only
from the front, is what survives a receive.

*Boot.* `MountsAre` and `MountOrder` list the mount tables main can have at each
place of its order; `OpenedLate` says that files are opened when the table is
final, each by its path and on the file system that the final table gives it
(`Where`): the share's if the share is mounted on a prefix of the path, else the
storage's if that is, else the initramfs. What lies in a directory has it as a
prefix (`PrefixOfJoin`).

*DHCP.* `AddressWasLeased` needs that an ACK in flight comes from a server that
bound the address, and that the lease is the asked server's (`AcksAreBound`,
`LeaseIsBound`). `SilenceUsesDeadline` is arithmetic: with `n` attempts begun,
the time that has passed is at least `n` timeouts but for what the latest still
waits (`TimeIsSpent`), and the deadline is no longer than all the attempts
together. The proof shows that it takes no doubling for that.

*Log.* The buffer is the tail of the stream behind the last newline cut
(`BufferIsTail`); the line a goroutine holds is the newest one cut, and younger
than all rows (`LineInHand`); every newline before the buffer has an explanation
(`Accounted`). The first newline and the line between two newlines are a minimum
and a maximum of sets of positions; that they exist follows from the
well-foundedness of `<` (`SmallestOf`).

*Archive.* `ReadsBack` needs that every entry begins at a multiple of 4
(`Aligned`): the padding of a part by its own length is the one the reader
expects only then. `ParentsFirst` needs that the directories of all files before
the present one, and the present one's above the present directory, are written
(`ParentsSeen`).

*Configuration of the chat.* Reads of the variable outside the mutex meet what
the holder has made of it. `HolderKnowsEnv` says what that is, and
`GuessHarmless` that it can only be the process's own value or the directory that
every caller finds; either leads `guessConfigHome` to the same directory, in both
of its reads. This is why the race that the code has is benign: all callers pass
the same state root.

*Session of the chat.* `Building` says what `New` holds at each step, `ChatHeld`
what is open at each step of `Close`, `ChatWorks` that the handler writes only
before `Close` is past the router, `CloseIsLast` that `Close` begins when the
connection is over.

### Only model-checked

`CommandAnswered`, `ReloadShowsCommitted`, `StartEnds`, `BootEnds`,
`ConfigureEnds`, `WriteReturns`, `LoadReturns`, `AllReleased`,
`AnswerReachesUser`, `ZombiesReaped` and the second half of `StatusTellsFailure`:
they say that something happens in the end, under fairness, which the provers do
not treat. `SessionsCounted` and `RequiredShareIsMounted` are false (see
Findings).
`RowsComplete` and `CursorInRange` are proved as parts of the board's invariant
and have no run.

## 5. Plan

Done: all modules of section 2 and the proofs of all their safety properties.
Left:

1. The steps on which the liveness properties rest and that are safety: which
   measure falls with every step of `Configure`, `Write` and the boot, as action
   properties and theorems.
2. Stronger statements where a theorem allows them: that a session's own posts
   stay in its view until a list replaces it, and that `Status` reports counter
   values that were right at the moment of reading.

### Not modelled

* Text: rendering of board and status page, prompt of the chat, log messages,
  HTTP traces, snapshots of configuration files. No behaviour depends on them.
* Third-party code: the JavaScript evaluator, the chat client and its stores,
  Bubble Tea, Wish, the DHCP client's packet codec. They appear as they are used.
* Lease renewal: the code has none.
* `logstore.Snapshot` and the trace of the probe: unsynchronised reads whose
  outcome depends on the compiled code and on which nothing else depends.
* `cmd/importqemulogs`: one loop from a file to `Insert`; a second import of the
  same file stores its lines again.
* Build files and shell scripts around QEMU.
