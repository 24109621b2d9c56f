------------------------------ MODULE BbsBoard ------------------------------
(***************************************************************************)
(* The shared bulletin board: one SQLite file (internal/bbsstore) written  *)
(* by several processes (the guest's SSH server, the host's cmd/bbs), each *)
(* running any number of Bubble Tea sessions (internal/bbsapp).            *)
(*                                                                         *)
(* A session is an event loop over key presses and over the answers of the *)
(* commands it started.  Commands (loadMessagesCmd, createMessageCmd and   *)
(* the REPL's bbs.post) run on goroutines of their own, so between issuing *)
(* a command, its execution against the store and the delivery of its      *)
(* answer any other step of any session may happen, and answers arrive in  *)
(* any order.  Answers of a session that ended are dropped; its running    *)
(* commands are not cancelled (they use context.Background()).             *)
(*                                                                         *)
(* Abstractions.  A row is identified by its AUTOINCREMENT id, which is    *)
(* its position in rows because nothing deletes or updates a row.  SQLite  *)
(* statements are taken to be atomic and ordered over all processes, guest *)
(* and host, also when the file lies on the 9p share.  Blank stands for    *)
(* every string that strings.TrimSpace maps to "".  A listing is           *)
(* represented by the number of rows it saw.  The author field (blank is   *)
(* stored as "anonymous"), the status line and the lastRefreshed stamp are *)
(* not modelled; a session is opened once.                                 *)
(***************************************************************************)
EXTENDS Integers, Sequences

CONSTANTS
    Sessions,       \* Bubble Tea programs, over SSH or on the host
    Procs,          \* processes that open the database
    ProcOf,         \* the process a session runs in
    Texts,          \* non-blank field contents
    Blank,          \* any all-whitespace field content
    ChatReady,      \* sessions in which aichat.New succeeded
    MaxCmds,        \* bound: commands a session issues, per session
    MaxCrashes      \* bound: process crashes

ASSUME DisjointActors == Sessions \cap Procs = {}
ASSUME ProcOfType == ProcOf \in [Sessions -> Procs]
ASSUME WelcomeNotBlank == Blank # "welcome"
ASSUME BoundsAreNat == MaxCmds \in [Sessions -> Nat] /\ MaxCrashes \in Nat

VARIABLES
    rows,       \* the messages table, in id order
    store,      \* per process: the state of bbsstore.Open
    phase,      \* per session: not started, running, ended
    model,      \* per session: the bbsapp.Model
    cmds,       \* commands issued and not yet answered
    issued,     \* per session: commands issued so far
    crashes     \* bound counter

vars == <<rows, store, phase, model, cmds, issued, crashes>>

Fields == Texts \cup {Blank}
Modes == {"browse", "compose", "repl", "chat"}
Kinds == {"load", "create", "repl"}

NoParams == [subject |-> Blank, body |-> Blank]
Params == [subject : Fields, body : Fields]

\* by, n: who inserted the row and with which of its commands (0: the seed).
Row == [subject : Fields \cup {"welcome"}, body : Fields \cup {"welcome"},
        by : Sessions \cup Procs, n : Nat]

\* k: the id of the inserted row, or the number of rows a listing saw.
Cmd == [sess : Sessions, n : Nat, kind : Kinds, params : Params,
        st : {"issued", "ok", "err"}, k : Nat]

Model == [mode : Modes, messages : Seq(Nat), cursor : Int,
          focusIndex : 0..2, subject : Fields, body : Fields]

FreshModel ==
    [mode |-> "browse", messages |-> <<>>, cursor |-> 0, focusIndex |-> 0,
     subject |-> Blank, body |-> Blank]

Init ==
    /\ rows = <<>>
    /\ store = [p \in Procs |-> "closed"]
    /\ phase = [s \in Sessions |-> "new"]
    /\ model = [s \in Sessions |-> FreshModel]
    /\ cmds = {}
    /\ issued = [s \in Sessions |-> 0]
    /\ crashes = 0

-----------------------------------------------------------------------------
(* bbsstore *)

\* CreateMessage's validation after trimming.
Storable(par) == par.subject # Blank /\ par.body # Blank

\* Mutant: an empty table is not seeded.
NeedsSeedNever(count) == FALSE

\* Store.init seeds the table when CountMessages returned 0.
NeedsSeed(count) == count = 0

\* Mutant: a listing in insertion order.
ListingAscending(k) == [j \in 1..k |-> j]

\* Mutant: a listing that misses the newest row.
ListingShort(k) == [j \in 1..k - 1 |-> k - j]

\* ListMessages over the first k rows: ORDER BY id DESC.
Listing(k) == [j \in 1..k |-> k + 1 - j]

Insert(par, by, n) ==
    rows' = Append(rows, [subject |-> par.subject, body |-> par.body,
                          by |-> by, n |-> n])

\* Open: schema statements and CountMessages; another process may insert
\* before the seed below.
OpenStore(p) ==
    /\ store[p] = "closed"
    /\ store' = [store EXCEPT ![p] = IF NeedsSeed(Len(rows)) THEN "seeding"
                                                             ELSE "open"]
    /\ UNCHANGED <<rows, phase, model, cmds, issued, crashes>>

\* The seeding CreateMessage of Store.init.  When LastInsertId fails Open
\* does, and the row stays.
SeedWelcome(p) ==
    /\ store[p] = "seeding"
    /\ Insert([subject |-> "welcome", body |-> "welcome"], p, 0)
    /\ \E outcome \in {"open", "failed"} :
          store' = [store EXCEPT ![p] = outcome]
    /\ UNCHANGED <<phase, model, cmds, issued, crashes>>

\* A statement of Store.init fails (SQLITE_BUSY after busy_timeout): the
\* guest halts, cmd/bbs exits.
OpenFails(p) ==
    /\ store[p] \in {"closed", "seeding"}
    /\ store' = [store EXCEPT ![p] = "failed"]
    /\ UNCHANGED <<rows, phase, model, cmds, issued, crashes>>

-----------------------------------------------------------------------------
(* Commands: issued by a session, executed on a goroutine, answered *)

Running(s) == phase[s] = "on"

\* Bound: a session that has issued its last command enters no other mode
\* and edits no more.
WithinBound(s) == issued[s] < MaxCmds[s]

CmdNumbers == UNION {1..MaxCmds[s] : s \in Sessions}

\* A session issues its next command.
Issue(s, kind, par) ==
    /\ WithinBound(s)
    /\ issued' = [issued EXCEPT ![s] = @ + 1]
    /\ cmds' = cmds \cup {[sess |-> s, n |-> issued[s] + 1, kind |-> kind,
                           params |-> par, st |-> "issued", k |-> 0]}

\* Mutant: an executed insert stays queued, as after a blind retry.
AnsweredRetry(c, k) == [c EXCEPT !.k = k]

Answered(c, k) == [c EXCEPT !.st = "ok", !.k = k]

Failed(c) == [c EXCEPT !.st = "err"]

Replace(c, d) == cmds' = (cmds \ {c}) \cup {d}

\* loadMessagesCmd's goroutine: ListMessages succeeds.
ListMessages(c) ==
    /\ c.kind = "load" /\ c.st = "issued"
    /\ Replace(c, Answered(c, Len(rows)))
    /\ UNCHANGED <<rows, store, phase, model, issued, crashes>>

\* createMessageCmd's goroutine, or the REPL's bbs.post: the row is inserted.
\* When LastInsertId then fails the answer is an error, and the row stays.
CreateMessage(c) ==
    /\ c.kind # "load" /\ c.st = "issued"
    /\ Storable(c.params)
    /\ Insert(c.params, c.sess, c.n)
    /\ \E answer \in {Answered(c, Len(rows) + 1), Failed(c)} : Replace(c, answer)
    /\ UNCHANGED <<store, phase, model, issued, crashes>>

\* The store call returns an error and inserts nothing: validation, or SQLite
\* (busy, I/O).
StoreFails(c) ==
    /\ c.st = "issued"
    /\ Replace(c, Failed(c))
    /\ UNCHANGED <<rows, store, phase, model, issued, crashes>>

Clamp(cursor, len) ==
    IF cursor < len THEN cursor ELSE IF len > 0 THEN len - 1 ELSE 0

ResetComposer(m) ==
    [m EXCEPT !.focusIndex = 0, !.subject = Blank, !.body = Blank]

\* Update's messagesLoadedMsg case: on error only the status changes.
MessagesLoaded(m, c) ==
    IF c.st = "err" THEN m
    ELSE [m EXCEPT !.messages = Listing(c.k), !.cursor = Clamp(@, c.k)]

\* Mutant: the composer is closed before the error is looked at.
MessageCreatedEager(m, c) ==
    [ResetComposer(m) EXCEPT !.mode = "browse"]

\* Update's messageCreatedMsg case: whatever the mode is by now, a success
\* prepends the row, returns to the list and clears the composer.
MessageCreated(m, c) ==
    IF c.st = "err" THEN m
    ELSE [ResetComposer(m) EXCEPT !.messages = <<c.k>> \o @,
                                  !.cursor = 0, !.mode = "browse"]

\* Mutant: answers are only taken while the list is shown.
DeliverableBrowsing(c) ==
    c.st # "issued" /\ Running(c.sess) /\ model[c.sess].mode = "browse"

Deliverable(c) == c.st # "issued" /\ Running(c.sess)

\* The event loop receives an answer.  An answer for the REPL concerns the
\* child component only.
Deliver(c) ==
    /\ Deliverable(c)
    /\ cmds' = cmds \ {c}
    /\ model' = [model EXCEPT ![c.sess] =
                    CASE c.kind = "load" -> MessagesLoaded(@, c)
                      [] c.kind = "create" -> MessageCreated(@, c)
                      [] OTHER -> @]
    /\ UNCHANGED <<rows, store, phase, issued, crashes>>

\* The program has ended: nobody receives the answer.
DropAnswer(c) ==
    /\ c.st # "issued" /\ phase[c.sess] = "gone"
    /\ cmds' = cmds \ {c}
    /\ UNCHANGED <<rows, store, phase, model, issued, crashes>>

-----------------------------------------------------------------------------
(* A session's event loop: start, key presses, end *)

\* New and Init: a fresh model and the first load.
Connect(s) ==
    /\ phase[s] = "new" /\ store[ProcOf[s]] = "open"
    /\ phase' = [phase EXCEPT ![s] = "on"]
    /\ Issue(s, "load", NoParams)
    /\ UNCHANGED <<rows, store, model, crashes>>

\* New fails (the REPL cannot be built): an error screen without a board.
ConnectFails(s) ==
    /\ phase[s] = "new" /\ store[ProcOf[s]] = "open"
    /\ phase' = [phase EXCEPT ![s] = "gone"]
    /\ UNCHANGED <<rows, store, model, cmds, issued, crashes>>

InMode(s, mode) == Running(s) /\ model[s].mode = mode

\* A key press that only changes the model of s.
SetModel(s, m) ==
    /\ model' = [model EXCEPT ![s] = m]
    /\ UNCHANGED <<rows, store, phase, cmds, issued, crashes>>

\* updateBrowse: up, k.
Up(s) ==
    /\ InMode(s, "browse") /\ model[s].cursor > 0
    /\ SetModel(s, [model[s] EXCEPT !.cursor = @ - 1])

\* updateBrowse: down, j.
Down(s) ==
    /\ InMode(s, "browse")
    /\ model[s].cursor < Len(model[s].messages) - 1
    /\ SetModel(s, [model[s] EXCEPT !.cursor = @ + 1])

\* updateBrowse: n (compose), x (REPL), c (chat, when it could be built).
Enter(s, mode) ==
    /\ InMode(s, "browse") /\ WithinBound(s)
    /\ mode = "chat" => s \in ChatReady
    /\ SetModel(s, [model[s] EXCEPT !.mode = mode])

\* updateBrowse: r.
Reload(s) ==
    /\ InMode(s, "browse")
    /\ Issue(s, "load", NoParams)
    /\ UNCHANGED <<rows, store, phase, model, crashes>>

\* updateREPL, updateChat: ctrl+b.
Back(s) ==
    /\ Running(s) /\ model[s].mode \in {"repl", "chat"}
    /\ SetModel(s, [model[s] EXCEPT !.mode = "browse"])

\* The user evaluates bbs.post or bbs.postAs in the REPL.
ReplPost(s, par) ==
    /\ InMode(s, "repl")
    /\ Issue(s, "repl", par)
    /\ UNCHANGED <<rows, store, phase, model, crashes>>

\* Mutant: the focus runs past the last field.
MoveFocusUnwrapped(f, step) == f + step

MoveFocus(f, step) == (f + step) % 3

\* updateCompose: tab (step 1), shift+tab (step 2).
Tab(s, step) ==
    /\ InMode(s, "compose") /\ WithinBound(s)
    /\ SetModel(s, [model[s] EXCEPT !.focusIndex = MoveFocus(@, step)])

\* updateComposeWidgets: the focused widget takes the key (0: the author,
\* which is not modelled).
Type(s, v) ==
    /\ InMode(s, "compose") /\ WithinBound(s)
    /\ \/ /\ model[s].focusIndex = 1
          /\ SetModel(s, [model[s] EXCEPT !.subject = v])
       \/ /\ model[s].focusIndex = 2
          /\ SetModel(s, [model[s] EXCEPT !.body = v])

Draft(s) == [subject |-> model[s].subject, body |-> model[s].body]

\* updateCompose: ctrl+s.  The composer stays open and may save again.
Save(s) ==
    /\ InMode(s, "compose")
    /\ Issue(s, "create", Draft(s))
    /\ UNCHANGED <<rows, store, phase, model, crashes>>

\* updateCompose: esc.  Commands already issued are not recalled.
Esc(s) ==
    /\ InMode(s, "compose")
    /\ SetModel(s, [ResetComposer(model[s]) EXCEPT !.mode = "browse"])

\* q or ctrl+c, or the SSH connection closes: the program ends and its model
\* with it; its commands keep running.
Leave(s) ==
    /\ Running(s)
    /\ phase' = [phase EXCEPT ![s] = "gone"]
    /\ model' = [model EXCEPT ![s] = FreshModel]
    /\ UNCHANGED <<rows, store, cmds, issued, crashes>>

\* The process dies or exits (guest halted or killed, cmd/bbs done) and may be
\* started again: committed rows stay, its programs and commands do not.
Restart(p) ==
    /\ crashes < MaxCrashes /\ store[p] # "closed"
    /\ crashes' = crashes + 1
    /\ store' = [store EXCEPT ![p] = "closed"]
    /\ phase' = [s \in Sessions |->
                    IF ProcOf[s] = p /\ Running(s) THEN "gone" ELSE phase[s]]
    /\ model' = [s \in Sessions |->
                    IF ProcOf[s] = p THEN FreshModel ELSE model[s]]
    /\ cmds' = {c \in cmds : ProcOf[c.sess] # p}
    /\ UNCHANGED <<rows, issued>>

-----------------------------------------------------------------------------
Execute(c) == ListMessages(c) \/ CreateMessage(c) \/ StoreFails(c)

Key(s) ==
    \/ Up(s) \/ Down(s) \/ Reload(s) \/ Back(s) \/ Save(s) \/ Esc(s)
    \/ \E mode \in {"compose", "repl", "chat"} : Enter(s, mode)
    \/ \E par \in Params : ReplPost(s, par)
    \/ \E step \in 1..2 : Tab(s, step)
    \/ \E v \in Fields : Type(s, v)

Next ==
    \/ \E p \in Procs : OpenStore(p) \/ SeedWelcome(p) \/ OpenFails(p)
                        \/ Restart(p)
    \/ \E s \in Sessions : Connect(s) \/ ConnectFails(s) \/ Key(s) \/ Leave(s)
    \/ \E c \in cmds : Execute(c) \/ Deliver(c) \/ DropAnswer(c)

\* Goroutines and event loops are scheduled: a command runs, its answer is
\* received.  Users, connections and processes owe nothing.
Fairness ==
    \A s \in Sessions, n \in CmdNumbers :
        /\ WF_vars(\E c \in cmds : c.sess = s /\ c.n = n /\ Execute(c))
        /\ WF_vars(\E c \in cmds : c.sess = s /\ c.n = n
                                   /\ (Deliver(c) \/ DropAnswer(c)))

Spec == Init /\ [][Next]_vars /\ Fairness

-----------------------------------------------------------------------------
(* Properties *)

\* Every variable has its type.
TypeOK ==
    /\ rows \in Seq(Row)
    /\ store \in [Procs -> {"closed", "seeding", "open", "failed"}]
    /\ phase \in [Sessions -> {"new", "on", "gone"}]
    /\ model \in [Sessions -> Model]
    /\ cmds \subseteq Cmd
    /\ issued \in [Sessions -> Nat]
    /\ \A s \in Sessions : issued[s] <= MaxCmds[s]
    /\ crashes \in 0..MaxCrashes

\* The cursor points at a listed message whenever the list is not empty, and
\* at 0 otherwise, although lists shrink when a stale load overtakes a post
\* (Update, updateBrowse, selectedMessage).
CursorInRange ==
    \A s \in Sessions :
        /\ model[s].cursor >= 0
        /\ \/ model[s].cursor < Len(model[s].messages)
           \/ model[s].cursor = 0 /\ model[s].messages = <<>>

\* Each Ctrl+S, each REPL post and each process's seed puts at most one row
\* into the table, over retries, quits and restarts (CreateMessage,
\* Store.init).
CommittedOnce ==
    \A i, j \in DOMAIN rows :
        rows[i].by = rows[j].by /\ rows[i].n = rows[j].n => i = j

\* No process or session puts an incomplete row into the table: subject and
\* body are not blank (CreateMessage).
RowsComplete ==
    \A i \in DOMAIN rows :
        rows[i].subject # Blank /\ rows[i].body # Blank

\* Once Open has returned in a process, its sessions find at least one
\* message (Store.init seeds an empty table).
OpenStoreNotEmpty ==
    \A p \in Procs : store[p] = "open" => rows # <<>>

ListingUnderOwnPosts(s, msgs) ==
    \E k \in 0..Len(rows) :
        LET own == Len(msgs) - k
        IN  /\ own >= 0
            /\ \A j \in 1..own : /\ msgs[j] \in DOMAIN rows
                                 /\ rows[msgs[j]].by = s
            /\ \A j \in 1..k : msgs[own + j] = k + 1 - j

\* What a session shows is a listing of the first k rows, newest first, below
\* posts of its own: whatever order answers arrive in, no row of another
\* session is shown out of order, twice, or before it is committed (Update).
ViewIsListingUnderOwnPosts ==
    \A s \in Sessions : ListingUnderOwnPosts(s, model[s].messages)

\* An answer closes the composer, or changes the draft in it, only when a
\* save of this session is in the table: a failed save, a reload or a REPL
\* answer leaves the draft to the user (Update).
ComposerClosedOnlyByCommit ==
    [][\A c \in cmds \ cmds' :
          LET old == model[c.sess]
              new == model'[c.sess]
          IN  /\ phase'[c.sess] = "on"
              /\ \/ new.mode # old.mode
                 \/ new.subject # old.subject
                 \/ new.body # old.body
              => \E i \in DOMAIN rows : /\ rows[i].by = c.sess
                                        /\ rows[i].n = c.n
                                        /\ c.kind = "create"]_vars

\* Every command is answered, or its session ends (no save hangs).
CommandAnswered ==
    \A s \in Sessions : \A n \in 1..MaxCmds[s] :
        (\E c \in cmds : c.sess = s /\ c.n = n)
            ~> (\A c \in cmds : c.sess # s \/ c.n # n)

\* Bound: the row ids ReloadShowsCommitted follows (the first post or second
\* seed after the welcome post).
WatchedIds == {2}

\* A reload issued after a row was committed shows that row, fails, or its
\* session ends: posts of one process reach the others' sessions.
ReloadShowsCommitted ==
    \A s \in Sessions : \A n \in 1..MaxCmds[s], i \in WatchedIds :
        (/\ i <= Len(rows)
         /\ \E c \in cmds : /\ c.sess = s /\ c.n = n
                            /\ c.kind = "load" /\ c.st = "issued")
            ~> \/ \E j \in DOMAIN model[s].messages : model[s].messages[j] = i
               \/ \E c \in cmds : c.sess = s /\ c.n = n /\ c.st = "err"
               \/ phase[s] = "gone"

-----------------------------------------------------------------------------
(* The board as a log of posts *)

\* Who inserted a row, and with which command.
PostOf(row) == <<row.by, row.n>>

\* Inserts that have been asked for and have not been executed: commands that
\* were issued, and seeds.
AwaitedPosts ==
    {<<c.sess, c.n>> : c \in {d \in cmds : d.kind # "load" /\ d.st = "issued"}}
        \cup {<<p, 0>> : p \in {q \in Procs : store[q] = "seeding"}}

\* The posts in a session's list.
ListedPosts(s) ==
    {PostOf(rows[model[s].messages[j]]) : j \in DOMAIN model[s].messages}

Log == INSTANCE PostLog WITH
    Posts <- (Sessions \X CmdNumbers) \cup (Procs \X {0}),
    Readers <- Sessions,
    log <- [i \in DOMAIN rows |-> PostOf(rows[i])],
    pending <- AwaitedPosts,
    shown <- [s \in Sessions |-> ListedPosts(s)]

\* The board is a log of posts: over every interleaving, failure and crash a
\* save, REPL post or seed is committed once or given up, nothing leaves the
\* table, and a session is shown committed posts only (bbsstore, bbsapp).
ImplementsPostLog == Log!Spec

-----------------------------------------------------------------------------
(* The inductive invariant behind the properties above *)

\* Commands in flight carry numbers their session has issued, each once.
CommandsDistinct ==
    /\ \A c \in cmds : c.n \in 1..issued[c.sess]
    /\ \A c, d \in cmds : c.sess = d.sess /\ c.n = d.n => c = d

\* A row of a session answers a command the session has issued.
RowsIssued ==
    \A i \in DOMAIN rows :
        rows[i].by \in Sessions => rows[i].n \in 1..issued[rows[i].by]

\* A command that has not run, and a seed that has not run, left no row.
NotYetCommitted ==
    /\ \A c \in cmds : c.st = "issued" =>
          \A i \in DOMAIN rows : rows[i].by # c.sess \/ rows[i].n # c.n
    /\ \A p \in Procs : store[p] = "seeding" =>
          \A i \in DOMAIN rows : rows[i].by # p

\* A successful answer names the row it inserted, or a length the table had.
AnswersCommitted ==
    \A c \in cmds : c.st = "ok" =>
        IF c.kind = "load" THEN c.k <= Len(rows)
        ELSE /\ c.k \in DOMAIN rows
             /\ rows[c.k].by = c.sess /\ rows[c.k].n = c.n

IndInv ==
    /\ TypeOK /\ CommandsDistinct /\ RowsIssued /\ NotYetCommitted
    /\ AnswersCommitted /\ CursorInRange /\ CommittedOnce /\ RowsComplete
    /\ OpenStoreNotEmpty /\ ViewIsListingUnderOwnPosts

=============================================================================
