--------------------------- MODULE BbsBoardProofs ---------------------------
(***************************************************************************)
(* Proofs about BbsBoard, for any sets of processes and sessions and any   *)
(* bounds.  Temporal properties under fairness are left to TLC.            *)
(***************************************************************************)
EXTENDS BbsBoard, SequenceTheorems, TLAPS

-----------------------------------------------------------------------------
(* Facts about the operators *)

\* A listing of k rows is a sequence of k row ids.
LEMMA ListingType ==
    ASSUME NEW k \in Nat
    PROVE  /\ Listing(k) \in Seq(Nat)
           /\ Len(Listing(k)) = k
           /\ \A j \in 1..k : Listing(k)[j] = k + 1 - j
  BY DEF Listing

\* Clamping a non-negative cursor keeps it inside a list of that length.
LEMMA ClampInRange ==
    ASSUME NEW cursor \in Int, cursor >= 0, NEW len \in Nat
    PROVE  /\ Clamp(cursor, len) \in Int
           /\ Clamp(cursor, len) >= 0
           /\ Clamp(cursor, len) < len \/ (len = 0 /\ Clamp(cursor, len) = 0)
  BY DEF Clamp

\* Setting one field of a model.
LEMMA SetCursorType ==
    ASSUME NEW m \in Model, NEW i \in Int
    PROVE  [m EXCEPT !.cursor = i] \in Model
  BY DEF Model

\* Entering a mode keeps the model's type.
LEMMA SetModeType ==
    ASSUME NEW m \in Model, NEW mode \in Modes
    PROVE  [m EXCEPT !.mode = mode] \in Model
  BY DEF Model

\* Moving the focus keeps the model's type.
LEMMA SetFocusType ==
    ASSUME NEW m \in Model, NEW f \in 0..2
    PROVE  [m EXCEPT !.focusIndex = f] \in Model
  BY DEF Model

\* Typing into the subject or the body keeps the model's type.
LEMMA SetDraftType ==
    ASSUME NEW m \in Model, NEW v \in Fields
    PROVE  /\ [m EXCEPT !.subject = v] \in Model
           /\ [m EXCEPT !.body = v] \in Model
  BY DEF Model

\* Clearing the composer touches the draft and the focus only.
LEMMA ResetComposerType ==
    ASSUME NEW m \in Model
    PROVE  /\ ResetComposer(m) \in Model
           /\ ResetComposer(m).messages = m.messages
           /\ ResetComposer(m).cursor = m.cursor
  <1>1. [m EXCEPT !.focusIndex = 0] \in Model
    BY DEF Model
  <1>2. [[m EXCEPT !.focusIndex = 0] EXCEPT !.subject = Blank] \in Model
    BY <1>1 DEF Model, Fields
  <1>3. [[[m EXCEPT !.focusIndex = 0] EXCEPT !.subject = Blank]
             EXCEPT !.body = Blank] \in Model
    BY <1>2 DEF Model, Fields
  <1>4. ResetComposer(m) \in Model
    BY <1>3 DEF ResetComposer
  <1>5. /\ ResetComposer(m).messages = m.messages
        /\ ResetComposer(m).cursor = m.cursor
    BY DEF ResetComposer, Model
  <1> QED BY <1>4, <1>5

\* A delivered listing replaces the list and clamps the cursor.
LEMMA MessagesLoadedType ==
    ASSUME NEW m \in Model, NEW c \in Cmd
    PROVE  /\ MessagesLoaded(m, c) \in Model
           /\ c.st = "err" => MessagesLoaded(m, c) = m
           /\ c.st # "err" =>
                 /\ MessagesLoaded(m, c).messages = Listing(c.k)
                 /\ MessagesLoaded(m, c).cursor = Clamp(m.cursor, c.k)
  <1>1. Listing(c.k) \in Seq(Nat) /\ Clamp(m.cursor, c.k) \in Int
    BY ListingType DEF Cmd, Model, Clamp
  <1>2. [m EXCEPT !.messages = Listing(c.k)] \in Model
    BY <1>1 DEF Model
  <1>3. [[m EXCEPT !.messages = Listing(c.k)]
            EXCEPT !.cursor = Clamp(m.cursor, c.k)] \in Model
    BY <1>1, <1>2 DEF Model
  <1>4. c.st # "err" =>
           /\ MessagesLoaded(m, c) =
                 [[m EXCEPT !.messages = Listing(c.k)]
                     EXCEPT !.cursor = Clamp(m.cursor, c.k)]
           /\ MessagesLoaded(m, c).messages = Listing(c.k)
           /\ MessagesLoaded(m, c).cursor = Clamp(m.cursor, c.k)
    BY DEF MessagesLoaded, Model
  <1> QED BY <1>3, <1>4 DEF MessagesLoaded

\* A delivered post goes on top of the list.
LEMMA MessageCreatedType ==
    ASSUME NEW m \in Model, NEW c \in Cmd
    PROVE  /\ MessageCreated(m, c) \in Model
           /\ c.st = "err" => MessageCreated(m, c) = m
           /\ c.st # "err" =>
                 /\ MessageCreated(m, c).messages = <<c.k>> \o m.messages
                 /\ MessageCreated(m, c).cursor = 0
  <1> DEFINE r == ResetComposer(m)
             q == <<c.k>> \o m.messages
  <1>1. r \in Model /\ r.messages = m.messages
    BY ResetComposerType
  <1>2. q \in Seq(Nat)
    BY DEF Cmd, Model
  <1> DEFINE r1 == [r EXCEPT !.messages = q]
             r2 == [r1 EXCEPT !.cursor = 0]
             r3 == [r2 EXCEPT !.mode = "browse"]
  <1>3. c.st # "err" => MessageCreated(m, c) = r3
    BY <1>1 DEF MessageCreated
  <1> HIDE DEF r, q
  <1>4. r1 \in Model /\ r1.messages = q
    BY <1>1, <1>2 DEF Model
  <1> HIDE DEF r1
  <1>5. r2 \in Model /\ r2.messages = q /\ r2.cursor = 0
    <2>1. r2 \in Model
      BY <1>4, SetCursorType
    <2>2. r2.messages = q /\ r2.cursor = 0
      BY <1>4 DEF Model
    <2> QED BY <2>1, <2>2
  <1> HIDE DEF r2
  <1>6. r3 \in Model
    BY <1>5, SetModeType DEF Modes
  <1>7. r3.messages = q /\ r3.cursor = 0
    BY <1>5 DEF Model
  <1> HIDE DEF r3
  <1>8. c.st = "err" => MessageCreated(m, c) = m
    BY DEF MessageCreated
  <1> QED BY <1>3, <1>6, <1>7, <1>8 DEF q

\* A command keeps its identity when it is executed.
LEMMA AnsweredType ==
    ASSUME NEW c \in Cmd, NEW k \in Nat
    PROVE  /\ Answered(c, k) \in Cmd /\ Failed(c) \in Cmd
           /\ Answered(c, k).st = "ok" /\ Answered(c, k).k = k
           /\ Failed(c).st = "err"
           /\ Answered(c, k).sess = c.sess /\ Answered(c, k).n = c.n
           /\ Answered(c, k).kind = c.kind
           /\ Failed(c).sess = c.sess /\ Failed(c).n = c.n
           /\ Failed(c).kind = c.kind
  <1>1. [c EXCEPT !.st = "ok"] \in Cmd
    BY DEF Cmd
  <1>2. [[c EXCEPT !.st = "ok"] EXCEPT !.k = k] \in Cmd
    BY <1>1 DEF Cmd
  <1>3. Answered(c, k) \in Cmd
    BY <1>2 DEF Answered
  <1>4. Failed(c) \in Cmd
    BY DEF Failed, Cmd
  <1>5. /\ Answered(c, k).st = "ok" /\ Answered(c, k).k = k
        /\ Answered(c, k).sess = c.sess /\ Answered(c, k).n = c.n
        /\ Answered(c, k).kind = c.kind
    BY DEF Answered, Cmd
  <1>6. /\ Failed(c).st = "err"
        /\ Failed(c).sess = c.sess /\ Failed(c).n = c.n
        /\ Failed(c).kind = c.kind
    BY DEF Failed, Cmd
  <1> QED BY <1>3, <1>4, <1>5, <1>6

\* A model at the start of a session.
LEMMA FreshModelType ==
    FreshModel \in Model /\ FreshModel.messages = <<>> /\ FreshModel.cursor = 0
  BY DEF FreshModel, Model, Modes, Fields

-----------------------------------------------------------------------------
(* Type correctness *)

\* A session that issues a command adds a command with a fresh number.
LEMMA IssueType ==
    ASSUME TypeOK, NEW s \in Sessions, NEW kind \in Kinds,
           NEW par \in Params, Issue(s, kind, par)
    PROVE  /\ cmds' \subseteq Cmd
           /\ issued' \in [Sessions -> Nat]
           /\ \A x \in Sessions : issued'[x] <= MaxCmds[x]
  <1>1. issued[s] \in Nat /\ issued[s] + 1 <= MaxCmds[s]
    <2>1. MaxCmds[s] \in Nat
      BY BoundsAreNat
    <2>2. issued[s] \in Nat
      BY DEF TypeOK
    <2>3. issued[s] < MaxCmds[s]
      BY DEF Issue, WithinBound
    <2> QED BY <2>1, <2>2, <2>3
  <1>2. [sess |-> s, n |-> issued[s] + 1, kind |-> kind, params |-> par,
         st |-> "issued", k |-> 0] \in Cmd
    BY <1>1 DEF Cmd
  <1>3. cmds' \subseteq Cmd
    BY <1>2 DEF TypeOK, Issue
  <1>4. /\ issued' \in [Sessions -> Nat]
        /\ \A x \in Sessions : issued'[x] <= MaxCmds[x]
    BY <1>1 DEF TypeOK, Issue
  <1> QED BY <1>3, <1>4

\* No action leaves the types, for any bounds.
LEMMA TypeStep ==
    ASSUME TypeOK, [Next]_vars
    PROVE  TypeOK'
  <1> USE DEF TypeOK
  <1>1. ASSUME NEW p \in Procs, OpenStore(p)
        PROVE  TypeOK'
    BY <1>1 DEF OpenStore
  <1>2. ASSUME NEW p \in Procs, SeedWelcome(p)
        PROVE  TypeOK'
    <2>1. rows' \in Seq(Row)
      BY <1>2 DEF SeedWelcome, Insert, Row
    <2> QED BY <1>2, <2>1 DEF SeedWelcome
  <1>3. ASSUME NEW p \in Procs, OpenFails(p)
        PROVE  TypeOK'
    BY <1>3 DEF OpenFails
  <1>4. ASSUME NEW p \in Procs, Restart(p)
        PROVE  TypeOK'
    <2>1. model' \in [Sessions -> Model]
      BY <1>4, FreshModelType DEF Restart
    <2>2. crashes' \in 0..MaxCrashes
      BY <1>4, BoundsAreNat DEF Restart
    <2> QED BY <1>4, <2>1, <2>2 DEF Restart, Running
  <1>5. ASSUME NEW s \in Sessions, Connect(s) \/ ConnectFails(s) \/ Leave(s)
        PROVE  TypeOK'
    <2>1. CASE Connect(s)
      <3>1. NoParams \in Params /\ "load" \in Kinds
        BY DEF NoParams, Params, Kinds, Fields
      <3> QED BY <2>1, <3>1, IssueType DEF Connect
    <2>2. CASE ConnectFails(s)
      BY <2>2 DEF ConnectFails
    <2>3. CASE Leave(s)
      BY <2>3, FreshModelType DEF Leave
    <2> QED BY <1>5, <2>1, <2>2, <2>3
  <1>6. ASSUME NEW s \in Sessions, Key(s)
        PROVE  TypeOK'
    <2>1. ASSUME NEW m \in Model, SetModel(s, m)
          PROVE  TypeOK'
      BY <2>1 DEF SetModel
    <2>2. model[s] \in Model
      OBVIOUS
    <2>3. CASE Up(s)
      <3>1. model[s].cursor - 1 \in Int
        BY <2>2 DEF Model
      <3>2. [model[s] EXCEPT !.cursor = model[s].cursor - 1] \in Model
        BY <2>2, <3>1, SetCursorType
      <3> QED BY <2>1, <2>3, <3>2 DEF Up
    <2>4. CASE Down(s)
      <3>1. model[s].cursor + 1 \in Int
        BY <2>2 DEF Model
      <3>2. [model[s] EXCEPT !.cursor = model[s].cursor + 1] \in Model
        BY <2>2, <3>1, SetCursorType
      <3> QED BY <2>1, <2>4, <3>2 DEF Down
    <2>5. CASE Reload(s)
      <3>1. NoParams \in Params /\ "load" \in Kinds
        BY DEF NoParams, Params, Kinds, Fields
      <3> QED BY <2>5, <3>1, IssueType DEF Reload
    <2>6. CASE Back(s)
      BY <2>1, <2>2, <2>6, SetModeType DEF Back, Modes
    <2>7. CASE Save(s)
      <3>1. Draft(s) \in Params /\ "create" \in Kinds
        BY <2>2 DEF Draft, Params, Kinds, Model
      <3> QED BY <2>7, <3>1, IssueType DEF Save
    <2>8. CASE Esc(s)
      <3> DEFINE r == ResetComposer(model[s])
      <3>1. r \in Model
        BY <2>2, ResetComposerType
      <3>2. [r EXCEPT !.mode = "browse"] \in Model
        BY <3>1, SetModeType DEF Modes
      <3> QED BY <2>1, <2>8, <3>2 DEF Esc
    <2>9. ASSUME NEW mode \in {"compose", "repl", "chat"}, Enter(s, mode)
          PROVE  TypeOK'
      BY <2>1, <2>2, <2>9, SetModeType DEF Enter, Modes
    <2>10. ASSUME NEW par \in Params, ReplPost(s, par)
           PROVE  TypeOK'
      <3>1. "repl" \in Kinds
        BY DEF Kinds
      <3> QED BY <2>10, <3>1, IssueType DEF ReplPost
    <2>11. ASSUME NEW step \in 1..2, Tab(s, step)
           PROVE  TypeOK'
      <3>1. MoveFocus(model[s].focusIndex, step) \in 0..2
        BY <2>2 DEF MoveFocus, Model
      <3> QED BY <2>1, <2>2, <2>11, <3>1, SetFocusType DEF Tab
    <2>12. ASSUME NEW v \in Fields, Type(s, v)
           PROVE  TypeOK'
      BY <2>1, <2>2, <2>12, SetDraftType DEF Type
    <2> QED BY <1>6, <2>3, <2>4, <2>5, <2>6, <2>7, <2>8, <2>9, <2>10,
               <2>11, <2>12 DEF Key
  <1>7. ASSUME NEW c \in cmds, Execute(c)
        PROVE  TypeOK'
    <2>1. CASE ListMessages(c)
      <3>1. Len(rows) \in Nat
        OBVIOUS
      <3>2. Answered(c, Len(rows)) \in Cmd
        BY <3>1, AnsweredType
      <3> QED BY <2>1, <3>2 DEF ListMessages, Replace
    <2>2. CASE CreateMessage(c)
      <3>1. Len(rows) + 1 \in Nat
        OBVIOUS
      <3>2. Answered(c, Len(rows) + 1) \in Cmd /\ Failed(c) \in Cmd
        BY <3>1, AnsweredType
      <3>3. rows' \in Seq(Row)
        BY <2>2 DEF CreateMessage, Insert, Row, Cmd, Params
      <3> QED BY <2>2, <3>2, <3>3 DEF CreateMessage, Replace
    <2>3. CASE StoreFails(c)
      <3>1. Failed(c) \in Cmd
        BY AnsweredType
      <3> QED BY <2>3, <3>1 DEF StoreFails, Replace
    <2> QED BY <1>7, <2>1, <2>2, <2>3 DEF Execute
  <1>8. ASSUME NEW c \in cmds, Deliver(c)
        PROVE  TypeOK'
    <2>1. c \in Cmd /\ c.sess \in Sessions /\ model[c.sess] \in Model
      BY DEF Cmd
    <2>2. model' \in [Sessions -> Model]
      BY <1>8, <2>1, MessagesLoadedType, MessageCreatedType DEF Deliver
    <2> QED BY <1>8, <2>2 DEF Deliver
  <1>9. ASSUME NEW c \in cmds, DropAnswer(c)
        PROVE  TypeOK'
    BY <1>9 DEF DropAnswer
  <1>10. CASE UNCHANGED vars
    BY <1>10 DEF vars
  <1> QED BY <1>1, <1>2, <1>3, <1>4, <1>5, <1>6, <1>7, <1>8, <1>9, <1>10
          DEF Next

\* Every reachable state has the types TypeOK gives: the store, the sessions
\* and the commands in flight stay well-formed whatever is interleaved.
THEOREM TypeCorrect == Spec => []TypeOK
  <1>1. Init => TypeOK
    BY FreshModelType, BoundsAreNat DEF Init, TypeOK
  <1>2. TypeOK /\ [Next]_vars => TypeOK'
    BY TypeStep
  <1> QED BY <1>1, <1>2, PTL DEF Spec

-----------------------------------------------------------------------------
(* Who committed what: commands, answers and rows *)

\* What relates commands, answers and rows.
Ledger ==
    /\ CommandsDistinct /\ RowsIssued /\ NotYetCommitted
    /\ AnswersCommitted /\ CommittedOnce /\ RowsComplete

\* Facts of the table after one more row.
LEMMA AppendRow ==
    ASSUME TypeOK, NEW r, rows' = Append(rows, r)
    PROVE  /\ Len(rows') = Len(rows) + 1
           /\ DOMAIN rows = 1..Len(rows) /\ DOMAIN rows' = 1..(Len(rows) + 1)
           /\ \A i \in DOMAIN rows : i \in DOMAIN rows' /\ rows'[i] = rows[i]
           /\ rows'[Len(rows) + 1] = r
  BY DEF TypeOK

\* Steps that insert no row and issue or execute no command.
LEMMA LedgerQuiet ==
    ASSUME Ledger, UNCHANGED <<rows, issued>>, cmds' \subseteq cmds,
           \A p \in Procs : store'[p] = "seeding" =>
                               store[p] = "seeding" \/ rows = <<>>
    PROVE  Ledger'
  <1>1. DOMAIN <<>> = {}
    OBVIOUS
  <1>2. CommandsDistinct' /\ RowsIssued' /\ AnswersCommitted'
        /\ CommittedOnce' /\ RowsComplete'
    BY DEF Ledger, CommandsDistinct, RowsIssued, AnswersCommitted,
           CommittedOnce, RowsComplete
  <1>3. NotYetCommitted'
    BY <1>1 DEF Ledger, NotYetCommitted
  <1> QED BY <1>2, <1>3 DEF Ledger

\* A session issues a command.
LEMMA LedgerIssue ==
    ASSUME TypeOK, Ledger, NEW s \in Sessions, NEW kind \in Kinds,
           NEW par \in Params, Issue(s, kind, par), UNCHANGED <<rows, store>>
    PROVE  Ledger'
  <1> DEFINE new == [sess |-> s, n |-> issued[s] + 1, kind |-> kind,
                     params |-> par, st |-> "issued", k |-> 0]
  <1>1. /\ cmds' = cmds \cup {new}
        /\ issued' = [issued EXCEPT ![s] = issued[s] + 1]
        /\ new.sess = s /\ new.n = issued[s] + 1 /\ new.st = "issued"
    BY DEF Issue
  <1> HIDE DEF new
  <1>2. \A x \in Sessions : /\ issued[x] \in Nat
                            /\ issued'[x] \in Nat
                            /\ issued[x] <= issued'[x]
    BY <1>1 DEF TypeOK
  <1>3. issued'[s] = issued[s] + 1
    BY <1>1 DEF TypeOK
  <1>4. \A c \in cmds : c.sess \in Sessions /\ c.n \in Nat
    BY DEF TypeOK, Cmd
  <1>5. CommandsDistinct'
    BY <1>1, <1>2, <1>3, <1>4 DEF Ledger, CommandsDistinct
  <1>6. RowsIssued'
    BY <1>2 DEF Ledger, RowsIssued
  <1>7. \A i \in DOMAIN rows : rows[i].by # s \/ rows[i].n # issued[s] + 1
    BY <1>2 DEF Ledger, RowsIssued
  <1>8. NotYetCommitted'
    BY <1>1, <1>7 DEF Ledger, NotYetCommitted
  <1>9. AnswersCommitted' /\ CommittedOnce' /\ RowsComplete'
    BY <1>1 DEF Ledger, AnswersCommitted, CommittedOnce, RowsComplete
  <1> QED BY <1>5, <1>6, <1>8, <1>9 DEF Ledger

\* A command is replaced by its answer while the table stays.
LEMMA LedgerAnswer ==
    ASSUME TypeOK, Ledger, NEW c \in cmds, c.st = "issued", NEW d \in Cmd,
           d.sess = c.sess, d.n = c.n, d.st # "issued",
           d.st = "ok" => d.kind = "load" /\ d.k <= Len(rows),
           Replace(c, d), UNCHANGED <<rows, store, issued>>
    PROVE  Ledger'
  <1>1. \A e \in cmds' : e = d \/ (e \in cmds /\ e # c)
    BY DEF Replace
  <1>2. CommandsDistinct'
    BY <1>1 DEF Ledger, CommandsDistinct
  <1>3. NotYetCommitted' /\ AnswersCommitted'
    BY <1>1 DEF Ledger, NotYetCommitted, AnswersCommitted
  <1>4. RowsIssued' /\ CommittedOnce' /\ RowsComplete'
    BY DEF Ledger, RowsIssued, CommittedOnce, RowsComplete
  <1> QED BY <1>2, <1>3, <1>4 DEF Ledger

\* An insert: the command's only row appears together with its answer.
LEMMA LedgerCreate ==
    ASSUME TypeOK, Ledger, NEW c \in cmds, CreateMessage(c)
    PROVE  Ledger'
  <1> DEFINE r == [subject |-> c.params.subject, body |-> c.params.body,
                   by |-> c.sess, n |-> c.n]
  <1>0. PICK d \in {Answered(c, Len(rows) + 1), Failed(c)} : Replace(c, d)
    BY DEF CreateMessage
  <1>1. c \in Cmd /\ c.sess \in Sessions /\ c.n \in Nat /\ c.st = "issued"
    BY DEF TypeOK, Cmd, CreateMessage
  <1>2. Len(rows) \in Nat /\ Len(rows) + 1 \in Nat
    BY DEF TypeOK
  <1>3. /\ d.sess = c.sess /\ d.n = c.n /\ d.kind = c.kind
        /\ d.st \in {"ok", "err"} /\ (d.st = "ok" => d.k = Len(rows) + 1)
    <2>1. CASE d = Answered(c, Len(rows) + 1)
      BY <1>1, <1>2, <2>1, AnsweredType
    <2>2. CASE d = Failed(c)
      BY <1>1, <2>2, AnsweredType
    <2> QED BY <1>0, <2>1, <2>2
  <1>4. \A e \in cmds' : e = d \/ (e \in cmds /\ e # c)
    BY <1>0 DEF Replace
  <1>5. rows' = Append(rows, r) /\ UNCHANGED <<store, issued>>
    BY DEF CreateMessage, Insert
  <1>6. /\ r.by = c.sess /\ r.n = c.n
        /\ r.subject # Blank /\ r.body # Blank /\ c.kind # "load"
    BY DEF CreateMessage, Storable
  <1> HIDE DEF r
  <1>7. /\ Len(rows') = Len(rows) + 1
        /\ DOMAIN rows = 1..Len(rows) /\ DOMAIN rows' = 1..(Len(rows) + 1)
        /\ \A i \in DOMAIN rows : i \in DOMAIN rows' /\ rows'[i] = rows[i]
        /\ rows'[Len(rows) + 1] = r
    BY <1>5, AppendRow
  <1>8. \A i \in DOMAIN rows' : i \in DOMAIN rows \/ i = Len(rows) + 1
    BY <1>2, <1>7
  <1>9. CommandsDistinct'
    BY <1>3, <1>4, <1>5 DEF Ledger, CommandsDistinct
  <1>10. RowsIssued'
    BY <1>1, <1>5, <1>6, <1>7, <1>8 DEF Ledger, RowsIssued, CommandsDistinct
  <1>11. \A i \in DOMAIN rows : rows[i].by # c.sess \/ rows[i].n # c.n
    BY <1>1 DEF Ledger, NotYetCommitted
  <1>12. CommittedOnce'
    BY <1>6, <1>7, <1>8, <1>11 DEF Ledger, CommittedOnce
  <1>13. NotYetCommitted'
    <2>1. \A e \in cmds' : e.st = "issued" =>
             \A i \in DOMAIN rows' : rows'[i].by # e.sess \/ rows'[i].n # e.n
      BY <1>3, <1>4, <1>6, <1>7, <1>8
         DEF Ledger, NotYetCommitted, CommandsDistinct
    <2>2. \A p \in Procs : store'[p] = "seeding" =>
             \A i \in DOMAIN rows' : rows'[i].by # p
      BY <1>1, <1>5, <1>6, <1>7, <1>8, DisjointActors
         DEF Ledger, NotYetCommitted
    <2> QED BY <2>1, <2>2 DEF NotYetCommitted
  <1>14. AnswersCommitted'
    BY <1>2, <1>3, <1>4, <1>6, <1>7, <1>8
       DEF Ledger, AnswersCommitted, TypeOK, Cmd
  <1>15. RowsComplete'
    BY <1>6, <1>7, <1>8 DEF Ledger, RowsComplete
  <1> QED BY <1>9, <1>10, <1>12, <1>13, <1>14, <1>15 DEF Ledger

\* The seed of a process.
LEMMA LedgerSeed ==
    ASSUME TypeOK, Ledger, NEW p \in Procs, SeedWelcome(p)
    PROVE  Ledger'
  <1> DEFINE r == [subject |-> "welcome", body |-> "welcome",
                   by |-> p, n |-> 0]
  <1>1. /\ rows' = Append(rows, r) /\ UNCHANGED <<cmds, issued>>
        /\ store[p] = "seeding"
        /\ \E outcome \in {"open", "failed"} :
              store' = [store EXCEPT ![p] = outcome]
    BY DEF SeedWelcome, Insert
  <1>2. /\ r.by = p /\ r.n = 0
        /\ r.subject = "welcome" /\ r.body = "welcome"
    OBVIOUS
  <1> HIDE DEF r
  <1>3. /\ Len(rows') = Len(rows) + 1 /\ Len(rows) \in Nat
        /\ DOMAIN rows = 1..Len(rows) /\ DOMAIN rows' = 1..(Len(rows) + 1)
        /\ \A i \in DOMAIN rows : i \in DOMAIN rows' /\ rows'[i] = rows[i]
        /\ rows'[Len(rows) + 1] = r
    BY <1>1, AppendRow DEF TypeOK
  <1>4. \A i \in DOMAIN rows' : i \in DOMAIN rows \/ i = Len(rows) + 1
    BY <1>3
  <1>5. p \notin Sessions
    BY DisjointActors
  <1>6. \A i \in DOMAIN rows : rows[i].by # p
    BY <1>1 DEF Ledger, NotYetCommitted
  <1>7. CommandsDistinct' /\ RowsIssued'
    BY <1>1, <1>2, <1>3, <1>4, <1>5 DEF Ledger, CommandsDistinct, RowsIssued
  <1>8. CommittedOnce'
    BY <1>2, <1>3, <1>4, <1>6 DEF Ledger, CommittedOnce
  <1>9. NotYetCommitted'
    <2>1. \A c \in cmds : c.sess \in Sessions
      BY DEF TypeOK, Cmd
    <2>2. \A c \in cmds' : c.st = "issued" =>
             \A i \in DOMAIN rows' : rows'[i].by # c.sess \/ rows'[i].n # c.n
      BY <1>1, <1>2, <1>3, <1>4, <1>5, <2>1 DEF Ledger, NotYetCommitted
    <2>3. \A x \in Procs : store'[x] = "seeding" =>
             x # p /\ store[x] = "seeding"
      BY <1>1 DEF TypeOK
    <2>4. \A x \in Procs : store'[x] = "seeding" =>
             \A i \in DOMAIN rows' : rows'[i].by # x
      BY <1>2, <1>3, <1>4, <2>3 DEF Ledger, NotYetCommitted
    <2> QED BY <2>2, <2>4 DEF NotYetCommitted
  <1>10. AnswersCommitted'
    BY <1>1, <1>3, <1>4 DEF Ledger, AnswersCommitted, TypeOK, Cmd
  <1>11. RowsComplete'
    BY <1>2, <1>3, <1>4, WelcomeNotBlank DEF Ledger, RowsComplete
  <1> QED BY <1>7, <1>8, <1>9, <1>10, <1>11 DEF Ledger

\* Every step keeps the ledger.
LEMMA LedgerStep ==
    ASSUME TypeOK, Ledger, [Next]_vars
    PROVE  Ledger'
  <1>1. ASSUME NEW p \in Procs, OpenStore(p)
        PROVE  Ledger'
    <2>1. NeedsSeed(Len(rows)) => rows = <<>>
      BY DEF NeedsSeed, TypeOK
    <2>2. \A x \in Procs : store'[x] = "seeding" =>
             store[x] = "seeding" \/ rows = <<>>
      BY <1>1, <2>1 DEF OpenStore, TypeOK
    <2> QED BY <1>1, <2>2, LedgerQuiet DEF OpenStore
  <1>2. ASSUME NEW p \in Procs, OpenFails(p) \/ Restart(p)
        PROVE  Ledger'
    <2>1. /\ UNCHANGED <<rows, issued>> /\ cmds' \subseteq cmds
          /\ \A x \in Procs : store'[x] = "seeding" => store[x] = "seeding"
      BY <1>2 DEF OpenFails, Restart, TypeOK
    <2> QED BY <2>1, LedgerQuiet
  <1>3. ASSUME NEW s \in Sessions, ConnectFails(s) \/ Leave(s)
        PROVE  Ledger'
    BY <1>3, LedgerQuiet DEF ConnectFails, Leave
  <1>4. ASSUME NEW s \in Sessions, Connect(s) \/ Reload(s)
        PROVE  Ledger'
    <2>1. NoParams \in Params /\ "load" \in Kinds
      BY DEF NoParams, Params, Kinds, Fields
    <2> QED BY <1>4, <2>1, LedgerIssue DEF Connect, Reload
  <1>5. ASSUME NEW s \in Sessions, Save(s)
        PROVE  Ledger'
    <2>1. Draft(s) \in Params /\ "create" \in Kinds
      BY DEF TypeOK, Draft, Params, Kinds, Model
    <2> QED BY <1>5, <2>1, LedgerIssue DEF Save
  <1>6. ASSUME NEW s \in Sessions, NEW par \in Params, ReplPost(s, par)
        PROVE  Ledger'
    <2>1. "repl" \in Kinds
      BY DEF Kinds
    <2> QED BY <1>6, <2>1, LedgerIssue DEF ReplPost
  <1>7. ASSUME NEW s \in Sessions, NEW m, SetModel(s, m)
        PROVE  Ledger'
    BY <1>7, LedgerQuiet DEF SetModel
  <1>8. ASSUME NEW s \in Sessions, Key(s)
        PROVE  Ledger'
    BY <1>4, <1>5, <1>6, <1>7, <1>8
       DEF Key, Up, Down, Back, Esc, Enter, Tab, Type
  <1>9. ASSUME NEW c \in cmds, Execute(c)
        PROVE  Ledger'
    <2>1. c \in Cmd /\ Len(rows) \in Nat
      BY DEF TypeOK
    <2>2. CASE ListMessages(c)
      <3>1. /\ Answered(c, Len(rows)) \in Cmd
            /\ Answered(c, Len(rows)).sess = c.sess
            /\ Answered(c, Len(rows)).n = c.n
            /\ Answered(c, Len(rows)).kind = c.kind
            /\ Answered(c, Len(rows)).st = "ok"
            /\ Answered(c, Len(rows)).k = Len(rows)
        BY <2>1, AnsweredType
      <3> QED BY <2>1, <2>2, <3>1, LedgerAnswer DEF ListMessages
    <2>3. CASE StoreFails(c)
      <3>1. /\ Failed(c) \in Cmd /\ Failed(c).st = "err"
            /\ Failed(c).sess = c.sess /\ Failed(c).n = c.n
        BY <2>1, AnsweredType
      <3> QED BY <2>3, <3>1, LedgerAnswer DEF StoreFails
    <2> QED BY <1>9, <2>2, <2>3, LedgerCreate DEF Execute
  <1>10. ASSUME NEW c \in cmds, Deliver(c) \/ DropAnswer(c)
         PROVE  Ledger'
    <2>1. UNCHANGED <<rows, issued, store>> /\ cmds' \subseteq cmds
      BY <1>10 DEF Deliver, DropAnswer
    <2> QED BY <2>1, LedgerQuiet
  <1>11. CASE UNCHANGED vars
    BY <1>11, LedgerQuiet DEF vars
  <1> QED BY <1>1, <1>2, <1>3, <1>4, <1>8, <1>9, <1>10, <1>11, LedgerSeed
          DEF Next

\* An open store stays non-empty: rows are only ever appended.
LEMMA NotEmptyStep ==
    ASSUME TypeOK, OpenStoreNotEmpty, [Next]_vars
    PROVE  OpenStoreNotEmpty'
  <1>1. ASSUME NEW r, rows' = Append(rows, r)
        PROVE  OpenStoreNotEmpty'
    BY <1>1 DEF TypeOK, OpenStoreNotEmpty
  <1>2. ASSUME UNCHANGED rows,
               \A p \in Procs : store'[p] = "open" => \/ store[p] = "open"
                                                      \/ rows # <<>>
        PROVE  OpenStoreNotEmpty'
    BY <1>2 DEF OpenStoreNotEmpty
  <1>3. ASSUME NEW p \in Procs, OpenStore(p)
        PROVE  OpenStoreNotEmpty'
    BY <1>2, <1>3 DEF OpenStore, NeedsSeed, TypeOK
  <1>4. ASSUME NEW p \in Procs, OpenFails(p) \/ Restart(p)
        PROVE  OpenStoreNotEmpty'
    BY <1>2, <1>4 DEF OpenFails, Restart, TypeOK
  <1>5. ASSUME NEW p \in Procs, SeedWelcome(p)
        PROVE  OpenStoreNotEmpty'
    BY <1>1, <1>5 DEF SeedWelcome, Insert
  <1>6. ASSUME NEW s \in Sessions,
               Connect(s) \/ ConnectFails(s) \/ Key(s) \/ Leave(s)
        PROVE  OpenStoreNotEmpty'
    <2>1. UNCHANGED <<rows, store>>
      BY <1>6 DEF Connect, ConnectFails, Leave, Key, Up, Down, Reload, Back,
                  Save, Esc, Enter, ReplPost, Tab, Type, SetModel
    <2> QED BY <1>2, <2>1
  <1>7. ASSUME NEW c \in cmds, Execute(c) \/ Deliver(c) \/ DropAnswer(c)
        PROVE  OpenStoreNotEmpty'
    <2>1. CASE CreateMessage(c)
      BY <1>1, <2>1 DEF CreateMessage, Insert
    <2>2. CASE ~CreateMessage(c)
      BY <1>2, <1>7, <2>2 DEF Execute, ListMessages, StoreFails, Deliver,
                             DropAnswer
    <2> QED BY <2>1, <2>2
  <1>8. CASE UNCHANGED vars
    BY <1>2, <1>8 DEF vars
  <1> QED BY <1>3, <1>4, <1>5, <1>6, <1>7, <1>8 DEF Next

-----------------------------------------------------------------------------
(* What sessions show *)

\* The table keeps its rows and may gain one.
RowsGrow == \/ UNCHANGED rows
            \/ \E r : rows' = Append(rows, r)

\* A list that was explained by the table is explained by a longer one.
LEMMA ViewGrows ==
    ASSUME TypeOK, RowsGrow, NEW s, NEW msgs \in Seq(Nat),
           ListingUnderOwnPosts(s, msgs)
    PROVE  ListingUnderOwnPosts(s, msgs)'
  <1>1. /\ Len(rows) \in Nat /\ Len(rows') \in Nat /\ Len(rows) <= Len(rows')
        /\ \A i \in DOMAIN rows : i \in DOMAIN rows' /\ rows'[i] = rows[i]
    <2>1. CASE UNCHANGED rows
      BY <2>1 DEF TypeOK
    <2>2. ASSUME NEW r, rows' = Append(rows, r)
          PROVE  <1>1!:
      BY <2>2, AppendRow DEF TypeOK
    <2> QED BY <2>1, <2>2 DEF RowsGrow
  <1> DEFINE Explains(k) ==
        /\ Len(msgs) - k >= 0
        /\ \A j \in 1..(Len(msgs) - k) : /\ msgs[j] \in DOMAIN rows
                                         /\ rows[msgs[j]].by = s
        /\ \A j \in 1..k : msgs[Len(msgs) - k + j] = k + 1 - j
  <1>2. PICK k \in 0..Len(rows) : Explains(k)
    BY DEF ListingUnderOwnPosts
  <1>3. k \in 0..Len(rows')
    BY <1>1
  <1>4. /\ Len(msgs) - k >= 0
        /\ \A j \in 1..(Len(msgs) - k) : /\ msgs[j] \in DOMAIN rows'
                                         /\ rows'[msgs[j]].by = s
        /\ \A j \in 1..k : msgs[Len(msgs) - k + j] = k + 1 - j
    BY <1>1, <1>2
  <1> QED BY <1>3, <1>4 DEF ListingUnderOwnPosts

\* An empty list, and a listing of rows the table has, are explained.
LEMMA ViewOfListing ==
    ASSUME TypeOK, NEW s, NEW k \in 0..Len(rows)
    PROVE  ListingUnderOwnPosts(s, Listing(k))
  <1>1. Len(rows) \in Nat /\ k \in Nat
    BY DEF TypeOK
  <1>2. Len(Listing(k)) = k /\ \A j \in 1..k : Listing(k)[j] = k + 1 - j
    BY <1>1, ListingType
  <1> HIDE DEF Listing
  <1>3. /\ Len(Listing(k)) - k = 0
        /\ \A j \in 1..k : Listing(k)[Len(Listing(k)) - k + j] = k + 1 - j
    BY <1>1, <1>2
  <1> QED BY <1>1, <1>3 DEF ListingUnderOwnPosts

\* An empty view is a listing of no rows.
LEMMA ViewOfNothing ==
    ASSUME TypeOK, NEW s
    PROVE  ListingUnderOwnPosts(s, <<>>)
  <1>1. Len(rows) \in Nat
    BY DEF TypeOK
  <1>2. Len(<<>>) - 0 = 0 /\ 0 \in 0..Len(rows)
    BY <1>1
  <1> QED BY <1>2 DEF ListingUnderOwnPosts

\* A row of the session itself may go on top.
LEMMA ViewOfOwnPost ==
    ASSUME TypeOK, NEW s, NEW msgs \in Seq(Nat), NEW id \in DOMAIN rows,
           rows[id].by = s, ListingUnderOwnPosts(s, msgs)
    PROVE  ListingUnderOwnPosts(s, <<id>> \o msgs)
  <1> DEFINE new == <<id>> \o msgs
  <1>1. id \in Nat /\ Len(rows) \in Nat
    BY DEF TypeOK
  <1>2. /\ Len(new) = Len(msgs) + 1 /\ Len(msgs) \in Nat /\ new[1] = id
        /\ \A j \in 1..Len(msgs) : new[j + 1] = msgs[j]
    BY <1>1
  <1> HIDE DEF new
  <1>3. PICK k \in 0..Len(rows) :
           /\ Len(msgs) - k >= 0
           /\ \A j \in 1..(Len(msgs) - k) : /\ msgs[j] \in DOMAIN rows
                                            /\ rows[msgs[j]].by = s
           /\ \A j \in 1..k : msgs[Len(msgs) - k + j] = k + 1 - j
    BY DEF ListingUnderOwnPosts
  <1>4. Len(new) - k >= 0 /\ k \in Nat
    BY <1>1, <1>2, <1>3
  <1>5. ASSUME NEW j \in 1..(Len(new) - k)
        PROVE  new[j] \in DOMAIN rows /\ rows[new[j]].by = s
    <2>1. CASE j = 1
      BY <1>2, <2>1
    <2>2. CASE j # 1
      <3>1. /\ j - 1 \in 1..(Len(msgs) - k) /\ j - 1 \in 1..Len(msgs)
            /\ (j - 1) + 1 = j
        BY <1>1, <1>2, <1>3, <2>2
      <3>2. new[j] = msgs[j - 1]
        BY <1>2, <3>1
      <3> QED BY <1>3, <3>1, <3>2
    <2> QED BY <2>1, <2>2
  <1>6. ASSUME NEW j \in 1..k
        PROVE  new[Len(new) - k + j] = k + 1 - j
    <2>1. /\ Len(msgs) - k + j \in 1..Len(msgs)
          /\ Len(new) - k + j = (Len(msgs) - k + j) + 1
      BY <1>1, <1>2, <1>3
    <2> QED BY <1>2, <1>3, <2>1
  <1> QED BY <1>4, <1>5, <1>6 DEF ListingUnderOwnPosts, new

\* The cursor of one model points into its list.
CursorOK(m) == /\ m.cursor >= 0
               /\ \/ m.cursor < Len(m.messages)
                  \/ m.cursor = 0 /\ m.messages = <<>>

\* The list and the cursor of one session.
ShowsWell(s) == /\ ListingUnderOwnPosts(s, model[s].messages)
                /\ CursorOK(model[s])

\* A session whose list and cursor a step leaves alone, or starts afresh.
LEMMA ShowsSame ==
    ASSUME TypeOK, TypeOK', RowsGrow, NEW s \in Sessions, ShowsWell(s),
           \/ /\ model'[s].messages = model[s].messages
              /\ model'[s].cursor = model[s].cursor
           \/ model'[s] = FreshModel
    PROVE  ShowsWell(s)'
  <1>1. CASE model'[s] = FreshModel
    <2>1. ListingUnderOwnPosts(s, <<>>)
      BY ViewOfNothing
    <2>2. <<>> \in Seq(Nat)
      OBVIOUS
    <2>3. ListingUnderOwnPosts(s, <<>>)'
      BY <2>1, <2>2, ViewGrows
    <2> QED BY <1>1, <2>3, FreshModelType
            DEF ShowsWell, CursorOK, ListingUnderOwnPosts
  <1>2. CASE /\ model'[s].messages = model[s].messages
             /\ model'[s].cursor = model[s].cursor
    <2> DEFINE msgs == model[s].messages
    <2>1. msgs \in Seq(Nat) /\ ListingUnderOwnPosts(s, msgs)
      BY DEF TypeOK, Model, ShowsWell
    <2>2. ASSUME NEW q \in Seq(Nat), q = model[s].messages
          PROVE  ListingUnderOwnPosts(s, q)'
      BY <2>1, <2>2, ViewGrows
    <2>3. ListingUnderOwnPosts(s, model[s].messages)'
      BY <1>2, <2>1, <2>2 DEF ListingUnderOwnPosts
    <2> QED BY <1>2, <2>3 DEF ShowsWell, CursorOK
  <1> QED BY <1>1, <1>2

\* A delivered answer leaves the list explained and the cursor in it.
LEMMA ShowsDeliver ==
    ASSUME TypeOK, AnswersCommitted, NEW c \in cmds, Deliver(c),
           NEW s \in Sessions, ShowsWell(s)
    PROVE  ShowsWell(s)'
  <1>1. TypeOK' /\ RowsGrow /\ UNCHANGED rows
    <2>1. [Next]_vars
      BY DEF Next
    <2> QED BY <2>1, TypeStep DEF Deliver, RowsGrow
  <1>2. CASE s # c.sess
    <2>1. model'[s] = model[s]
      BY <1>2 DEF Deliver, TypeOK
    <2> QED BY <1>1, <2>1, ShowsSame
  <1>3. CASE s = c.sess
    <2> DEFINE m == model[s]
    <2>1. /\ c \in Cmd /\ m \in Model /\ m.messages \in Seq(Nat)
          /\ m.cursor \in Int /\ m.cursor >= 0 /\ c.st # "issued"
          /\ c.st \in {"issued", "ok", "err"} /\ c.k \in Nat
      BY DEF TypeOK, Cmd, Model, ShowsWell, CursorOK, Deliver, Deliverable
    <2>2. CASE c.kind = "load"
      <3>1. model'[s] = MessagesLoaded(m, c)
        BY <1>3, <2>2 DEF Deliver, TypeOK
      <3>2. CASE c.st = "err"
        <4>1. model'[s] = m
          BY <2>1, <3>1, <3>2, MessagesLoadedType
        <4> QED BY <1>1, <4>1, ShowsSame
      <3>3. CASE c.st = "ok"
        <4>1. /\ model'[s].messages = Listing(c.k)
              /\ model'[s].cursor = Clamp(m.cursor, c.k)
          BY <2>1, <3>1, <3>3, MessagesLoadedType
        <4>2. c.k \in 0..Len(rows)
          BY <2>1, <2>2, <3>3 DEF AnswersCommitted, TypeOK
        <4>3. ListingUnderOwnPosts(s, Listing(c.k))
          BY <4>2, ViewOfListing
        <4>4. ListingUnderOwnPosts(s, model[s].messages)'
          BY <1>1, <4>1, <4>3 DEF ListingUnderOwnPosts
        <4>5. Len(Listing(c.k)) = c.k /\ (c.k = 0 => Listing(c.k) = <<>>)
          <5>1. Listing(c.k) \in Seq(Nat) /\ Len(Listing(c.k)) = c.k
            BY <2>1, ListingType
          <5>2. \A q \in Seq(Nat) : Len(q) = 0 => q = <<>>
            OBVIOUS
          <5> QED BY <5>1, <5>2
        <4>6. CursorOK(model[s])'
          BY <2>1, <4>1, <4>5, ClampInRange DEF CursorOK
        <4> QED BY <4>4, <4>6 DEF ShowsWell
      <3> QED BY <2>1, <3>2, <3>3
    <2>3. CASE c.kind = "create"
      <3>1. model'[s] = MessageCreated(m, c)
        BY <1>3, <2>3 DEF Deliver, TypeOK
      <3>2. CASE c.st = "err"
        <4>1. model'[s] = m
          BY <2>1, <3>1, <3>2, MessageCreatedType
        <4> QED BY <1>1, <4>1, ShowsSame
      <3>3. CASE c.st = "ok"
        <4> DEFINE q == <<c.k>> \o m.messages
        <4>1. model'[s].messages = q /\ model'[s].cursor = 0
          BY <2>1, <3>1, <3>3, MessageCreatedType
        <4>2. c.k \in DOMAIN rows /\ rows[c.k].by = s
          BY <1>3, <2>3, <3>3 DEF AnswersCommitted
        <4>3. ListingUnderOwnPosts(s, m.messages)
          BY DEF ShowsWell
        <4>4. ListingUnderOwnPosts(s, q) /\ Len(q) > 0
          BY <2>1, <4>2, <4>3, ViewOfOwnPost
        <4> HIDE DEF q
        <4>5. ListingUnderOwnPosts(s, model[s].messages)'
          BY <1>1, <4>1, <4>4 DEF ListingUnderOwnPosts
        <4>6. CursorOK(model[s])'
          BY <4>1, <4>4 DEF CursorOK
        <4> QED BY <4>5, <4>6 DEF ShowsWell
      <3> QED BY <2>1, <3>2, <3>3
    <2>4. CASE c.kind \notin {"load", "create"}
      <3>1. model'[s] = m
        BY <1>3, <2>4 DEF Deliver, TypeOK
      <3> QED BY <1>1, <3>1, ShowsSame
    <2> QED BY <2>2, <2>3, <2>4
  <1> QED BY <1>2, <1>3

\* A key press leaves the list alone and moves the cursor inside it.
LEMMA ShowsKey ==
    ASSUME TypeOK, NEW x \in Sessions, Key(x), NEW s \in Sessions,
           ShowsWell(s)
    PROVE  ShowsWell(s)'
  <1>1. TypeOK' /\ RowsGrow /\ UNCHANGED rows
    <2>1. [Next]_vars
      BY DEF Next
    <2>2. UNCHANGED rows
      BY DEF Key, Up, Down, Reload, Back, Save, Esc, Enter, ReplPost, Tab,
             Type, SetModel
    <2> QED BY <2>1, <2>2, TypeStep DEF RowsGrow
  <1>2. model[s] \in Model
    BY DEF TypeOK
  <1>3. ASSUME NEW m \in Model, SetModel(x, m),
               m.messages = model[x].messages, m.cursor = model[x].cursor
        PROVE  ShowsWell(s)'
    BY <1>1, <1>3, ShowsSame DEF SetModel, TypeOK
  <1>4. ASSUME UNCHANGED model
        PROVE  ShowsWell(s)'
    BY <1>1, <1>4, ShowsSame
  <1>5. ASSUME NEW i \in Int, SetModel(x, [model[x] EXCEPT !.cursor = i]),
               i >= 0, i < Len(model[x].messages)
        PROVE  ShowsWell(s)'
    <2>1. CASE s # x
      <3>1. model'[s] = model[s]
        BY <1>5, <2>1 DEF SetModel, TypeOK
      <3> QED BY <1>1, <3>1, ShowsSame
    <2>2. CASE s = x
      <3>1. model'[s].messages = model[s].messages /\ model'[s].cursor = i
        BY <1>2, <1>5, <2>2 DEF SetModel, TypeOK, Model
      <3>2. ListingUnderOwnPosts(s, model[s].messages)'
        BY <1>1, <3>1 DEF ShowsWell, ListingUnderOwnPosts
      <3> QED BY <1>5, <2>2, <3>1, <3>2 DEF ShowsWell, CursorOK
    <2> QED BY <2>1, <2>2
  <1>6. model[x] \in Model
    BY DEF TypeOK
  <1>7. CASE Up(x)
    <2>1. model[x].cursor \in Int /\ Len(model[x].messages) \in Nat
      BY <1>6 DEF Model
    <2> DEFINE i == model[x].cursor - 1
    <2>2. i \in Int /\ i >= 0
      BY <1>7, <2>1 DEF Up
    <2>3. SetModel(x, [model[x] EXCEPT !.cursor = i])
      BY <1>7 DEF Up
    <2>4. CASE s = x
      <3>1. i < Len(model[x].messages)
        BY <1>7, <2>1, <2>4 DEF Up, ShowsWell, CursorOK
      <3> QED BY <1>5, <2>2, <2>3, <3>1
    <2>5. CASE s # x
      <3>1. model'[s] = model[s]
        BY <2>3, <2>5 DEF SetModel, TypeOK
      <3> QED BY <1>1, <3>1, ShowsSame
    <2> QED BY <2>4, <2>5
  <1>8. CASE Down(x)
    <2>1. model[x].cursor \in Int /\ Len(model[x].messages) \in Nat
      BY <1>6 DEF Model
    <2> DEFINE i == model[x].cursor + 1
    <2>2. i \in Int /\ i < Len(model[x].messages)
      BY <1>8, <2>1 DEF Down
    <2>3. SetModel(x, [model[x] EXCEPT !.cursor = i])
      BY <1>8 DEF Down
    <2>4. CASE s = x
      <3>1. i >= 0
        BY <2>1, <2>4 DEF ShowsWell, CursorOK
      <3> QED BY <1>5, <2>2, <2>3, <3>1
    <2>5. CASE s # x
      <3>1. model'[s] = model[s]
        BY <2>3, <2>5 DEF SetModel, TypeOK
      <3> QED BY <1>1, <3>1, ShowsSame
    <2> QED BY <2>4, <2>5
  <1>9. ASSUME NEW mode \in Modes,
               SetModel(x, [model[x] EXCEPT !.mode = mode])
        PROVE  ShowsWell(s)'
    <2> DEFINE m == [model[x] EXCEPT !.mode = mode]
    <2>1. m \in Model
      BY <1>6, SetModeType
    <2>2. m.messages = model[x].messages /\ m.cursor = model[x].cursor
      BY <1>6 DEF Model
    <2> QED BY <1>3, <1>9, <2>1, <2>2
  <1>10. CASE Back(x) \/ \E mode \in {"compose", "repl", "chat"} :
                            Enter(x, mode)
    BY <1>9, <1>10 DEF Back, Enter, Modes
  <1>11. CASE Esc(x)
    <2> DEFINE r == ResetComposer(model[x])
               m == [r EXCEPT !.mode = "browse"]
    <2>1. /\ r \in Model /\ r.messages = model[x].messages
          /\ r.cursor = model[x].cursor
      BY <1>6, ResetComposerType
    <2>2. SetModel(x, m)
      BY <1>11 DEF Esc
    <2> HIDE DEF r
    <2>3. m \in Model
      BY <2>1, SetModeType DEF Modes
    <2>4. m.messages = model[x].messages /\ m.cursor = model[x].cursor
      BY <2>1 DEF Model
    <2> QED BY <1>3, <2>2, <2>3, <2>4
  <1>12. ASSUME NEW step \in 1..2, Tab(x, step)
         PROVE  ShowsWell(s)'
    <2> DEFINE f == MoveFocus(model[x].focusIndex, step)
               m == [model[x] EXCEPT !.focusIndex = f]
    <2>1. f \in 0..2
      BY <1>6 DEF MoveFocus, Model
    <2>2. SetModel(x, m)
      BY <1>12 DEF Tab
    <2> HIDE DEF f
    <2>3. m \in Model
      BY <1>6, <2>1, SetFocusType
    <2>4. m.messages = model[x].messages /\ m.cursor = model[x].cursor
      BY <1>6 DEF Model
    <2> QED BY <1>3, <2>2, <2>3, <2>4
  <1>13. ASSUME NEW v \in Fields, Type(x, v)
         PROVE  ShowsWell(s)'
    <2> DEFINE m1 == [model[x] EXCEPT !.subject = v]
               m2 == [model[x] EXCEPT !.body = v]
    <2>1. m1 \in Model /\ m2 \in Model
      BY <1>6, SetDraftType
    <2>2. m1.messages = model[x].messages /\ m1.cursor = model[x].cursor
      BY <1>6 DEF Model
    <2>3. m2.messages = model[x].messages /\ m2.cursor = model[x].cursor
      BY <1>6 DEF Model
    <2>4. SetModel(x, m1) \/ SetModel(x, m2)
      BY <1>13 DEF Type
    <2> QED BY <1>3, <2>1, <2>2, <2>3, <2>4
  <1>14. CASE Reload(x) \/ Save(x) \/ \E par \in Params : ReplPost(x, par)
    BY <1>4, <1>14 DEF Reload, Save, ReplPost
  <1> QED BY <1>7, <1>8, <1>10, <1>11, <1>12, <1>13, <1>14 DEF Key

\* Every step keeps every session's list explained and its cursor in it.
LEMMA ShowsStep ==
    ASSUME TypeOK, AnswersCommitted, [Next]_vars, NEW s \in Sessions,
           ShowsWell(s)
    PROVE  ShowsWell(s)'
  <1>1. TypeOK'
    BY TypeStep
  <1>2. ASSUME RowsGrow, model'[s] = model[s] \/ model'[s] = FreshModel
        PROVE  ShowsWell(s)'
    BY <1>1, <1>2, ShowsSame
  <1>3. ASSUME NEW p \in Procs,
               OpenStore(p) \/ SeedWelcome(p) \/ OpenFails(p) \/ Restart(p)
        PROVE  ShowsWell(s)'
    BY <1>2, <1>3 DEF OpenStore, SeedWelcome, OpenFails, Restart, RowsGrow,
                      Insert, TypeOK
  <1>4. ASSUME NEW x \in Sessions, Connect(x) \/ ConnectFails(x) \/ Leave(x)
        PROVE  ShowsWell(s)'
    BY <1>2, <1>4 DEF Connect, ConnectFails, Leave, RowsGrow, TypeOK
  <1>5. ASSUME NEW c \in cmds, Execute(c) \/ DropAnswer(c)
        PROVE  ShowsWell(s)'
    BY <1>2, <1>5 DEF Execute, ListMessages, CreateMessage, StoreFails,
                      DropAnswer, RowsGrow, Insert
  <1>6. CASE UNCHANGED vars
    BY <1>2, <1>6 DEF vars, RowsGrow
  <1> QED BY <1>3, <1>4, <1>5, <1>6, ShowsKey, ShowsDeliver DEF Next

-----------------------------------------------------------------------------
(* The inductive invariant and its consequences *)

\* ShowsWell for every session is what the two view properties say together.
LEMMA ShowsWellMeaning ==
    (\A s \in Sessions : ShowsWell(s))
        <=> CursorInRange /\ ViewIsListingUnderOwnPosts
  BY DEF ShowsWell, CursorOK, CursorInRange, ViewIsListingUnderOwnPosts

\* The inductive invariant is the type invariant, the ledger and the views.
LEMMA IndInvMeaning ==
    IndInv <=> /\ TypeOK /\ Ledger /\ OpenStoreNotEmpty
               /\ \A s \in Sessions : ShowsWell(s)
  BY ShowsWellMeaning DEF IndInv, Ledger

\* IndInv is an invariant: the rows, the commands in flight, their answers
\* and what every session shows agree in every reachable state.
THEOREM Inductive == Spec => []IndInv
  <1>1. Init => IndInv
    <2> SUFFICES ASSUME Init PROVE IndInv
      OBVIOUS
    <2>1. TypeOK
      BY FreshModelType, BoundsAreNat DEF Init, TypeOK
    <2>2. DOMAIN rows = {} /\ cmds = {}
      BY DEF Init
    <2>3. Ledger
      BY <2>2 DEF Ledger, CommandsDistinct, RowsIssued, NotYetCommitted,
                  AnswersCommitted, CommittedOnce, RowsComplete
    <2>4. OpenStoreNotEmpty
      BY DEF Init, OpenStoreNotEmpty
    <2>5. ASSUME NEW s \in Sessions
          PROVE  ShowsWell(s)
      BY <2>1, FreshModelType, ViewOfNothing DEF Init, ShowsWell, CursorOK
    <2> QED BY <2>1, <2>3, <2>4, <2>5, IndInvMeaning
  <1>2. IndInv /\ [Next]_vars => IndInv'
    <2> SUFFICES ASSUME IndInv, [Next]_vars PROVE IndInv'
      OBVIOUS
    <2>1. /\ TypeOK /\ Ledger /\ OpenStoreNotEmpty /\ AnswersCommitted
          /\ \A s \in Sessions : ShowsWell(s)
      BY IndInvMeaning DEF Ledger
    <2>2. TypeOK' /\ Ledger' /\ OpenStoreNotEmpty'
      BY <2>1, TypeStep, LedgerStep, NotEmptyStep
    <2>3. \A s \in Sessions : ShowsWell(s)'
      BY <2>1, ShowsStep
    <2>4. CursorInRange' /\ ViewIsListingUnderOwnPosts'
      BY <2>3 DEF ShowsWell, CursorOK, CursorInRange,
                  ViewIsListingUnderOwnPosts
    <2> QED BY <2>2, <2>4 DEF IndInv, Ledger
  <1> QED BY <1>1, <1>2, PTL DEF Spec

\* No Ctrl+S, no REPL post and no process's seed ever puts two rows into the
\* table, over any interleaving of sessions, store errors and restarts.
THEOREM EachCommittedOnce == Spec => []CommittedOnce
  <1>1. IndInv => CommittedOnce
    BY DEF IndInv
  <1> QED BY <1>1, Inductive, PTL

\* A process whose Open has returned never serves an empty board.
THEOREM OpenStoreHasRows == Spec => []OpenStoreNotEmpty
  <1>1. IndInv => OpenStoreNotEmpty
    BY DEF IndInv
  <1> QED BY <1>1, Inductive, PTL

\* Every session always shows a listing of committed rows under committed
\* posts of its own, in whatever order answers arrive.
THEOREM ViewsExplained == Spec => []ViewIsListingUnderOwnPosts
  <1>1. IndInv => ViewIsListingUnderOwnPosts
    BY DEF IndInv
  <1> QED BY <1>1, Inductive, PTL

\* The cursor of every session always points into its list.
THEOREM CursorAlwaysInRange == Spec => []CursorInRange
  <1>1. IndInv => CursorInRange
    BY DEF IndInv
  <1> QED BY <1>1, Inductive, PTL

\* No row of the table is ever incomplete.
THEOREM AllRowsComplete == Spec => []RowsComplete
  <1>1. IndInv => RowsComplete
    BY DEF IndInv
  <1> QED BY <1>1, Inductive, PTL

\* A save answered with an error, a reload and a REPL answer leave mode and
\* draft alone; an answer that changes them belongs to a committed save.
LEMMA DeliverKeepsDraft ==
  ASSUME IndInv, NEW c \in cmds, Deliver(c),
         \/ model'[c.sess].mode # model[c.sess].mode
         \/ model'[c.sess].subject # model[c.sess].subject
         \/ model'[c.sess].body # model[c.sess].body
  PROVE  c.kind = "create" /\ c.st = "ok"
  <1> USE DEF IndInv, TypeOK
  <1>1. c \in Cmd /\ c.sess \in Sessions /\ c.st \in {"ok", "err"}
    BY DEF Deliver, Deliverable, Cmd
  <1>2. model[c.sess] \in Model
    BY <1>1
  <1> DEFINE m == model[c.sess]
  <1>3. CASE c.kind = "load"
    <2>1. model'[c.sess] = MessagesLoaded(m, c)
      BY <1>1, <1>3 DEF Deliver
    <2>2. /\ MessagesLoaded(m, c).mode = m.mode
          /\ MessagesLoaded(m, c).subject = m.subject
          /\ MessagesLoaded(m, c).body = m.body
      BY <1>2 DEF MessagesLoaded, Model
    <2> QED BY <2>1, <2>2
  <1>4. CASE c.kind = "repl"
    BY <1>1, <1>4 DEF Deliver
  <1>5. CASE c.kind = "create" /\ c.st = "err"
    BY <1>1, <1>5 DEF Deliver, MessageCreated
  <1> QED BY <1>1, <1>3, <1>4, <1>5 DEF Cmd, Kinds

\* A step that takes a command away keeps its session's mode and draft, ends
\* the session, or delivers a committed save.
LEMMA ComposerStep ==
  ASSUME IndInv, Next, NEW c \in cmds \ cmds', phase'[c.sess] = "on",
         \/ model'[c.sess].mode # model[c.sess].mode
         \/ model'[c.sess].subject # model[c.sess].subject
         \/ model'[c.sess].body # model[c.sess].body
  PROVE  \E i \in DOMAIN rows : /\ rows[i].by = c.sess
                                /\ rows[i].n = c.n
                                /\ c.kind = "create"
  <1> USE DEF IndInv, TypeOK
  <1>1. c.sess \in Sessions
    BY DEF Cmd
  <1>2. CASE \E p \in Procs : OpenStore(p) \/ SeedWelcome(p) \/ OpenFails(p)
    BY <1>2 DEF OpenStore, SeedWelcome, OpenFails
  <1>3. ASSUME NEW p \in Procs, Restart(p)
        PROVE  FALSE
    BY <1>1, <1>3 DEF Restart, Running
  <1>4. CASE \E s \in Sessions :
               Connect(s) \/ ConnectFails(s) \/ Key(s) \/ Leave(s)
    BY <1>4 DEF Connect, ConnectFails, Key, Leave, Issue, SetModel, Up, Down,
                Reload, Back, Save, Esc, Enter, ReplPost, Tab, Type
  <1>5. ASSUME NEW d \in cmds, Execute(d) \/ DropAnswer(d)
        PROVE  FALSE
    BY <1>5 DEF Execute, ListMessages, CreateMessage, StoreFails, DropAnswer
  <1>6. ASSUME NEW d \in cmds, Deliver(d)
        PROVE  d = c
    BY <1>6 DEF Deliver
  <1>7. CASE Deliver(c)
    <2>1. c.kind = "create" /\ c.st = "ok"
      BY <1>7, DeliverKeepsDraft
    <2>2. /\ c.k \in DOMAIN rows
          /\ rows[c.k].by = c.sess /\ rows[c.k].n = c.n
      BY <2>1 DEF AnswersCommitted
    <2> QED BY <2>1, <2>2
  <1> QED BY <1>2, <1>3, <1>4, <1>5, <1>6, <1>7 DEF Next

\* The user's draft and mode are only taken away by an answer when the save
\* it answers is in the table.
THEOREM ComposerKept == Spec => ComposerClosedOnlyByCommit
  <1> DEFINE P == \A c \in cmds \ cmds' :
          LET old == model[c.sess]
              new == model'[c.sess]
          IN  /\ phase'[c.sess] = "on"
              /\ \/ new.mode # old.mode
                 \/ new.subject # old.subject
                 \/ new.body # old.body
              => \E i \in DOMAIN rows : /\ rows[i].by = c.sess
                                        /\ rows[i].n = c.n
                                        /\ c.kind = "create"
  <1>1. IndInv /\ [Next]_vars => [P]_vars
    <2> SUFFICES ASSUME IndInv, Next PROVE P
      OBVIOUS
    <2> QED BY ComposerStep
  <1> QED BY <1>1, Inductive, PTL DEF Spec, ComposerClosedOnlyByCommit

-----------------------------------------------------------------------------
(* The board implements PostLog *)

\* The images of the table and of the sessions' lists.
LogBar == [i \in DOMAIN rows |-> PostOf(rows[i])]
ShownBar == [s \in Sessions |-> ListedPosts(s)]

\* A listing of the first k rows under entries that are in a table of len
\* rows has only entries that are in the table.
LEMMA ExplainedInTable ==
    ASSUME NEW len \in Nat, NEW msgs \in Seq(Nat), NEW k \in 0..len,
           Len(msgs) - k >= 0,
           \A i \in 1..(Len(msgs) - k) : msgs[i] \in 1..len,
           \A i \in 1..k : msgs[(Len(msgs) - k) + i] = k + 1 - i,
           NEW j \in DOMAIN msgs
    PROVE  msgs[j] \in 1..len
  <1> DEFINE own == Len(msgs) - k
  <1>1. j \in 1..Len(msgs) /\ Len(msgs) \in Nat /\ own \in Nat
    OBVIOUS
  <1>2. CASE j > own
    <2>1. j - own \in 1..k /\ j = own + (j - own)
      BY <1>1, <1>2
    <2>2. \A i \in 1..k : msgs[own + i] = k + 1 - i
      OBVIOUS
    <2>3. msgs[j] = k + 1 - (j - own)
      BY <2>1, <2>2
    <2>4. \A i \in 1..k : k + 1 - i \in 1..len
      OBVIOUS
    <2> HIDE DEF own
    <2> QED BY <2>1, <2>3, <2>4
  <1>3. CASE j <= own
    BY <1>1, <1>3
  <1> QED BY <1>1, <1>2, <1>3

\* Sessions list rows that are in the table.
ListsRows ==
    \A s \in Sessions : \A j \in DOMAIN model[s].messages :
        model[s].messages[j] \in DOMAIN rows

\* The views the invariant speaks of list rows that are in the table.
LEMMA ListedAreRows == IndInv => ListsRows
  <1> SUFFICES ASSUME IndInv, NEW s \in Sessions,
                      NEW j \in DOMAIN model[s].messages
               PROVE  model[s].messages[j] \in DOMAIN rows
    BY DEF ListsRows
  <1> DEFINE msgs == model[s].messages
  <1>1. /\ msgs \in Seq(Nat) /\ Len(rows) \in Nat
        /\ DOMAIN rows = 1..Len(rows)
    BY DEF IndInv, TypeOK, Model
  <1>2. PICK k \in 0..Len(rows) :
           /\ Len(msgs) - k >= 0
           /\ \A i \in 1..(Len(msgs) - k) : msgs[i] \in DOMAIN rows
           /\ \A i \in 1..k : msgs[(Len(msgs) - k) + i] = k + 1 - i
    BY DEF IndInv, ViewIsListingUnderOwnPosts, ListingUnderOwnPosts
  <1> HIDE DEF msgs
  <1>3. \A i \in 1..(Len(msgs) - k) : msgs[i] \in 1..Len(rows)
    BY <1>1, <1>2
  <1>4. j \in DOMAIN msgs
    BY DEF msgs
  <1>5. msgs[j] \in 1..Len(rows)
    BY <1>1, <1>2, <1>3, <1>4, ExplainedInTable
  <1> QED BY <1>1, <1>5 DEF msgs

\* Posts may be given up, and sessions that end list nothing.
LEMMA MapsToGiveUp ==
    ASSUME UNCHANGED rows, AwaitedPosts' \subseteq AwaitedPosts,
           \A s \in Sessions : \/ model'[s].messages = model[s].messages
                               \/ model'[s].messages = <<>>
    PROVE  Log!GiveUp
  <1> DEFINE blank == {s \in Sessions : model'[s].messages = <<>>}
  <1>1. ASSUME NEW s \in Sessions
        PROVE  ListedPosts(s)' = IF s \in blank THEN {} ELSE ListedPosts(s)
    BY <1>1 DEF ListedPosts
  <1>2. ShownBar' = [s \in Sessions |-> IF s \in blank THEN {} ELSE ShownBar[s]]
    BY <1>1 DEF ShownBar
  <1>3. blank \in SUBSET Sessions
    OBVIOUS
  <1>4. LogBar' = LogBar
    BY DEF LogBar
  <1> HIDE DEF blank
  <1> QED BY <1>2, <1>3, <1>4 DEF Log!GiveUp, ShownBar, LogBar

\* A post is asked for.
LEMMA MapsToRequest ==
    ASSUME UNCHANGED <<rows, model>>, NEW p, p \notin AwaitedPosts,
           \A i \in DOMAIN rows : PostOf(rows[i]) # p,
           AwaitedPosts' = AwaitedPosts \cup {p}
    PROVE  Log!Request(p)
  <1>1. LogBar' = LogBar /\ ShownBar' = ShownBar
    BY DEF LogBar, ShownBar, ListedPosts
  <1>2. p \notin Log!Committed
    BY DEF Log!Committed
  <1> QED BY <1>1, <1>2 DEF Log!Request, LogBar, ShownBar

\* A post is committed.
LEMMA MapsToCommit ==
    ASSUME IndInv, NEW row, rows' = Append(rows, row), UNCHANGED model,
           PostOf(row) \in AwaitedPosts,
           AwaitedPosts' = AwaitedPosts \ {PostOf(row)}
    PROVE  Log!Commit(PostOf(row))
  <1>1. /\ Len(rows') = Len(rows) + 1 /\ Len(rows) \in Nat
        /\ DOMAIN rows = 1..Len(rows) /\ DOMAIN rows' = 1..(Len(rows) + 1)
        /\ \A i \in DOMAIN rows : i \in DOMAIN rows' /\ rows'[i] = rows[i]
        /\ rows'[Len(rows) + 1] = row
    BY AppendRow DEF IndInv, TypeOK
  <1>2. LogBar' = Append(LogBar, PostOf(row))
    <2>1. /\ LogBar = [i \in 1..Len(rows) |-> PostOf(rows[i])]
          /\ LogBar' = [i \in 1..(Len(rows) + 1) |-> PostOf(rows'[i])]
      BY <1>1 DEF LogBar
    <2> DEFINE S == {PostOf(rows'[i]) : i \in DOMAIN rows'}
    <2>2. /\ LogBar \in Seq(S) /\ Len(LogBar) = Len(rows)
          /\ LogBar' \in Seq(S) /\ Len(LogBar') = Len(rows) + 1
      BY <1>1, <2>1
    <2>3. PostOf(row) \in S
      BY <1>1
    <2>4. /\ \A i \in 1..Len(rows) : LogBar'[i] = LogBar[i]
          /\ LogBar'[Len(rows) + 1] = PostOf(row)
      BY <1>1, <2>1
    <2> HIDE DEF S
    <2>5. /\ Append(LogBar, PostOf(row)) \in Seq(S)
          /\ Len(Append(LogBar, PostOf(row))) = Len(rows) + 1
          /\ \A i \in 1..Len(rows) : Append(LogBar, PostOf(row))[i] = LogBar[i]
          /\ Append(LogBar, PostOf(row))[Len(rows) + 1] = PostOf(row)
      BY <2>2, <2>3, AppendProperties
    <2>6. \A i \in 1..Len(LogBar') : LogBar'[i] = Append(LogBar, PostOf(row))[i]
      BY <1>1, <2>2, <2>4, <2>5
    <2> QED BY <2>2, <2>5, <2>6, SeqEqual
  <1>3. ASSUME NEW s \in Sessions
        PROVE  ListedPosts(s)' = ListedPosts(s)
    BY <1>1, ListedAreRows DEF ListsRows, ListedPosts
  <1>4. ShownBar' = ShownBar
    BY <1>3 DEF ShownBar
  <1> QED BY <1>2, <1>4 DEF Log!Commit, LogBar, ShownBar

\* A session is shown other committed posts.
LEMMA MapsToShow ==
    ASSUME UNCHANGED rows, AwaitedPosts' = AwaitedPosts, NEW s \in Sessions,
           \A r \in Sessions \ {s} : model'[r] = model[r], ListsRows'
    PROVE  Log!Show(s)
  <1>1. ListedPosts(s)' \subseteq {PostOf(rows[i]) : i \in DOMAIN rows}
    BY DEF ListsRows, ListedPosts
  <1>2. ListedPosts(s)' \in SUBSET Log!Committed
    BY <1>1 DEF Log!Committed
  <1>3. ASSUME NEW r \in Sessions \ {s}
        PROVE  ListedPosts(r)' = ListedPosts(r)
    BY <1>3 DEF ListedPosts
  <1>4. ShownBar' = [ShownBar EXCEPT ![s] = ListedPosts(s)']
    BY <1>3 DEF ShownBar
  <1>5. LogBar' = LogBar
    BY DEF LogBar
  <1> QED BY <1>2, <1>4, <1>5 DEF Log!Show, LogBar, ShownBar

\* What a command in flight asks for.
Asks(c) == c.kind # "load" /\ c.st = "issued"

\* Steps that leave the processes' stores alone or let them fail, and answer,
\* drop or add commands that ask for nothing.
LEMMA AwaitedShrinks ==
    ASSUME \A c \in cmds' : Asks(c) => c \in cmds,
           \A p \in Procs : store'[p] = "seeding" => store[p] = "seeding"
    PROVE  AwaitedPosts' \subseteq AwaitedPosts
  BY DEF AwaitedPosts, Asks

\* Steps after which the same posts are asked for.
LEMMA AwaitedSame ==
    ASSUME \A c : Asks(c) => (c \in cmds' <=> c \in cmds), UNCHANGED store
    PROVE  AwaitedPosts' = AwaitedPosts
  BY DEF AwaitedPosts, Asks

\* Issuing a command is asking for a post, unless it is a load.
LEMMA IssueMaps ==
    ASSUME IndInv, NEW s \in Sessions, NEW kind \in Kinds, NEW par \in Params,
           Issue(s, kind, par), UNCHANGED <<rows, store, model>>
    PROVE  [Log!Next]_(Log!vars)
  <1> DEFINE n == issued[s] + 1
             d == [sess |-> s, n |-> n, kind |-> kind, params |-> par,
                   st |-> "issued", k |-> 0]
             p == <<s, n>>
  <1>1. cmds' = cmds \cup {d} /\ issued[s] \in Nat /\ n \in 1..MaxCmds[s]
    <2>1. issued[s] \in Nat /\ MaxCmds[s] \in Nat /\ issued[s] < MaxCmds[s]
      BY BoundsAreNat DEF Issue, WithinBound, IndInv, TypeOK
    <2> QED BY <2>1 DEF Issue
  <1>2. CASE kind = "load"
    <2>1. \A c \in cmds' : Asks(c) => c \in cmds
      BY <1>1, <1>2 DEF Asks
    <2>2. AwaitedPosts' \subseteq AwaitedPosts
      BY <2>1, AwaitedShrinks
    <2> QED BY <2>2, MapsToGiveUp DEF Log!Next
  <1>3. CASE kind # "load"
    <2>1. n \in CmdNumbers
      BY <1>1 DEF CmdNumbers
    <2>2. AwaitedPosts' = AwaitedPosts \cup {p}
      <3>1. {c \in cmds' : c.kind # "load" /\ c.st = "issued"} =
               {c \in cmds : c.kind # "load" /\ c.st = "issued"} \cup {d}
        BY <1>1, <1>3
      <3>2. d.sess = s /\ d.n = n
        OBVIOUS
      <3> HIDE DEF d
      <3> QED BY <3>1, <3>2 DEF AwaitedPosts
    <2>3. p \notin AwaitedPosts
      <3>1. \A c \in cmds : c.sess = s => c.n # n
        BY <1>1 DEF IndInv, CommandsDistinct, TypeOK, Cmd
      <3>2. \A q \in Procs : s # q
        BY DisjointActors
      <3> HIDE DEF n
      <3> QED BY <3>1, <3>2 DEF AwaitedPosts
    <2>4. \A i \in DOMAIN rows : PostOf(rows[i]) # p
      BY <1>1 DEF IndInv, RowsIssued, PostOf, TypeOK
    <2> HIDE DEF n, p
    <2>5. Log!Request(p)
      BY <2>2, <2>3, <2>4, MapsToRequest
    <2>6. p \in (Sessions \X CmdNumbers) \cup (Procs \X {0})
      BY <2>1 DEF p
    <2> QED BY <2>5, <2>6 DEF Log!Next
  <1> QED BY <1>2, <1>3

\* Opening the store of an empty table asks for the seed.
LEMMA OpenMaps ==
    ASSUME IndInv, NEW p \in Procs, OpenStore(p)
    PROVE  [Log!Next]_(Log!vars)
  <1>1. UNCHANGED <<rows, model, cmds>> /\ p \notin Sessions
    BY DisjointActors DEF OpenStore
  <1>2. CASE NeedsSeed(Len(rows))
    <2>1. /\ DOMAIN rows = {}
          /\ {q \in Procs : store'[q] = "seeding"} =
                {q \in Procs : store[q] = "seeding"} \cup {p}
          /\ store[p] # "seeding"
      BY <1>2 DEF OpenStore, NeedsSeed, IndInv, TypeOK
    <2>2. AwaitedPosts' = AwaitedPosts \cup {<<p, 0>>}
      BY <1>1, <2>1 DEF AwaitedPosts
    <2>3. <<p, 0>> \notin AwaitedPosts
      BY <1>1, <2>1 DEF AwaitedPosts, IndInv, TypeOK, Cmd
    <2>4. Log!Request(<<p, 0>>)
      BY <1>1, <2>1, <2>2, <2>3, MapsToRequest
    <2> QED BY <2>4 DEF Log!Next
  <1>3. CASE ~NeedsSeed(Len(rows))
    <2>1. \A q \in Procs : store'[q] = "seeding" => store[q] = "seeding"
      BY <1>3 DEF OpenStore, IndInv, TypeOK
    <2>2. AwaitedPosts' \subseteq AwaitedPosts
      BY <1>1, <2>1, AwaitedShrinks
    <2> QED BY <1>1, <2>2, MapsToGiveUp DEF Log!Next
  <1> QED BY <1>2, <1>3

\* The seed commits the process's post.
LEMMA SeedMaps ==
    ASSUME IndInv, NEW p \in Procs, SeedWelcome(p)
    PROVE  [Log!Next]_(Log!vars)
  <1> DEFINE row == [subject |-> "welcome", body |-> "welcome",
                     by |-> p, n |-> 0]
  <1>1. rows' = Append(rows, row) /\ PostOf(row) = <<p, 0>>
    BY DEF SeedWelcome, Insert, PostOf
  <1>2. /\ {q \in Procs : store'[q] = "seeding"} =
              {q \in Procs : store[q] = "seeding"} \ {p}
        /\ store[p] = "seeding" /\ UNCHANGED <<cmds, model>>
        /\ p \notin Sessions
    BY DisjointActors DEF SeedWelcome, IndInv, TypeOK
  <1>3. <<p, 0>> \in AwaitedPosts
    BY <1>2 DEF AwaitedPosts
  <1>4. AwaitedPosts' = AwaitedPosts \ {<<p, 0>>}
    BY <1>2 DEF AwaitedPosts, IndInv, TypeOK, Cmd
  <1> HIDE DEF row
  <1>5. Log!Commit(<<p, 0>>)
    BY <1>1, <1>2, <1>3, <1>4, MapsToCommit
  <1> QED BY <1>5 DEF Log!Next

\* An executed insert commits its post.
LEMMA CreateMaps ==
    ASSUME IndInv, NEW c \in cmds, CreateMessage(c)
    PROVE  [Log!Next]_(Log!vars)
  <1> DEFINE row == [subject |-> c.params.subject, body |-> c.params.body,
                     by |-> c.sess, n |-> c.n]
             p == <<c.sess, c.n>>
  <1>0. PICK d \in {Answered(c, Len(rows) + 1), Failed(c)} : Replace(c, d)
    BY DEF CreateMessage
  <1>1. rows' = Append(rows, row) /\ PostOf(row) = p
    BY DEF CreateMessage, Insert, PostOf
  <1>2. c \in Cmd /\ c.sess \in Sessions /\ c.n \in 1..issued[c.sess]
    BY DEF IndInv, TypeOK, Cmd, CommandsDistinct
  <1>3. d.st # "issued"
    <2>1. Len(rows) + 1 \in Nat
      BY DEF IndInv, TypeOK
    <2> QED BY <1>0, <1>2, <2>1, AnsweredType
  <1>4. /\ cmds' = (cmds \ {c}) \cup {d} /\ UNCHANGED <<store, model>>
        /\ c.kind # "load" /\ c.st = "issued"
    BY <1>0 DEF CreateMessage, Replace
  <1>5. {e \in cmds' : e.kind # "load" /\ e.st = "issued"} =
           {e \in cmds : e.kind # "load" /\ e.st = "issued"} \ {c}
    BY <1>3, <1>4
  <1>6. \A e \in cmds : e.sess = c.sess /\ e.n = c.n => e = c
    BY DEF IndInv, CommandsDistinct
  <1>7. \A q \in Procs : q # c.sess
    BY <1>2, DisjointActors
  <1>8. p \in AwaitedPosts
    BY <1>4 DEF AwaitedPosts
  <1>9. AwaitedPosts' = AwaitedPosts \ {p}
    BY <1>4, <1>5, <1>6, <1>7 DEF AwaitedPosts
  <1>10. p \in Sessions \X CmdNumbers
    BY <1>2, BoundsAreNat DEF CmdNumbers, IndInv, TypeOK
  <1> HIDE DEF row, p
  <1>11. Log!Commit(p)
    BY <1>1, <1>4, <1>8, <1>9, MapsToCommit
  <1> QED BY <1>10, <1>11 DEF Log!Next

\* A delivered answer shows committed posts to its session.
LEMMA DeliverMaps ==
    ASSUME IndInv, ListsRows', NEW c \in cmds, Deliver(c)
    PROVE  [Log!Next]_(Log!vars)
  <1>1. c.sess \in Sessions
    BY DEF IndInv, TypeOK, Cmd
  <1>2. UNCHANGED <<rows, store>> /\ cmds' = cmds \ {c} /\ c.st # "issued"
    BY DEF Deliver, Deliverable
  <1>3. AwaitedPosts' = AwaitedPosts
    BY <1>2, AwaitedSame DEF Asks
  <1>4. \A r \in Sessions \ {c.sess} : model'[r] = model[r]
    BY DEF Deliver, IndInv, TypeOK
  <1>5. Log!Show(c.sess)
    BY <1>1, <1>2, <1>3, <1>4, MapsToShow
  <1> QED BY <1>1, <1>5 DEF Log!Next

\* A key press issues a command or changes a model without its list.
LEMMA KeyMaps ==
    ASSUME IndInv, NEW s \in Sessions, Key(s)
    PROVE  [Log!Next]_(Log!vars)
  <1>1. model[s] \in Model /\ model \in [Sessions -> Model]
    BY DEF IndInv, TypeOK
  <1>2. ASSUME NEW m, SetModel(s, m), m.messages = model[s].messages
        PROVE  [Log!Next]_(Log!vars)
    <2>1. \A r \in Sessions : model'[r].messages = model[r].messages
      BY <1>1, <1>2 DEF SetModel
    <2>2. UNCHANGED <<rows, store, cmds>>
      BY <1>2 DEF SetModel
    <2>3. AwaitedPosts' \subseteq AwaitedPosts
      BY <2>2, AwaitedShrinks
    <2> QED BY <2>1, <2>2, <2>3, MapsToGiveUp DEF Log!Next
  <1>3. CASE Reload(s)
    <2>1. NoParams \in Params /\ "load" \in Kinds
      BY DEF NoParams, Params, Kinds, Fields
    <2> QED BY <1>3, <2>1, IssueMaps DEF Reload
  <1>4. CASE Save(s)
    <2>1. Draft(s) \in Params /\ "create" \in Kinds
      BY <1>1 DEF Draft, Params, Kinds, Model
    <2> QED BY <1>4, <2>1, IssueMaps DEF Save
  <1>5. ASSUME NEW par \in Params, ReplPost(s, par)
        PROVE  [Log!Next]_(Log!vars)
    <2>1. "repl" \in Kinds
      BY DEF Kinds
    <2> QED BY <1>5, <2>1, IssueMaps DEF ReplPost
  <1>6. CASE Up(s) \/ Down(s)
    BY <1>1, <1>2, <1>6 DEF Up, Down, Model
  <1>7. ASSUME NEW mode, SetModel(s, [model[s] EXCEPT !.mode = mode])
        PROVE  [Log!Next]_(Log!vars)
    BY <1>1, <1>2, <1>7 DEF Model
  <1>8. CASE Back(s) \/ \E mode \in {"compose", "repl", "chat"} : Enter(s, mode)
    BY <1>7, <1>8 DEF Back, Enter
  <1>9. CASE Esc(s)
    <2>1. [ResetComposer(model[s]) EXCEPT !.mode = "browse"].messages
             = model[s].messages
      BY <1>1, ResetComposerType DEF Model
    <2> QED BY <1>2, <1>9, <2>1 DEF Esc
  <1>10. ASSUME NEW step \in 1..2, Tab(s, step)
         PROVE  [Log!Next]_(Log!vars)
    <2>1. \A f : [model[s] EXCEPT !.focusIndex = f].messages = model[s].messages
      BY <1>1 DEF Model
    <2> QED BY <1>2, <1>10, <2>1 DEF Tab
  <1>11. ASSUME NEW v \in Fields, Type(s, v)
         PROVE  [Log!Next]_(Log!vars)
    <2>1. /\ [model[s] EXCEPT !.subject = v].messages = model[s].messages
          /\ [model[s] EXCEPT !.body = v].messages = model[s].messages
      BY <1>1 DEF Model
    <2> QED BY <1>2, <1>11, <2>1 DEF Type
  <1> QED BY <1>3, <1>4, <1>5, <1>6, <1>8, <1>9, <1>10, <1>11 DEF Key

\* Every step of the board is a step of the log or changes nothing in it.
LEMMA RefinementStep ==
    ASSUME IndInv, ListsRows', [Next]_vars
    PROVE  [Log!Next]_(Log!vars)
  <1>1. ASSUME UNCHANGED rows,
               \A c \in cmds' : Asks(c) => c \in cmds,
               \A p \in Procs : store'[p] = "seeding" => store[p] = "seeding",
               \A s \in Sessions : model'[s] \in {model[s], FreshModel}
        PROVE  [Log!Next]_(Log!vars)
    <2>1. AwaitedPosts' \subseteq AwaitedPosts
      BY <1>1, AwaitedShrinks
    <2>2. \A s \in Sessions : \/ model'[s].messages = model[s].messages
                              \/ model'[s].messages = <<>>
      BY <1>1 DEF FreshModel
    <2> QED BY <1>1, <2>1, <2>2, MapsToGiveUp DEF Log!Next
  <1>2. ASSUME NEW p \in Procs, OpenFails(p) \/ Restart(p)
        PROVE  [Log!Next]_(Log!vars)
    BY <1>1, <1>2 DEF OpenFails, Restart, IndInv, TypeOK
  <1>3. ASSUME NEW s \in Sessions, ConnectFails(s) \/ Leave(s)
        PROVE  [Log!Next]_(Log!vars)
    BY <1>1, <1>3 DEF ConnectFails, Leave, IndInv, TypeOK
  <1>4. ASSUME NEW s \in Sessions, Connect(s)
        PROVE  [Log!Next]_(Log!vars)
    <2>1. NoParams \in Params /\ "load" \in Kinds
      BY DEF NoParams, Params, Kinds, Fields
    <2> QED BY <1>4, <2>1, IssueMaps DEF Connect
  <1>5. ASSUME NEW c \in cmds, ListMessages(c) \/ StoreFails(c) \/ DropAnswer(c)
        PROVE  [Log!Next]_(Log!vars)
    <2>1. /\ c \in Cmd /\ Len(rows) \in Nat
          /\ UNCHANGED <<rows, store, model>>
      BY <1>5 DEF IndInv, TypeOK, ListMessages, StoreFails, DropAnswer
    <2>2. Answered(c, Len(rows)).st = "ok" /\ Failed(c).st = "err"
      BY <2>1, AnsweredType
    <2>3. \A e \in cmds' : Asks(e) => e \in cmds
      BY <1>5, <2>2 DEF ListMessages, StoreFails, DropAnswer, Replace, Asks
    <2> QED BY <1>1, <2>1, <2>3
  <1>6. CASE UNCHANGED vars
    BY <1>1, <1>6 DEF vars
  <1> QED BY <1>2, <1>3, <1>4, <1>5, <1>6, OpenMaps, SeedMaps, CreateMaps,
             DeliverMaps, KeyMaps
          DEF Next, Execute

\* The board implements the log of posts, for any processes, sessions and
\* bounds: every save, REPL post and seed is committed once or given up,
\* nothing leaves the table, and sessions are shown committed posts only.
THEOREM BoardIsPostLog == Spec => ImplementsPostLog
  <1>1. Init => Log!Init
    <2> SUFFICES ASSUME Init PROVE Log!Init
      OBVIOUS
    <2>1. LogBar = <<>>
      BY DEF Init, LogBar
    <2>2. AwaitedPosts = {}
      BY DEF Init, AwaitedPosts
    <2>3. \A s \in Sessions : ListedPosts(s) = {}
      <3>1. FreshModel.messages = <<>>
        BY DEF FreshModel
      <3>2. \A s \in Sessions : model[s] = FreshModel
        BY DEF Init
      <3>3. \A s \in Sessions : model[s].messages = <<>>
        BY <3>1, <3>2
      <3> HIDE DEF FreshModel
      <3>4. \A s \in Sessions : DOMAIN model[s].messages = {}
        <4>1. DOMAIN <<>> = {}
          BY EmptySeq
        <4> QED BY <3>3, <4>1, Zenon
      <3> QED BY <3>4 DEF ListedPosts
    <2> QED BY <2>1, <2>2, <2>3 DEF Log!Init, LogBar
  <1>2. IndInv /\ ListsRows' /\ [Next]_vars => [Log!Next]_(Log!vars)
    BY RefinementStep
  <1> QED BY <1>1, <1>2, Inductive, ListedAreRows, PTL
          DEF Spec, ImplementsPostLog, Log!Spec

=============================================================================
