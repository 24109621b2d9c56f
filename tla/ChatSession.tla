---------------------------- MODULE ChatSession ----------------------------
(***************************************************************************)
(* One session's JavaScript REPL and AI chat: how bbsapp.New, jsrepl.New   *)
(* and aichat.New build them, how the board's model routes messages to     *)
(* them, and how Close releases what they hold.                            *)
(*                                                                         *)
(* Four actors: the program's event loop (keys, and messages of running    *)
(* work), the work itself (a REPL evaluation or a chat completion), the    *)
(* event router's handler that writes to the timeline store, and the       *)
(* goroutine of sshbbs that calls Model.Close when the connection ends,    *)
(* which may be before the program has noticed.  In cmd/bbs Close runs     *)
(* after the program.                                                      *)
(*                                                                         *)
(* Abstractions.  The mode "browse" stands for browse and compose, which   *)
(* treat messages of the children alike.  The children (bobatea) and the   *)
(* completion backend (pinocchio) are modelled from how they are used:     *)
(* busy from a submission to the message that ends it.                     *)
(***************************************************************************)
EXTENDS Integers, Sequences

CONSTANTS MaxPrompts    \* bound: submissions of the user

ASSUME PromptsBound == MaxPrompts \in Nat

VARIABLES
    build,      \* the step of New that comes next, or how New ended
    res,        \* per resource: none, open or closed
    runs,       \* routers whose Run goroutine takes events: bus, router
    conn,       \* the context of the session's connection: live or done
    program,    \* off, on or over
    mode,       \* the board's mode
    child,      \* per child: absent, idle, busy or error
    work,       \* per child: none, running, or the result on its way
    handler,    \* the timeline-persist handler: idle or writing
    closer,     \* the step of Model.Close that comes next, 0 before it begins
    prompts,    \* bound counter
    turns       \* chat turns that were completed, saved, refused by the store

vars == <<build, res, runs, conn, program, mode, child, work, handler, closer,
          prompts, turns>>

Kids == {"repl", "chat"}
Resources == {"evaluator", "router", "turns", "timeline"}
ChatResources == {"router", "turns", "timeline"}

Init ==
    /\ build = "evaluator"
    /\ res = [r \in Resources |-> "none"]
    /\ runs = {} /\ conn = "live" /\ program = "off" /\ mode = "browse"
    /\ child = [k \in Kids |-> "absent"]
    /\ work = [k \in Kids |-> "none"]
    /\ handler = "idle" /\ closer = 0
    /\ prompts = 0 /\ turns = [completed |-> 0, saved |-> 0, refused |-> 0]

-----------------------------------------------------------------------------
(* New: jsrepl.New, then aichat.New *)

ReplSteps == {"evaluator", "bus", "globals"}
ChatSteps == {"runtime", "engine", "router", "seed", "turns", "timeline"}

After == [evaluator |-> "bus", bus |-> "globals", globals |-> "runtime",
          runtime |-> "engine", engine |-> "router", router |-> "seed",
          seed |-> "turns", turns |-> "timeline", timeline |-> "built"]

\* The resource a step opens.
Opens(step) == {step} \cap Resources

\* What jsrepl.New's error paths close.
ReplClosesOnError(step) ==
    IF step \in {"bus", "globals"} THEN {"evaluator"} ELSE {}

\* Mutant: a timeline store that does not open leaves the turns store open.
StoresClosedOnErrorNone(step) == {}

\* What openPersistence's error paths close.
StoresClosedOnError(step) == IF step = "timeline" THEN {"turns"} ELSE {}

\* What aichat.New's error paths close.
ChatClosesOnError(step) ==
    StoresClosedOnError(step)
        \cup (IF step \in {"seed", "turns", "timeline"} THEN {"router"} ELSE {})

ChangeAll(set, to) ==
    [r \in Resources |-> IF r \in set THEN to ELSE res[r]]

\* The children a finished step completes.
Built(step) == [k \in Kids |-> IF \/ k = "repl" /\ step = "globals"
                                  \/ k = "chat" /\ step = "timeline"
                               THEN "idle" ELSE child[k]]

\* A step of New succeeds.
BuildStep ==
    /\ build \in ReplSteps \cup ChatSteps
    /\ res' = ChangeAll(Opens(build), "open")
    /\ build' = After[build]
    /\ child' = Built(build)
    /\ UNCHANGED <<runs, conn, program, mode, work, handler, closer, prompts, turns>>

\* A step of New fails: without the REPL there is no board, without the chat
\* there is one that cannot enter it.
BuildFails ==
    /\ build \in ReplSteps \cup ChatSteps
    /\ res' = ChangeAll(ReplClosesOnError(build) \cup ChatClosesOnError(build),
                        "closed")
    /\ build' = IF build \in ReplSteps THEN "failed" ELSE "built"
    /\ UNCHANGED <<runs, conn, program, mode, child, work, handler, closer,
                   prompts, turns>>

\* What the children's AttachProgram start.
ReplRuns == IF child["repl"] = "absent" THEN {} ELSE {"bus"}
ChatRuns == IF child["chat"] = "absent" THEN {} ELSE {"router"}

\* Model.AttachProgram, and the program runs; after a failed New it is the
\* error screen, to which nothing is attached.
Attach ==
    /\ program = "off" /\ build \in {"built", "failed"}
    /\ program' = "on"
    /\ runs' = IF build = "failed" THEN {} ELSE ReplRuns \cup ChatRuns
    /\ UNCHANGED <<build, res, conn, mode, child, work, handler, closer,
                   prompts, turns>>

-----------------------------------------------------------------------------
(* The event loop *)

Board == program = "on" /\ build = "built"

\* updateBrowse: x, c.
Enter(k) ==
    /\ Board /\ mode = "browse" /\ child[k] # "absent"
    /\ mode' = k
    /\ UNCHANGED <<build, res, runs, conn, program, child, work, handler,
                   closer, prompts, turns>>

\* updateREPL, updateChat: ctrl+b, whatever the child is doing.
Back ==
    /\ Board /\ mode \in Kids
    /\ mode' = "browse"
    /\ UNCHANGED <<build, res, runs, conn, program, child, work, handler,
                   closer, prompts, turns>>

\* The child takes a key that submits; it starts its work as a command.
Submit(k) ==
    /\ Board /\ mode = k /\ child[k] \in {"idle", "error"}
    /\ work[k] = "none" /\ prompts < MaxPrompts
    /\ child' = [child EXCEPT ![k] = "busy"]
    /\ work' = [work EXCEPT ![k] = "running"]
    /\ prompts' = prompts + 1
    /\ UNCHANGED <<build, res, runs, conn, program, mode, handler, closer, turns>>

\* Mutant: messages of the chat reach no child.
RoutedToRepl(k) == mode = k /\ k = "repl"

\* Update's default case: a message goes to the child whose mode it is.
Routed(k) == mode = k

\* The message that ends the work arrives: BackendFinishedMsg or a result,
\* or ErrorMsg.  In another mode it is dropped.
Deliver(k) ==
    /\ Board /\ work[k] \in {"ok", "err"}
    /\ child' = IF Routed(k)
                THEN [child EXCEPT ![k] = IF work[k] = "ok" THEN "idle" ELSE "error"]
                ELSE child
    /\ work' = [work EXCEPT ![k] = "none"]
    /\ UNCHANGED <<build, res, runs, conn, program, mode, handler, closer,
                   prompts, turns>>

\* q, ctrl+c, or the program notices that the connection has ended.
Quit ==
    /\ program = "on"
    /\ program' = "over"
    /\ UNCHANGED <<build, res, runs, conn, mode, child, work, handler, closer,
                   prompts, turns>>

\* The connection is lost or closed.  It may outlive the program: the context is
\* the connection's, not the session's.
ConnectionEnds ==
    /\ conn = "live" /\ program # "off"
    /\ conn' = "done"
    /\ UNCHANGED <<build, res, runs, program, mode, child, work, handler,
                   closer, prompts, turns>>

-----------------------------------------------------------------------------
(* Work and the timeline handler *)

\* PersistTurn saves the completed turn, unless the store is closed by now.
PersistTurn ==
    [turns EXCEPT !.completed = @ + 1,
                  !.saved = IF res["turns"] = "open" THEN @ + 1 ELSE @]

\* PersistTurn fails: no session id, or the store refuses.
PersistTurnFails == [turns EXCEPT !.completed = @ + 1, !.refused = @ + 1]

\* A completion, which persists its turn, or an evaluation ends; the backend
\* goes on when the turn is not saved.
Finish(k) ==
    /\ work[k] = "running"
    /\ work' = [work EXCEPT ![k] = "ok"]
    /\ IF k = "chat" THEN turns' \in {PersistTurn, PersistTurnFails}
                     ELSE UNCHANGED turns
    /\ UNCHANGED <<build, res, runs, conn, program, mode, child, handler,
                   closer, prompts>>

\* It fails (the provider cannot be reached).
Fail(k) ==
    /\ work[k] = "running"
    /\ work' = [work EXCEPT ![k] = "err"]
    /\ UNCHANGED <<build, res, runs, conn, program, mode, child, handler,
                   closer, prompts, turns>>

\* An event of a running completion reaches the timeline-persist handler.
WriteTimeline ==
    /\ work["chat"] = "running" /\ "router" \in runs
    /\ res["router"] = "open" /\ handler = "idle"
    /\ handler' = "writing"
    /\ UNCHANGED <<build, res, runs, conn, program, mode, child, work, closer,
                   prompts, turns>>

TimelineWritten ==
    /\ handler = "writing"
    /\ handler' = "idle"
    /\ UNCHANGED <<build, res, runs, conn, program, mode, child, work, closer,
                   prompts, turns>>

-----------------------------------------------------------------------------
(* Model.Close *)

\* The Close of jsrepl's surface, and of the chat's stores.
ReplClose == <<"cancel bus", "evaluator">>
StoresClose == <<"turns", "timeline">>

\* Mutant: the stores are closed before the router.
ChatCloseStoresFirst == StoresClose \o <<"cancel router", "router">>

\* The Close of aichat's surface.
ChatClose == <<"cancel router", "router">> \o StoresClose

\* Model.Close; an error of one step does not stop the others.
CloseOrder == ReplClose \o ChatClose

\* Mutant: Close waits for the completion that is running.
MayCloseIdle == conn = "done" /\ work["chat"] = "none"

\* Mutant: Close is deferred in the handler, which returns at once.
MayCloseAtOnce == TRUE

\* The goroutine waits for the context only.
MayClose == conn = "done"

\* After a failed New there is no model to close.
CloseBegins ==
    /\ closer = 0 /\ build = "built" /\ program # "off" /\ MayClose
    /\ closer' = 1
    /\ UNCHANGED <<build, res, runs, conn, program, mode, child, work, handler,
                   prompts, turns>>

\* Closing the router waits for its handlers; cancelling only tells Run to stop.
CloseStep ==
    /\ closer \in DOMAIN CloseOrder
    /\ CloseOrder[closer] = "router" => handler = "idle"
    /\ LET step == CloseOrder[closer]
       IN  res' = IF step \in Resources /\ res[step] = "open"
                  THEN [res EXCEPT ![step] = "closed"] ELSE res
    /\ closer' = closer + 1
    /\ UNCHANGED <<build, runs, conn, program, mode, child, work, handler,
                   prompts, turns>>

\* runCtx is done: with the connection's context, or by Close's cancel.
Cancelled(r) ==
    \/ conn = "done"
    \/ \E i \in DOMAIN CloseOrder :
          i < closer /\ CloseOrder[i] = [bus |-> "cancel bus",
                                        router |-> "cancel router"][r]

\* Run notices, some time later, and takes no more events.
RunStops(r) ==
    /\ r \in runs /\ Cancelled(r)
    /\ runs' = runs \ {r}
    /\ UNCHANGED <<build, res, conn, program, mode, child, work, handler,
                   closer, prompts, turns>>

-----------------------------------------------------------------------------
Next ==
    \/ BuildStep \/ BuildFails \/ Attach \/ Back \/ Quit \/ ConnectionEnds
    \/ WriteTimeline \/ TimelineWritten \/ CloseBegins \/ CloseStep
    \/ \E r \in {"bus", "router"} : RunStops(r)
    \/ \E k \in Kids : Enter(k) \/ Submit(k) \/ Deliver(k) \/ Finish(k) \/ Fail(k)

\* Goroutines and the event loop are scheduled, completions have a timeout and
\* a program without a connection quits.  Users and connections owe nothing.
Fairness ==
    /\ WF_vars(BuildStep) /\ WF_vars(Attach)
    /\ WF_vars(TimelineWritten) /\ WF_vars(CloseBegins) /\ WF_vars(CloseStep)
    /\ WF_vars(conn = "done" /\ Quit)
    /\ \A r \in {"bus", "router"} : WF_vars(RunStops(r))
    /\ \A k \in Kids : WF_vars(Deliver(k)) /\ WF_vars(Finish(k) \/ Fail(k))

Spec == Init /\ [][Next]_vars /\ Fairness

-----------------------------------------------------------------------------
(* Properties *)

\* Every variable has its type; no turn is saved twice.
TypeOK ==
    /\ build \in ReplSteps \cup ChatSteps \cup {"built", "failed"}
    /\ res \in [Resources -> {"none", "open", "closed"}]
    /\ runs \subseteq {"bus", "router"}
    /\ conn \in {"live", "done"} /\ program \in {"off", "on", "over"}
    /\ mode \in Kids \cup {"browse"}
    /\ child \in [Kids -> {"absent", "idle", "busy", "error"}]
    /\ work \in [Kids -> {"none", "running", "ok", "err"}]
    /\ handler \in {"idle", "writing"} /\ closer \in 0..7
    /\ prompts \in 0..MaxPrompts
    /\ turns \in [completed : 0..MaxPrompts, saved : 0..MaxPrompts,
                  refused : 0..MaxPrompts]
    /\ turns.saved + turns.refused <= turns.completed

\* A New that failed left nothing open: neither the evaluator when there is no
\* board, nor router and stores when there is a board without a chat
\* (jsrepl.New, aichat.New, openPersistence).
FailedNewReleases ==
    /\ build = "failed" => \A r \in Resources : res[r] # "open"
    /\ build = "built" /\ child["chat"] = "absent" =>
          \A r \in ChatResources : res[r] # "open"

\* The handler never writes to a closed timeline store: Close lets the router
\* finish first (aichat's Close).
TimelineOpenWhileWritten ==
    handler = "writing" => res["timeline"] = "open"

\* As long as the connection lives a completed turn is saved unless the store
\* itself refuses it: whatever the user does meanwhile, it never finds the
\* store closed (PersistTurn, sshbbs.Middleware).
TurnsSavedWhileConnected ==
    conn = "live" => turns.saved + turns.refused = turns.completed

\* Whenever the connection ends, all the session holds is released, although
\* a completion may be running and the program may still be on (Model.Close).
AllReleased ==
    conn = "done" ~> /\ \A r \in Resources : res[r] # "open"
                     /\ runs = {}

\* A user who is with a child while its work runs, and stays, sees it end:
\* the message reaches the child (Update).
AnswerReachesUser ==
    \A k \in Kids :
        work[k] # "none" /\ mode = k
            ~> child[k] # "busy" \/ mode # k \/ program = "over"

=============================================================================
