----------------------------- MODULE SshService -----------------------------
(***************************************************************************)
(* The SSH service's life and what its status says of it (internal/sshapp, *)
(* read through internal/webui's /api/status): Start, the goroutine that   *)
(* serves, one goroutine per session, Shutdown, and web requests that read *)
(* the status in several steps while all of them run.                      *)
(*                                                                         *)
(* The two session counters are kept by sessionMiddleware, the status page *)
(* a session gets when Start was given no application (app = FALSE);       *)
(* cmd/init gives it the bulletin board.  Start's work on the host key     *)
(* file is module HostKey.                                                 *)
(***************************************************************************)
EXTENDS Integers, FiniteSets

CONSTANTS
    Sessions,   \* SSH sessions, each opened once
    Word        \* bound: stands for 2^64, the modulus of the counters

\* Fewer sessions than a counter can count.
ASSUME WordIsLarge ==
    IsFiniteSet(Sessions) /\ Word \in Nat /\ Cardinality(Sessions) < Word

VARIABLES
    enabled,    \* Config.Enabled
    app,        \* Start was given application middlewares
    server,     \* what Start and Serve have come to
    started,    \* Service.started
    errText,    \* Service.errText is not empty
    active,     \* Service.active
    total,      \* Service.total
    session,    \* per session: where its handler is
    status      \* the status a web request is reading, or has read

serviceVars == <<enabled, app, server, started, errText, active, total, session, status>>

ServerStates == {"new", "disabled", "failed to start", "serving",
                 "accept failed", "failed", "shut down", "closed"}

NoStatus == [pc |-> "idle", started |-> FALSE, error |-> FALSE,
             active |-> 0, total |-> 0]

ServiceInit ==
    /\ enabled \in BOOLEAN /\ app \in BOOLEAN
    /\ server = "new" /\ started = FALSE /\ errText = FALSE
    /\ active = 0 /\ total = 0
    /\ session = [s \in Sessions |-> "new"]
    /\ status = NoStatus

-----------------------------------------------------------------------------
(* Start, serve, Shutdown *)

\* Start: disabled.
StartDisabled ==
    /\ server = "new" /\ ~enabled
    /\ server' = "disabled"
    /\ UNCHANGED <<enabled, app, started, errText, active, total, session, status>>

\* Start: the host key, the server or the listener fails; there is no service.
StartFails ==
    /\ server = "new" /\ enabled
    /\ server' = "failed to start"
    /\ UNCHANGED <<enabled, app, started, errText, active, total, session, status>>

\* Start: listening; the serving goroutine runs.
Start ==
    /\ server = "new" /\ enabled
    /\ server' = "serving" /\ started' = TRUE
    /\ UNCHANGED <<enabled, app, errText, active, total, session, status>>

\* Accept fails for good: Serve is about to return.
AcceptFails ==
    /\ server = "serving"
    /\ server' = "accept failed"
    /\ UNCHANGED <<enabled, app, started, errText, active, total, session, status>>

\* Shutdown closes the listener: Serve is about to return ErrServerClosed.
Shutdown ==
    /\ server = "serving"
    /\ server' = "shut down"
    /\ UNCHANGED <<enabled, app, started, errText, active, total, session, status>>

\* Mutant: only the log hears of it.
IsErrorNever(cause) == FALSE

\* serve: err is not ErrServerClosed.
IsError(cause) == cause # "shut down"

\* serve after Serve has returned, setError included.
ServeReturns ==
    /\ server \in {"accept failed", "shut down"}
    /\ server' = IF server = "shut down" THEN "closed" ELSE "failed"
    /\ errText' = (errText \/ IsError(server))
    /\ UNCHANGED <<enabled, app, started, active, total, session, status>>

-----------------------------------------------------------------------------
(* Sessions *)

Goes(s, from, to) ==
    /\ session[s] = from
    /\ session' = [session EXCEPT ![s] = to]

\* A client opens a session with a terminal; the handler is called.
Accept(s) ==
    /\ server = "serving"
    /\ Goes(s, "new", IF app THEN "in app" ELSE "entered")
    /\ UNCHANGED <<enabled, app, server, started, errText, active, total, status>>

\* activeterm ends a session without one before the other middlewares.
RefuseNoTerminal(s) ==
    /\ server = "serving"
    /\ Goes(s, "new", "refused")
    /\ UNCHANGED <<enabled, app, server, started, errText, active, total, status>>

\* sessionMiddleware: active.Add(1).
CountActive(s) ==
    /\ Goes(s, "entered", "active")
    /\ active' = (active + 1) % Word
    /\ UNCHANGED <<enabled, app, server, started, errText, total, status>>

\* sessionMiddleware: total.Add(1).
CountTotal(s) ==
    /\ Goes(s, "active", "counted")
    /\ total' = (total + 1) % Word
    /\ UNCHANGED <<enabled, app, server, started, errText, active, status>>

\* renderSession is written, Exit is called, next runs; that the client may
\* be gone by then is ignored.
Render(s) ==
    /\ Goes(s, "counted", "rendered")
    /\ UNCHANGED <<enabled, app, server, started, errText, active, total, status>>

\* Mutant: the session is taken off on Exit and again by the defer.
MinusOneTwice(n) == n + 2 * (Word - 1)

\* active.Add(^uint64(0)).
MinusOne(n) == n + (Word - 1)

\* The deferred decrement.
Uncount(s) ==
    /\ Goes(s, "rendered", "gone")
    /\ active' = MinusOne(active) % Word
    /\ UNCHANGED <<enabled, app, server, started, errText, total, status>>

\* The bulletin board's program ends (sshbbs.Middleware).
LeaveApp(s) ==
    /\ Goes(s, "in app", "gone")
    /\ UNCHANGED <<enabled, app, server, started, errText, active, total, status>>

-----------------------------------------------------------------------------
(* Status, called by /api/status *)

HasService == server \notin {"new", "failed to start"}

\* Under the read lock.
ReadState ==
    /\ HasService /\ status.pc \in {"idle", "read"}
    /\ status' = [NoStatus EXCEPT !.pc = "state", !.started = started,
                                  !.error = errText]
    /\ UNCHANGED <<enabled, app, server, started, errText, active, total, session>>

ReadActive ==
    /\ status.pc = "state"
    /\ status' = [status EXCEPT !.pc = "active", !.active = active]
    /\ UNCHANGED <<enabled, app, server, started, errText, active, total, session>>

ReadTotal ==
    /\ status.pc = "active"
    /\ status' = [status EXCEPT !.pc = "read", !.total = total]
    /\ UNCHANGED <<enabled, app, server, started, errText, active, total, session>>

-----------------------------------------------------------------------------
Handler(s) ==
    CountActive(s) \/ CountTotal(s) \/ Render(s) \/ Uncount(s)

Status == ReadState \/ ReadActive \/ ReadTotal

ServiceNext ==
    \/ StartDisabled \/ StartFails \/ Start \/ AcceptFails \/ Shutdown
    \/ ServeReturns \/ Status
    \/ \E s \in Sessions :
          Accept(s) \/ RefuseNoTerminal(s) \/ Handler(s) \/ LeaveApp(s)

\* Goroutines run; web requests keep coming.  Clients, and the failure of the
\* listener, owe nothing.
Fairness ==
    /\ WF_serviceVars(ServeReturns) /\ WF_serviceVars(Status)
    /\ \A s \in Sessions : WF_serviceVars(Handler(s))

ServiceSpec == ServiceInit /\ [][ServiceNext]_serviceVars /\ Fairness

-----------------------------------------------------------------------------
(* Properties *)

Handlers == {"in app", "entered", "active", "counted", "rendered"}

\* Every variable has its type; active is at most the number of sessions, so
\* the unsigned counter never wraps below zero.
ServiceTypeOK ==
    /\ enabled \in BOOLEAN /\ app \in BOOLEAN /\ server \in ServerStates
    /\ started \in BOOLEAN /\ errText \in BOOLEAN
    /\ active \in 0..Cardinality(Sessions)
    /\ total \in 0..Cardinality(Sessions)
    /\ session \in [Sessions -> Handlers \cup {"new", "refused", "gone"}]
    /\ status \in [pc : {"idle", "state", "active", "read"},
                   started : BOOLEAN, error : BOOLEAN, active : Nat, total : Nat]

Running == {s \in Sessions : session[s] \in Handlers}
Gone == {s \in Sessions : session[s] = "gone"}

\* The counters never claim a session that is not there: active is at most the
\* handlers that run, so the unsigned counter never wraps below zero, and total
\* at most the sessions let in.  When no handler runs none is active, and the
\* built-in page has counted every session it was given (Status,
\* sessionMiddleware; an application in its place leaves both at zero).
CountersSettle ==
    /\ active <= Cardinality(Running)
    /\ total <= Cardinality(Running \cup Gone)
    /\ Running = {} =>
          /\ active = 0
          /\ ~app => total = Cardinality(Gone)

\* A status tells the failure of the listener from everything else: an error
\* in it never comes from a Shutdown, and once the listener has failed for
\* good there is a point from which every finished status carries the error,
\* although Started stays true (serve, setError, Status).
StatusTellsFailure ==
    /\ [](status.error => server = "failed")
    /\ server = "accept failed" ~> [](status.pc = "read" => status.error)

\* What the web page says it shows, the "live session counters" of its status
\* callback: "Total sessions" counts the sessions the service has served.
SessionsCounted == Cardinality(Gone) <= total

=============================================================================
