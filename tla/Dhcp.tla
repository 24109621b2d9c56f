-------------------------------- MODULE Dhcp --------------------------------
(***************************************************************************)
(* networking.Configure: DHCP over a network that loses, delays, reorders  *)
(* and duplicates packets, with several servers, per-attempt timeouts that *)
(* double, one deadline over both exchanges, a static fallback, and the    *)
(* application of the result to the kernel.                                *)
(*                                                                         *)
(* An address is named by the server it comes from; Fallback stands for    *)
(* QEMU's 10.0.2.15.  Packets are a set: a packet that is received may     *)
(* stay (a duplicate) and one that is in flight may vanish.  Both          *)
(* exchanges use the same transaction id, so a packet is told apart only   *)
(* by its type and its server.  Timers count down in ticks, and time does  *)
(* not pass a timer of the client that is due.  Servers, packets and the   *)
(* retry loop of nclient4's SendAndRead are modelled from how requestLease *)
(* uses them.                                                              *)
(***************************************************************************)
EXTENDS Integers

CONSTANTS
    Servers,   \* DHCP servers that hear the broadcast
    Fallback,  \* the static QEMU user-net configuration
    None,      \* no server, no address
    Timeout,   \* Config.Timeout in ticks
    DefaultRetry,   \* defaultDHCPRetry
    RetrySettings   \* GO_INIT_DHCP_RETRY; 0 for what is not a positive number

ASSUME NamesDiffer == Fallback \notin Servers /\ None \notin Servers
                      /\ None # Fallback
\* durationEnv replaces what is not positive by the default.
ASSUME TimeoutPositive == Timeout \in Nat \ {0}
ASSUME RetryType == DefaultRetry \in Nat \ {0} /\ RetrySettings \subseteq Nat

VARIABLES
    config,   \* LoadConfigFromEnv; never changes
    pc,       \* where Configure is
    left,     \* ticks until the deadline of Configure's context
    attempt,  \* attempts of the current SendAndRead so far
    span,     \* the time its latest attempt waits
    wait,     \* ticks until the current attempt times out
    net,      \* packets in flight
    bound,    \* servers that hold a lease for this client
    offer,    \* the server whose offer was taken
    details,  \* the address to apply
    kernel    \* what the kernel has: address, route, resolver written

exchange == <<attempt, span, wait, net>>
vars == <<config, pc, left, exchange, bound, offer, details, kernel>>

Packet == [type : {"DISCOVER"}, srv : {None}]
          \cup [type : {"OFFER", "REQUEST", "ACK", "NAK"}, srv : Servers]
Pkt(type, srv) == [type |-> type, srv |-> srv]

Waiting == {"discover", "request"}
Ends == {"disabled", "configured", "failed"}

\* Mutant: any number is taken.
IntEnvUnchecked(raw) == raw

\* intEnv: the default stands in for what is not a positive number.
IntEnv(raw) == IF raw > 0 THEN raw ELSE DefaultRetry

\* LoadConfigFromEnv.
Config == [dhcp : BOOLEAN, fallback : BOOLEAN,
           retry : {IntEnv(raw) : raw \in RetrySettings}]

Init ==
    /\ config \in Config
    /\ pc = "link" /\ left = 0 /\ attempt = 0 /\ span = 0 /\ wait = 0
    /\ net = {} /\ bound = {}
    /\ offer = None /\ details = None
    /\ kernel = [addr |-> None, route |-> FALSE, resolver |-> FALSE]

-----------------------------------------------------------------------------
(* The network and the servers *)

Lose ==
    /\ \E p \in net : net' = net \ {p}
    /\ UNCHANGED <<config, pc, left, attempt, span, wait, bound, offer,
                   details, kernel>>

\* A server answers a DISCOVER it hears.
Offer(s) ==
    /\ Pkt("DISCOVER", None) \in net
    /\ net' = net \cup {Pkt("OFFER", s)}
    /\ UNCHANGED <<config, pc, left, attempt, span, wait, bound, offer,
                   details, kernel>>

\* The server named in a REQUEST binds the lease and acknowledges it.
Acknowledge(s) ==
    /\ Pkt("REQUEST", s) \in net
    /\ net' = net \cup {Pkt("ACK", s)}
    /\ bound' = bound \cup {s}
    /\ UNCHANGED <<config, pc, left, attempt, span, wait, offer,
                   details, kernel>>

\* Any server that hears a REQUEST may refuse it, one that believes to be
\* authoritative even a REQUEST for another server.
Refuse(s) ==
    /\ \E r \in Servers : Pkt("REQUEST", r) \in net
    /\ s \notin bound
    /\ net' = net \cup {Pkt("NAK", s)}
    /\ UNCHANGED <<config, pc, left, attempt, span, wait, bound, offer,
                   details, kernel>>

-----------------------------------------------------------------------------
(* Configure: up to the lease *)

\* Mutant: each of the two exchanges is given its own share of time.
DeadlineOfBoth == 2 * Timeout * config.retry

\* The time Configure's context allows for both exchanges together.
Deadline == Timeout * (IF config.retry > 1 THEN config.retry ELSE 1)

\* DHCP is switched off.
Disabled ==
    /\ pc = "link" /\ ~config.dhcp
    /\ pc' = "disabled"
    /\ UNCHANGED <<config, left, exchange, bound, offer, details, kernel>>

\* No usable link, the link cannot be set up, no raw socket, no client.
StartFails ==
    /\ pc = "link" /\ config.dhcp
    /\ pc' = "failed"
    /\ UNCHANGED <<config, left, exchange, bound, offer, details, kernel>>

\* Link selected and up, socket and client opened, the deadline set: the
\* DISCOVER exchange begins.
Start ==
    /\ pc = "link" /\ config.dhcp
    /\ pc' = "discover"
    /\ left' = Deadline
    /\ attempt' = 0 /\ span' = Timeout /\ wait' = 0
    /\ UNCHANGED <<config, net, bound, offer, details, kernel>>

\* requestLease returned an error: static fallback, or Configure fails.
LeaseFailed ==
    /\ pc' = IF config.fallback THEN "address" ELSE "failed"
    /\ details' = IF config.fallback THEN Fallback ELSE None

AttemptLeft == attempt < config.retry

\* The time an attempt waits: the first Timeout, each later one twice as long
\* as the one before.
AttemptTime == IF attempt = 0 THEN span ELSE 2 * span

\* The exchange is at its start or the attempt has timed out: send (again).
Attempt ==
    /\ pc \in Waiting /\ wait = 0 /\ AttemptLeft
    /\ net' = net \cup {IF pc = "discover" THEN Pkt("DISCOVER", None)
                                           ELSE Pkt("REQUEST", offer)}
    /\ attempt' = attempt + 1
    /\ span' = AttemptTime /\ wait' = AttemptTime
    /\ UNCHANGED <<config, pc, left, bound, offer, details, kernel>>

\* The socket refuses the packet.
SendFails ==
    /\ pc \in Waiting /\ wait = 0 /\ AttemptLeft
    /\ LeaseFailed
    /\ UNCHANGED <<config, left, exchange, bound, offer, kernel>>

\* The last attempt times out.
NoResponse ==
    /\ pc \in Waiting /\ wait = 0 /\ ~AttemptLeft
    /\ LeaseFailed
    /\ UNCHANGED <<config, left, exchange, bound, offer, kernel>>

\* Mutant: the context has no deadline.
DeadlinePassedNever == FALSE

DeadlinePassed == left = 0

\* The client listens: the attempt's channel is open.
Listening == pc \in Waiting /\ attempt > 0

\* The context's deadline ends either exchange.
DeadlineExceeded ==
    /\ Listening /\ DeadlinePassed
    /\ LeaseFailed
    /\ UNCHANGED <<config, left, exchange, bound, offer, kernel>>

\* What the client takes for an answer to its DISCOVER.
IsOffer(p) == p.type = "OFFER"

\* Mutant: whatever the chosen server sends is the answer.
IsAnswerAnyType(p) == p.srv = offer

\* What it takes for an answer to its REQUEST.
IsAnswer(p) == p.srv = offer /\ p.type \in {"ACK", "NAK"}

\* Packets on their way to the client; receiving one may leave a duplicate.
Inbound == {p \in net : p.type \in {"OFFER", "ACK", "NAK"}}
Taken(p) == {net, net \ {p}}

\* The first OFFER is taken and the REQUEST exchange begins.
TakeOffer(p) ==
    /\ Listening /\ pc = "discover" /\ IsOffer(p)
    /\ pc' = "request"
    /\ offer' = p.srv
    /\ net' \in Taken(p)
    /\ attempt' = 0 /\ span' = Timeout /\ wait' = 0
    /\ UNCHANGED <<config, left, bound, details, kernel>>

IsRefusal(p) == p.type = "NAK"

\* The chosen server refuses: no second DISCOVER, the exchange has failed.
TakeRefusal(p) ==
    /\ Listening /\ pc = "request" /\ IsAnswer(p) /\ IsRefusal(p)
    /\ LeaseFailed
    /\ net' \in Taken(p)
    /\ UNCHANGED <<config, left, attempt, span, wait, bound, offer, kernel>>

\* The lease is there; detailsFromLease takes the address from the answer.
TakeLease(p) ==
    /\ Listening /\ pc = "request" /\ IsAnswer(p) /\ ~IsRefusal(p)
    /\ pc' = "address"
    /\ details' = p.srv
    /\ net' \in Taken(p)
    /\ UNCHANGED <<config, left, attempt, span, wait, bound, offer, kernel>>

\* detailsFromLease rejects it (no mask, no IPv4 address): an error even when
\* the fallback is enabled.
LeaseUnusable(p) ==
    /\ Listening /\ pc = "request" /\ IsAnswer(p) /\ ~IsRefusal(p)
    /\ pc' = "failed"
    /\ net' \in Taken(p)
    /\ UNCHANGED <<config, left, attempt, span, wait, bound, offer,
                   details, kernel>>

\* Any other packet is skipped and the attempt's timer starts anew.
Skip(p) ==
    /\ Listening
    /\ ~IF pc = "discover" THEN IsOffer(p) ELSE IsAnswer(p)
    /\ net' \in Taken(p)
    /\ wait' = span
    /\ UNCHANGED <<config, pc, left, attempt, span, bound, offer,
                   details, kernel>>

\* Time goes on while no timer of the client is due.
Tick ==
    /\ Listening /\ wait > 0 /\ ~DeadlinePassed
    /\ wait' = wait - 1
    /\ left' = IF left > 0 THEN left - 1 ELSE 0
    /\ UNCHANGED <<config, pc, attempt, span, net, bound, offer,
                   details, kernel>>

-----------------------------------------------------------------------------
(* Configure: applying the result *)

\* qemuUsernetFallback names a gateway and a name server; a lease may lack
\* either.
MayBe(present) == details = Fallback => present

\* applyLease: the address; without a gateway that is all.
ApplyAddress(gateway) ==
    /\ pc = "address" /\ MayBe(gateway)
    /\ kernel' = [kernel EXCEPT !.addr = details]
    /\ pc' = IF gateway THEN "route" ELSE "resolver"
    /\ UNCHANGED <<config, left, exchange, bound, offer, details>>

\* Mutant: a route the kernel refuses is only logged.
ApplyRouteLenient ==
    /\ pc = "route"
    /\ kernel' \in {kernel, [kernel EXCEPT !.route = TRUE]}
    /\ pc' = "resolver"
    /\ UNCHANGED <<config, left, exchange, bound, offer, details>>

\* applyLease: the default route.
ApplyRoute ==
    /\ pc = "route"
    /\ kernel' = [kernel EXCEPT !.route = TRUE]
    /\ pc' = "resolver"
    /\ UNCHANGED <<config, left, exchange, bound, offer, details>>

\* writeResolvConf, when the answer names a server or a domain.
WriteResolver(write) ==
    /\ pc = "resolver" /\ MayBe(write)
    /\ kernel' = [kernel EXCEPT !.resolver = write]
    /\ pc' = "configured"
    /\ UNCHANGED <<config, left, exchange, bound, offer, details>>

\* The kernel or the file system refuses; what was applied stays.
ApplyFails ==
    /\ pc \in {"address", "route", "resolver"}
    /\ pc' = "failed"
    /\ UNCHANGED <<config, left, exchange, bound, offer, details, kernel>>

-----------------------------------------------------------------------------
Apply ==
    \/ \E b \in BOOLEAN : ApplyAddress(b) \/ WriteResolver(b)
    \/ ApplyRoute

Receive ==
    \E p \in Inbound : \/ TakeOffer(p) \/ TakeRefusal(p) \/ TakeLease(p)
                       \/ LeaseUnusable(p) \/ Skip(p)

Network == Lose \/ \E s \in Servers : Offer(s) \/ Acknowledge(s) \/ Refuse(s)

Next ==
    \/ Disabled \/ Start \/ StartFails
    \/ Attempt \/ SendFails \/ NoResponse \/ DeadlineExceeded \/ Tick
    \/ Receive \/ Apply \/ ApplyFails
    \/ Network

\* Time passes, timers fire and the program runs; the network and the servers
\* owe nothing.
Fairness ==
    /\ WF_vars(Disabled \/ Start)
    /\ WF_vars(Attempt) /\ WF_vars(NoResponse) /\ WF_vars(DeadlineExceeded)
    /\ WF_vars(Tick) /\ WF_vars(Apply)

Spec == Init /\ [][Next]_vars /\ Fairness

-----------------------------------------------------------------------------
(* Properties *)

\* Every variable has its type; an exchange makes no more attempts than
\* Config.Retry allows (SendAndRead, WithRetry).
TypeOK ==
    /\ config \in Config
    /\ pc \in Waiting \cup Ends \cup {"link", "address", "route", "resolver"}
    /\ left \in Nat /\ span \in Nat /\ wait \in Nat
    /\ attempt \in 0 .. config.retry
    /\ net \subseteq Packet
    /\ bound \subseteq Servers
    /\ offer \in Servers \cup {None}
    /\ details \in Servers \cup {None, Fallback}
    /\ kernel \in [addr : Servers \cup {None, Fallback}, route : BOOLEAN,
                   resolver : BOOLEAN]

\* An address is only put on the link when the server it comes from holds a
\* lease for this client and is the one that was asked, or when it is the
\* fallback: late, duplicated or foreign packets never lead to an address
\* nobody leased (requestLease's matchers, applyLease).
AddressWasLeased ==
    \/ kernel.addr \in {None, Fallback}
    \/ kernel.addr \in bound /\ kernel.addr = offer

\* Silence is waited out: Configure never gives up for lack of an answer
\* before the deadline it announces, because the doubling attempts always
\* outlast it, in whichever exchange the silence falls (requestLease under
\* Configure's context).
SilenceUsesDeadline ==
    pc \in Waiting /\ wait = 0 /\ ~AttemptLeft => left = 0

\* Configure says configured only when the address it reports is on the link,
\* and the fallback comes with its route and resolver (Configure, applyLease).
ConfiguredIsApplied ==
    pc = "configured" =>
        /\ kernel.addr = details /\ details # None
        /\ details = Fallback => kernel.route /\ kernel.resolver

\* Configure comes to an end whatever the network does, also when duplicates
\* keep restarting the attempt's timer.
ConfigureEnds == <>(pc \in Ends)

=============================================================================
