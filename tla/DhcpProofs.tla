----------------------------- MODULE DhcpProofs -----------------------------
(***************************************************************************)
(* Proofs about Dhcp, for any servers, any timeout and any retry setting.  *)
(***************************************************************************)
EXTENDS Dhcp, TLAPS

\* The time that is left and the time the attempts have used up fit in the
\* deadline: each attempt waits at least Timeout before the next.
TimeIsSpent ==
    pc \in Waiting =>
        /\ span >= Timeout /\ wait <= span /\ left <= Deadline
        /\ left + Timeout * attempt <= Deadline + wait

\* Nobody acknowledges what it has not bound.
AcksAreBound == \A p \in net : p.type = "ACK" => p.srv \in bound

\* A lease that is applied comes from the server that was asked.
LeaseIsBound == details \in Servers => details \in bound /\ details = offer

\* Nothing is decided or applied before an exchange has ended, and a REQUEST
\* goes to a server.
NothingYet ==
    /\ pc \in Waiting \cup {"link"} => details = None /\ kernel.addr = None
    /\ pc = "request" => offer \in Servers

\* What applyLease has done when it is at each step.
AppliedSoFar ==
    /\ kernel.addr \in {None, details}
    /\ pc \in {"address", "route", "resolver", "configured"} => details # None
    /\ pc \in {"route", "resolver", "configured"} => kernel.addr = details
    /\ pc \in {"resolver", "configured"} /\ details = Fallback => kernel.route
    /\ pc = "configured" /\ details = Fallback => kernel.resolver

\* The inductive invariant.
IndInv ==
    /\ TypeOK
    /\ TimeIsSpent
    /\ AcksAreBound
    /\ LeaseIsBound
    /\ NothingYet
    /\ AppliedSoFar

-----------------------------------------------------------------------------
(* Lemmas *)

\* LoadConfigFromEnv gives a positive number of attempts whatever is set.
LEMMA RetryPositive ==
    ASSUME NEW c \in Config
    PROVE  c.retry \in Nat \ {0} /\ c.dhcp \in BOOLEAN /\ c.fallback \in BOOLEAN
  BY RetryType DEF Config, IntEnv

\* The deadline is the time of all attempts, if none doubled.
LEMMA DeadlineIs ==
    ASSUME config \in Config
    PROVE  Deadline = Timeout * config.retry /\ Deadline \in Nat
  <1>1. config.retry \in Nat \ {0}
    BY RetryPositive
  <1>2. config.retry > 1 \/ config.retry = 1
    BY <1>1
  <1>3. Deadline = Timeout * config.retry
    BY <1>2 DEF Deadline
  <1> QED BY <1>1, <1>3, TimeoutPositive

\* One attempt more.
LEMMA OneMore == \A t, n \in Nat : t * (n + 1) = t * n + t /\ t * n \in Nat
  OBVIOUS

\* Packets are well-formed.
LEMMA PacketType ==
    /\ Pkt("DISCOVER", None) \in Packet
    /\ \A s \in Servers, t \in {"OFFER", "REQUEST", "ACK", "NAK"} :
            Pkt(t, s) \in Packet /\ Pkt(t, s).type = t /\ Pkt(t, s).srv = s
    /\ Pkt("DISCOVER", None).type = "DISCOVER"
    /\ \A p \in Packet : p.type # "DISCOVER" => p.srv \in Servers
  BY DEF Packet, Pkt

-----------------------------------------------------------------------------
(* The steps *)

\* The network and the servers: only packets and leases change.
LEMMA NetworkStep ==
    ASSUME IndInv, Network
    PROVE  IndInv'
  <1>1. UNCHANGED <<config, pc, left, attempt, span, wait, offer, details,
                    kernel>>
    BY DEF Network, Lose, Offer, Acknowledge, Refuse
  <1>2. /\ net' \subseteq Packet
        /\ bound \subseteq bound' /\ bound' \subseteq Servers
        /\ AcksAreBound'
    <2> USE PacketType DEF IndInv, TypeOK, AcksAreBound
    <2>1. CASE Lose
      BY <2>1 DEF Lose
    <2>2. ASSUME NEW s \in Servers, Offer(s)
          PROVE  <1>2!:
      BY <2>2 DEF Offer
    <2>3. ASSUME NEW s \in Servers, Acknowledge(s)
          PROVE  <1>2!:
      BY <2>3 DEF Acknowledge
    <2>4. ASSUME NEW s \in Servers, Refuse(s)
          PROVE  <1>2!:
      BY <2>4 DEF Refuse
    <2> QED BY <2>1, <2>2, <2>3, <2>4 DEF Network
  <1>3. TypeOK'
    BY <1>1, <1>2 DEF IndInv, TypeOK
  <1>4. TimeIsSpent'
    BY <1>1 DEF IndInv, TimeIsSpent, Deadline
  <1>5. LeaseIsBound' /\ NothingYet' /\ AppliedSoFar'
    BY <1>1, <1>2 DEF IndInv, LeaseIsBound, NothingYet, AppliedSoFar
  <1> QED BY <1>2, <1>3, <1>4, <1>5 DEF IndInv

\* requestLease begins or its timers run: Start, Attempt, Tick and Skip.
LEMMA TimerStep ==
    ASSUME IndInv,
           Start \/ Attempt \/ Tick \/ \E p \in Inbound : Skip(p)
    PROVE  IndInv'
  <1>1. /\ config \in Config /\ config.retry \in Nat \ {0} /\ Timeout \in Nat
        /\ left \in Nat /\ span \in Nat /\ wait \in Nat
        /\ attempt \in 0..config.retry /\ Deadline \in Nat
    BY RetryPositive, TimeoutPositive, DeadlineIs DEF IndInv, TypeOK
  <1>2. /\ UNCHANGED <<config, bound, offer, details, kernel>>
        /\ pc' \in Waiting /\ pc \in Waiting \cup {"link"}
        /\ pc' # pc => pc' = "discover"
    BY DEF Start, Attempt, Tick, Skip, Listening, Waiting
  <1>3. Deadline' = Deadline
    BY <1>2 DEF Deadline
  <1>4. net' \subseteq Packet /\ AcksAreBound'
    <2> USE <1>2, PacketType DEF IndInv, TypeOK, AcksAreBound
    <2>1. CASE Start
      BY <2>1 DEF Start
    <2>2. CASE Attempt
      BY <2>2 DEF Attempt, NothingYet, Waiting
    <2>3. CASE Tick
      BY <2>3 DEF Tick
    <2>4. ASSUME NEW p \in Inbound, Skip(p)
          PROVE  <1>4!:
      BY <2>4 DEF Skip, Taken
    <2> QED BY <2>1, <2>2, <2>3, <2>4
  <1>5. /\ left' \in Nat /\ span' \in Nat /\ wait' \in Nat
        /\ attempt' \in 0..config.retry /\ TimeIsSpent'
    <2>1. CASE Start
      BY <1>1, <1>2, <1>3, <2>1 DEF Start, TimeIsSpent
    <2>2. CASE Attempt
      <3>1. /\ attempt < config.retry /\ attempt' = attempt + 1
            /\ wait = 0 /\ left' = left
            /\ span' = AttemptTime /\ wait' = AttemptTime
            /\ span >= Timeout /\ wait <= span /\ left <= Deadline
            /\ left + Timeout * attempt <= Deadline + wait
        BY <2>2 DEF IndInv, TimeIsSpent, Attempt, AttemptLeft
      <3>2. AttemptTime \in Nat /\ AttemptTime >= Timeout
        BY <1>1, <3>1 DEF AttemptTime
      <3>3. /\ attempt \in Nat /\ Timeout * attempt \in Nat
            /\ Timeout * (attempt + 1) = Timeout * attempt + Timeout
        BY <1>1, OneMore
      <3>4. left + Timeout * (attempt + 1) <= Deadline + AttemptTime
        BY <1>1, <3>1, <3>2, <3>3
      <3> QED BY <1>1, <1>3, <3>1, <3>2, <3>4 DEF TimeIsSpent
    <2>3. CASE Tick
      <3>1. /\ left > 0 /\ wait > 0 /\ left' = left - 1 /\ wait' = wait - 1
            /\ attempt' = attempt /\ span' = span
            /\ span >= Timeout /\ wait <= span /\ left <= Deadline
            /\ left + Timeout * attempt <= Deadline + wait
        BY <1>1, <2>3
           DEF IndInv, TimeIsSpent, Tick, DeadlinePassed, Listening
      <3>2. Timeout * attempt \in Nat
        BY <1>1, OneMore
      <3>3. left - 1 + Timeout * attempt <= Deadline + (wait - 1)
        BY <1>1, <3>1, <3>2
      <3> QED BY <1>1, <1>3, <3>1, <3>3 DEF TimeIsSpent
    <2>4. ASSUME NEW p \in Inbound, Skip(p)
          PROVE  <1>5!:
      <3>1. /\ left' = left /\ wait' = span
            /\ attempt' = attempt /\ span' = span
            /\ span >= Timeout /\ wait <= span /\ left <= Deadline
            /\ left + Timeout * attempt <= Deadline + wait
        BY <2>4 DEF IndInv, TimeIsSpent, Skip, Listening
      <3>2. Timeout * attempt \in Nat
        BY <1>1, OneMore
      <3>3. left + Timeout * attempt <= Deadline + span
        BY <1>1, <3>1, <3>2
      <3> QED BY <1>1, <1>3, <3>1, <3>3 DEF TimeIsSpent
    <2> QED BY <2>1, <2>2, <2>3, <2>4
  <1>6. TypeOK'
    BY <1>2, <1>4, <1>5 DEF IndInv, TypeOK
  <1>7. LeaseIsBound' /\ NothingYet' /\ AppliedSoFar'
    BY <1>2 DEF IndInv, LeaseIsBound, NothingYet, AppliedSoFar, Waiting
  <1> QED BY <1>4, <1>5, <1>6, <1>7 DEF IndInv

\* An exchange ends, with or without an answer.
LEMMA ExchangeStep ==
    ASSUME IndInv,
           \/ Disabled \/ StartFails \/ SendFails \/ NoResponse
           \/ DeadlineExceeded
           \/ \E p \in Inbound : \/ TakeOffer(p) \/ TakeRefusal(p)
                                 \/ TakeLease(p) \/ LeaseUnusable(p)
    PROVE  IndInv'
  <1>1. /\ config \in Config /\ config.retry \in Nat \ {0} /\ Timeout \in Nat
        /\ left \in Nat /\ span \in Nat /\ wait \in Nat
        /\ attempt \in 0..config.retry /\ Deadline \in Nat
    BY RetryPositive, TimeoutPositive, DeadlineIs DEF IndInv, TypeOK
  <1>2. /\ UNCHANGED <<config, left, bound, kernel>>
        /\ net' \subseteq net
    BY DEF Disabled, StartFails, SendFails, NoResponse, DeadlineExceeded,
           TakeOffer, TakeRefusal, TakeLease, LeaseUnusable, Taken, exchange
  <1>3. net' \subseteq Packet /\ AcksAreBound'
    BY <1>2 DEF IndInv, TypeOK, AcksAreBound
  <1>4. Deadline' = Deadline
    BY <1>2 DEF Deadline
  <1> USE DEF IndInv, TypeOK, TimeIsSpent, LeaseIsBound, NothingYet,
              AppliedSoFar, Waiting, Ends
  <1>5. CASE \/ Disabled \/ StartFails \/ SendFails \/ NoResponse
             \/ DeadlineExceeded \/ \E p \in Inbound : TakeRefusal(p)
    <2>1. /\ UNCHANGED <<attempt, span, wait, offer>>
          /\ pc \in Waiting \cup {"link"}
          /\ \/ pc' \in {"disabled", "failed"} /\ details' = details
             \/ pc' = "failed" /\ details' = None
             \/ pc' = "address" /\ details' = Fallback
      BY <1>5 DEF Disabled, StartFails, SendFails, NoResponse,
                  DeadlineExceeded, TakeRefusal, LeaseFailed, Listening,
                  exchange
    <2> QED BY <1>1, <1>2, <1>3, <2>1, NamesDiffer
  <1>6. ASSUME NEW p \in Inbound, LeaseUnusable(p)
        PROVE  IndInv'
    BY <1>1, <1>2, <1>3, <1>6 DEF LeaseUnusable
  <1>7. ASSUME NEW p \in Inbound, TakeLease(p)
        PROVE  IndInv'
    <2>1. /\ p.type = "ACK" /\ p.srv = offer /\ p \in net
          /\ pc = "request" /\ pc' = "address" /\ details' = p.srv
          /\ UNCHANGED <<attempt, span, wait, offer>>
      BY <1>7 DEF TakeLease, IsAnswer, IsRefusal, Inbound
    <2>2. offer \in Servers /\ offer \in bound
      BY <2>1 DEF AcksAreBound
    <2> QED BY <1>1, <1>2, <1>3, <2>1, <2>2, NamesDiffer
  <1>8. ASSUME NEW p \in Inbound, TakeOffer(p)
        PROVE  IndInv'
    <2>1. /\ p.type = "OFFER" /\ p \in net
          /\ pc = "discover" /\ pc' = "request" /\ offer' = p.srv
          /\ attempt' = 0 /\ span' = Timeout /\ wait' = 0
          /\ UNCHANGED details
      BY <1>8 DEF TakeOffer, IsOffer, Inbound
    <2>2. p.srv \in Servers
      BY <2>1, PacketType
    <2>3. left <= Deadline
      BY <2>1
    <2>4. TimeIsSpent'
      BY <1>1, <1>2, <1>4, <2>1, <2>3
    <2> QED BY <1>1, <1>2, <1>3, <2>1, <2>2, <2>4, NamesDiffer
  <1> QED BY <1>5, <1>6, <1>7, <1>8

\* The result is applied.
LEMMA ApplyStep ==
    ASSUME IndInv, Apply \/ ApplyFails
    PROVE  IndInv'
  <1> USE DEF IndInv, TypeOK, TimeIsSpent, AcksAreBound, LeaseIsBound,
              NothingYet, AppliedSoFar, Waiting, Ends, exchange
  <1>1. ASSUME NEW b \in BOOLEAN, ApplyAddress(b)
        PROVE  IndInv'
    BY <1>1 DEF ApplyAddress, MayBe
  <1>2. ASSUME NEW b \in BOOLEAN, WriteResolver(b)
        PROVE  IndInv'
    BY <1>2 DEF WriteResolver, MayBe
  <1>3. CASE ApplyRoute
    BY <1>3 DEF ApplyRoute
  <1>4. CASE ApplyFails
    BY <1>4 DEF ApplyFails
  <1> QED BY <1>1, <1>2, <1>3, <1>4 DEF Apply

\* Every step keeps the invariant.
LEMMA IndStep == IndInv /\ [Next]_vars => IndInv'
  <1> SUFFICES ASSUME IndInv, [Next]_vars PROVE IndInv'
    OBVIOUS
  <1>1. CASE Next
    BY <1>1, NetworkStep, TimerStep, ExchangeStep, ApplyStep
       DEF Next, Receive
  <1>2. CASE UNCHANGED vars
    BY <1>2 DEF vars, exchange, IndInv, TypeOK, TimeIsSpent, AcksAreBound,
                LeaseIsBound, NothingYet, AppliedSoFar, Deadline
  <1> QED BY <1>1, <1>2

\* It holds when Configure is called.
LEMMA IndInit == Init => IndInv
  <1> SUFFICES ASSUME Init PROVE IndInv
    OBVIOUS
  <1>1. config.retry \in Nat \ {0}
    BY RetryPositive DEF Init
  <1> QED
    BY <1>1, NamesDiffer
       DEF Init, IndInv, TypeOK, TimeIsSpent, AcksAreBound, LeaseIsBound,
           NothingYet, AppliedSoFar, Waiting, Ends

\* The inductive invariant of networking.Configure.
THEOREM Inductive == Spec => []IndInv
  BY IndInit, IndStep, PTL DEF Spec

-----------------------------------------------------------------------------
(* The results *)

\* Every variable keeps its type; no exchange makes more attempts than
\* Config.Retry.
THEOREM TypeCorrect == Spec => []TypeOK
  <1>1. IndInv => TypeOK
    BY DEF IndInv
  <1> QED BY <1>1, Inductive, PTL

\* Whatever the network loses, delays or duplicates and whichever server
\* answers, the address on the link was leased by the server that was asked.
THEOREM AddressLeased == Spec => []AddressWasLeased
  <1>1. IndInv => AddressWasLeased
    BY DEF IndInv, TypeOK, LeaseIsBound, AppliedSoFar, AddressWasLeased
  <1> QED BY <1>1, Inductive, PTL

\* For every timeout and every retry setting the doubling attempts outlast
\* the deadline, so a silent network is waited out.
THEOREM DeadlineDecides == Spec => []SilenceUsesDeadline
  <1>1. IndInv => SilenceUsesDeadline
    <2> SUFFICES ASSUME IndInv, pc \in Waiting, wait = 0, ~AttemptLeft
                 PROVE  left = 0
      BY DEF SilenceUsesDeadline
    <2>1. /\ config \in Config /\ attempt \in 0..config.retry /\ left \in Nat
          /\ left + Timeout * attempt <= Deadline + wait
      BY DEF IndInv, TypeOK, TimeIsSpent
    <2>2. config.retry \in Nat \ {0}
      BY <2>1, RetryPositive
    <2>3. attempt = config.retry
      BY <2>1, <2>2 DEF AttemptLeft
    <2>4. Deadline = Timeout * attempt /\ Deadline \in Nat
      BY <2>1, <2>3, DeadlineIs
    <2> QED BY <2>1, <2>4
  <1> QED BY <1>1, Inductive, PTL

\* Configure reports a configuration only when the kernel has it.
THEOREM ReportIsApplied == Spec => []ConfiguredIsApplied
  <1>1. IndInv => ConfiguredIsApplied
    BY DEF IndInv, AppliedSoFar, ConfiguredIsApplied
  <1> QED BY <1>1, Inductive, PTL

=============================================================================
