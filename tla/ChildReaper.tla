---------------------------- MODULE ChildReaper ----------------------------
(***************************************************************************)
(* PID 1's child reaper (StartChildReaper, reapChildren in internal/boot). *)
(*                                                                         *)
(* Signals of one kind that are not yet taken are one signal, in the       *)
(* kernel and in the Go runtime alike, and signal.Notify drops a signal    *)
(* when the channel is full.  One goroutine takes them off the channel, one *)
(* at a time, and may still be writing a log line when the next ones come. *)
(***************************************************************************)
EXTENDS Integers, Sequences

CONSTANTS
    Children,       \* processes whose parent is PID 1
    Capacity,       \* of the channel: 8 in StartChildReaper
    MaxOthers       \* bound: SIGINTs and SIGTERMs that are sent

ASSUME CapacityPositive == Capacity \in Nat \ {0}
ASSUME BoundIsNat == MaxOthers \in Nat

VARIABLES
    child,      \* per child: running, zombie or reaped
    pending,    \* signals delivered to the process and not yet to the channel
    signals,    \* the channel
    reaper,     \* what the goroutine does
    others      \* bound counter

reaperVars == <<child, pending, signals, reaper, others>>

SigChld == "SIGCHLD"
Kinds == {SigChld, "SIGINT", "SIGTERM"}

ReaperInit ==
    /\ child = [c \in Children |-> "running"]
    /\ pending = {}
    /\ signals = <<>>
    /\ reaper = "waiting"
    /\ others = 0

-----------------------------------------------------------------------------
(* Kernel and runtime *)

\* A child exits.
Exit(c) ==
    /\ child[c] = "running"
    /\ child' = [child EXCEPT ![c] = "zombie"]
    /\ pending' = pending \cup {SigChld}
    /\ UNCHANGED <<signals, reaper, others>>

\* Somebody interrupts or terminates PID 1 (Ctrl-Alt-Del is a SIGINT).
Interrupt(sig) ==
    /\ others < MaxOthers
    /\ others' = others + 1
    /\ pending' = pending \cup {sig}
    /\ UNCHANGED <<child, signals, reaper>>

HasRoom == Len(signals) < Capacity

\* The runtime's send to the channel: the signal is lost when it is full.
Notify(sig) ==
    /\ sig \in pending
    /\ pending' = pending \ {sig}
    /\ signals' = IF HasRoom THEN Append(signals, sig) ELSE signals
    /\ UNCHANGED <<child, reaper, others>>

-----------------------------------------------------------------------------
(* The goroutine *)

\* A signal is taken: SIGCHLD enters reapChildren, the others are logged.
Take ==
    /\ reaper = "waiting" /\ signals # <<>>
    /\ reaper' = IF Head(signals) = SigChld THEN "reaping" ELSE "logging"
    /\ signals' = Tail(signals)
    /\ UNCHANGED <<child, pending, others>>

\* The log line is written.
Logged ==
    /\ reaper = "logging"
    /\ reaper' = "waiting"
    /\ UNCHANGED <<child, pending, signals, others>>

\* Mutant: one child per signal.
AfterReapOne == "waiting"

\* reapChildren loops until wait4 finds nothing.
AfterReap == "reaping"

\* wait4 returns a child.
Reap(c) ==
    /\ reaper = "reaping" /\ child[c] = "zombie"
    /\ child' = [child EXCEPT ![c] = "reaped"]
    /\ reaper' = AfterReap
    /\ UNCHANGED <<pending, signals, others>>

\* wait4 finds no zombie (0) or no child (ECHILD): reapChildren returns.  With
\* WNOHANG there is no other error: EINTR is for a wait4 that blocks.
NoneLeft ==
    /\ reaper = "reaping" /\ \A c \in Children : child[c] # "zombie"
    /\ reaper' = "waiting"
    /\ UNCHANGED <<child, pending, signals, others>>

-----------------------------------------------------------------------------
Goroutine == Take \/ Logged \/ NoneLeft \/ \E c \in Children : Reap(c)

ReaperNext ==
    \/ \E c \in Children : Exit(c)
    \/ \E sig \in Kinds \ {SigChld} : Interrupt(sig)
    \/ \E sig \in Kinds : Notify(sig)
    \/ Goroutine

\* The runtime delivers signals and schedules the goroutine; log writes end.
Fairness ==
    /\ \A sig \in Kinds : WF_reaperVars(Notify(sig))
    /\ WF_reaperVars(Goroutine)

ReaperSpec == ReaperInit /\ [][ReaperNext]_reaperVars /\ Fairness

-----------------------------------------------------------------------------
(* Properties *)

\* Every variable has its type; the channel never holds more than it can.
ReaperTypeOK ==
    /\ child \in [Children -> {"running", "zombie", "reaped"}]
    /\ pending \subseteq Kinds
    /\ signals \in Seq(Kinds) /\ Len(signals) <= Capacity
    /\ reaper \in {"waiting", "reaping", "logging"}
    /\ others \in 0..MaxOthers

\* Enough interrupts were sent to fill the channel without a SIGCHLD in it.
ChannelFloodable == others >= Capacity

\* While there is a zombie somebody is on the way to it: a SIGCHLD is pending
\* or in the channel, or reapChildren has not returned, although SIGCHLDs
\* merge and are dropped when the channel is full.  Only a channel full of
\* other signals loses one that matters (StartChildReaper, reapChildren).
NoZombieForgotten ==
    (\E c \in Children : child[c] = "zombie") =>
        \/ SigChld \in pending
        \/ \E i \in DOMAIN signals : signals[i] = SigChld
        \/ reaper = "reaping"
        \/ ChannelFloodable

\* Every child that exits is reaped, unless interrupts flood the channel:
\* "the PID 1 process does not leak zombies" (StartChildReaper).
ZombiesReaped ==
    \A c \in Children :
        child[c] = "zombie" ~> child[c] = "reaped" \/ ChannelFloodable

=============================================================================
