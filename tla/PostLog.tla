------------------------------ MODULE PostLog ------------------------------
(***************************************************************************)
(* What the shared bulletin board promises, without processes, databases,  *)
(* commands or key presses: an append-only log of posts.  A post that was  *)
(* asked for is committed once or given up; a reader is shown posts that   *)
(* are committed, perhaps not the newest, and nothing else.  A crash gives *)
(* up posts and blanks readers; it takes nothing out of the log.           *)
(***************************************************************************)
EXTENDS Sequences

CONSTANTS
    Posts,      \* identities of posts
    Readers     \* who is shown the log

VARIABLES
    log,        \* committed posts, oldest first
    pending,    \* posts asked for and not yet committed or given up
    shown       \* per reader: the posts it is shown

vars == <<log, pending, shown>>

Committed == {log[i] : i \in DOMAIN log}

Init ==
    /\ log = <<>>
    /\ pending = {}
    /\ shown = [r \in Readers |-> {}]

\* A post is asked for: a new one, or one that was given up before.
Request(p) ==
    /\ p \notin pending \cup Committed
    /\ pending' = pending \cup {p}
    /\ UNCHANGED <<log, shown>>

Commit(p) ==
    /\ p \in pending
    /\ log' = Append(log, p)
    /\ pending' = pending \ {p}
    /\ UNCHANGED shown

\* A reader is shown other posts of the log, older ones included.
Show(r) ==
    /\ \E posts \in SUBSET Committed : shown' = [shown EXCEPT ![r] = posts]
    /\ UNCHANGED <<log, pending>>

\* Posts are given up, and readers that went down with them are blank.
GiveUp ==
    /\ pending' \subseteq pending
    /\ \E blank \in SUBSET Readers :
          shown' = [r \in Readers |-> IF r \in blank THEN {} ELSE shown[r]]
    /\ UNCHANGED log

Next ==
    \/ \E p \in Posts : Request(p) \/ Commit(p)
    \/ \E r \in Readers : Show(r)
    \/ GiveUp

Spec == Init /\ [][Next]_vars
=============================================================================
