---------------------------- MODULE MCBbsBoard ----------------------------
(* A small instance of BbsBoard: the guest's SSH server and cmd/bbs on the *)
(* host share one database; each runs one session.                         *)
EXTENDS BbsBoard, TLC

CONSTANTS guest, host, g1, h1

GuestAndHost == (g1 :> guest) @@ (h1 :> host)

\* Commands a session may issue, its first load included.
G2H1 == (g1 :> 2) @@ (h1 :> 1)
=============================================================================
