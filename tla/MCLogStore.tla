----------------------------- MODULE MCLogStore -----------------------------
(* A small instance of LogStore: two goroutines write whole lines, plain   *)
(* and structured, two lines at once, blank lines and lines in pieces.     *)
EXTENDS LogStore

CONSTANTS t, j, sp, nl

SomeChunks == {<<t>>, <<j, nl>>, <<sp, j, nl>>, <<nl, t, nl>>, <<sp, nl>>}
=============================================================================
