----------------------------- MODULE MCInitramfs -----------------------------
(* Small archives: paths of one to three components that share parents, lie *)
(* in a base directory or at the top; lengths on both sides of a multiple   *)
(* of 4.                                                                     *)
EXTENDS Initramfs, TLC

SomePaths == {<<"lib", "m", "a">>, <<"lib", "b">>, <<"dev", "c">>, <<"d">>}

Lengths ==
    [c \in {"a", "b", "c", "d", "m", "lib", "dev", "proc", "sys", "init",
            "console", "null", "TRAILER!!!"} |->
        CASE c \in {"a", "m"} -> 1 [] c = "b" -> 2 [] c \in {"c", "d"} -> 5
          [] c \in {"lib", "dev", "sys"} -> 3
          [] c \in {"proc", "init", "null"} -> 4
          [] c = "console" -> 7 [] OTHER -> 10]

\* The components and the slashes between them.
Length(path) == FoldSeq(LAMBDA c, n : n + Lengths[c], Len(path) - 1, path)
=============================================================================
