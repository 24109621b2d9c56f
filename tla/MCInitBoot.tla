----------------------------- MODULE MCInitBoot -----------------------------
(***************************************************************************)
(* Layouts for the boot sequence: the storage at its default place or      *)
(* elsewhere; the share in it by default, beside it, on its own mount      *)
(* point, on one of its directories or above it; the host key in the       *)
(* default storage or elsewhere.                                           *)
(***************************************************************************)
EXTENDS InitBoot

Default == <<"var", "lib", "go-init">>
Elsewhere == <<"data">>

MCName ==
    {"var", "lib", "go-init", "data", "shared", "mnt", "state", "ssh", "key",
     "chat", "logs.db", "app", "bbs"}
MCStoragePoints == {Default, Elsewhere}
MCSharePoints ==
    {Default \o <<"shared">>, <<"mnt">>, Default, Default \o <<"state">>,
     <<"var">>}
MCKeyPaths == {Default \o <<"ssh", "key">>, Elsewhere \o <<"key">>}

=============================================================================
