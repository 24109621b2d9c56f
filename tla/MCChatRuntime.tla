--------------------------- MODULE MCChatRuntime ---------------------------
(* A small instance of ChatRuntime: the debug endpoint, which does what a  *)
(* chat session does and then reads on, and a provider probe.              *)
EXTENDS ChatRuntime, TLC

CONSTANTS debug, probe, h1, h2

DebugAndProbe == (debug :> "debug") @@ (probe :> "probe")

\* The state root and $HOME lead to the first directory if anywhere, the
\* explicit setting and the user database to the second; the first holds
\* any files, the second both, one or none.
SomeHosts ==
    {h \in Host : /\ h.root # h2 /\ h.config # h1
                  /\ h.dotConfig # h2 /\ h.userHome # h1
                  /\ "profiles.yaml" \in h.files[h2] =>
                        "config.yaml" \in h.files[h2]}

\* Settings by directory: the first names a provider with a key and no URL.
MCEffectiveOf ==
    [p \in Homes \X (Homes \cup {Given}) |->
        CASE p = <<h1, h1>> -> [api |-> "claude", bases |-> {}, keys |-> Keys]
          [] p = <<h1, Given>> -> [api |-> "", bases |-> {}, keys |-> Keys]
          [] OTHER -> [api |-> "openai-responses", bases |-> {"claude"},
                       keys |-> {"openai"}]]
=============================================================================
