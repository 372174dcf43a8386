----------------------------- MODULE MCAppRuntime ----------------------------
(* Instances of AppRuntime for TLC: a stranger writes in a stream.            *)
EXTENDS AppRuntime

CONSTANTS c1, m1

MCChannelOf == [m \in Msgs |-> c1]
MCAuthorOf  == [m \in Msgs |-> "other"]
MCTypeOf    == [c \in Channels |-> "stream"]
=============================================================================
