--------------------------- MODULE MCChannelActor ---------------------------
(* Instances of ChannelActor for TLC.                                       *)
EXTENDS ChannelActorProperties, TLC

CONSTANTS e1, e2, e3, e4

\* e2 replies in the thread of e1; e3 is a top-level message of its own.
ReplyAndOther == e1 :> e1 @@ e2 :> e1 @@ e3 :> e3

\* e2 and e3 both reply in the thread of e1.
TwoReplies == e1 :> e1 @@ e2 :> e1 @@ e3 :> e1

\* Two threads of two messages each.
TwoThreads == e1 :> e1 @@ e2 :> e1 @@ e3 :> e3 @@ e4 :> e3

=============================================================================
