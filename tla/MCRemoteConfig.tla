---------------------------- MODULE MCRemoteConfig ----------------------------
(* Documents that are good, silent, malformed and unusable. *)
EXTENDS RemoteConfig

EnvConfig == [respondTo |-> "owner-only", allowlist |-> {}, permits |-> 2,
              tracing |-> TRUE]

Silent == [v |-> 1, respondTo |-> None, allowlist |-> None, permits |-> None,
           tracing |-> None]
Docs == {[Silent EXCEPT !.permits = 1], [Silent EXCEPT !.permits = 0],
         [Silent EXCEPT !.respondTo = "allowlist"]}

Records == {[s \in Slugs |-> None],
            [config |-> [at |-> 1, value |-> Silent],
             auth |-> [at |-> 1, value |-> CHOOSE c \in Creds : TRUE],
             langfuse |-> None]}
===============================================================================
