------------------------------ MODULE MCIngest ------------------------------
(* Instance of Ingest for TLC: the payloads that take each path of the     *)
(* handlers, two concurrent requests, one or two deliveries.               *)
EXTENDS Ingest

P(event, inst, repo, action, branch, settings, org) ==
    [event |-> event, installation |-> inst, repo |-> repo, action |-> action,
     branch |-> branch, settings |-> settings, organization |-> org]

(* One payload for every outcome of Plan, and one without an installation. *)
MCPayloads ==
    { P("push", TRUE, "admin", "unwatched", "default", TRUE, FALSE),
      P("push", TRUE, "admin", "unwatched", "default", FALSE, FALSE),
      P("push", TRUE, "admin", "unwatched", "topic", TRUE, FALSE),
      P("push", FALSE, "admin", "unwatched", "default", TRUE, FALSE),
      P("repository", TRUE, "app", "watched", "default", FALSE, FALSE),
      P("repository", TRUE, "app", "unwatched", "default", FALSE, FALSE),
      P("pull_request", TRUE, "admin", "watched", "topic", FALSE, FALSE),
      P("pull_request", TRUE, "admin", "watched", "default", FALSE, FALSE),
      P("drift", TRUE, "app", "unwatched", "default", FALSE, TRUE),
      P("drift", TRUE, "none", "unwatched", "default", FALSE, TRUE),
      P("drift", TRUE, "none", "unwatched", "default", FALSE, FALSE),
      P("other", TRUE, "app", "unwatched", "default", FALSE, FALSE) }

MCRepos == {"admin", "app"}
=============================================================================
