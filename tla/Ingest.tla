------------------------------- MODULE Ingest -------------------------------
(***************************************************************************)
(* Webhook ingest: src/src/caldrith/api/webhooks.py with the enqueue       *)
(* helpers and the delivery dedup of worker/queue.py.                      *)
(*                                                                         *)
(* GitHub sends a delivery (an X-GitHub-Delivery id and a payload), may    *)
(* send it again, or the wire may lose it.  Several requests are served    *)
(* at once; a request verifies its signature, claims the id in Redis with  *)
(* SET NX, and then enqueues the jobs its payload calls for, one Redis     *)
(* call after the other.  A request may die between any two of its calls   *)
(* (a Redis error, a killed API pod): what it has already written to Redis *)
(* stays.  Whatever the code awaits is a step of its own; the pure code    *)
(* between two awaits belongs to the step before it.                       *)
(***************************************************************************)
EXTENDS Naturals, Sequences

CONSTANTS
    Ids,          \* X-GitHub-Delivery ids
    NoId,         \* the header is absent
    Handlers,     \* requests being served at the same time
    Payloads,     \* the payloads GitHub may send, see PayloadFields
    AdminRepo,    \* settings.admin_repo
    NoRepo,       \* the payload has no "repository" block
    Repos,        \* every repository name a payload may carry
    MaxSends      \* bound: requests put on the wire in one behaviour

Kinds == {"push", "repository", "pull_request", "drift", "other"}

(***************************************************************************)
(* What the handlers look at in a payload.  "watched" stands for an action *)
(* the handler of the event lists (created/edited, or opened/reopened/     *)
(* synchronize); branch says whether the pushed ref, or the head of the    *)
(* pull request, is the default branch; settings whether a commit of the   *)
(* push touches the settings file.                                         *)
(***************************************************************************)
PayloadFields ==
    [event: Kinds, installation: BOOLEAN, repo: Repos \cup {NoRepo},
     action: {"watched", "unwatched"}, branch: {"default", "topic"},
     settings: BOOLEAN, organization: BOOLEAN]

ASSUME IdsAssumption      == NoId \notin Ids
ASSUME PayloadsAssumption == Payloads \subseteq PayloadFields
ASSUME ReposAssumption    == AdminRepo \in Repos /\ NoRepo \notin Repos
ASSUME SendsAssumption    == MaxSends \in Nat

-----------------------------------------------------------------------------
(* The jobs the producers put on the queue (queue.py).                     *)

Functions == {"reconcile_installation", "reconcile_repo", "reconcile_org",
              "update_admin_prs"}

Jobs == [function: Functions, repo: Repos \cup {NoRepo}, dry_run: BOOLEAN]

AccountJob(f) == [function |-> f, repo |-> NoRepo, dry_run |-> FALSE]

RepoJob(r, dry) == [function |-> "reconcile_repo", repo |-> r, dry_run |-> dry]

-----------------------------------------------------------------------------
(* One operator per handler: the jobs it enqueues, in order.               *)

PushJobs(p) ==
    IF p.repo = AdminRepo /\ p.branch = "default"
    THEN IF p.settings
         THEN << AccountJob("reconcile_installation"), AccountJob("update_admin_prs") >>
         ELSE << AccountJob("reconcile_installation") >>
    ELSE << >>

RepositoryJobs(p) ==
    IF p.action = "watched" /\ p.repo # NoRepo
    THEN << RepoJob(p.repo, FALSE) >>
    ELSE << >>

PullRequestJobs(p) ==
    IF p.action = "watched" /\ p.repo = AdminRepo /\ p.branch # "default"
    THEN << RepoJob(p.repo, TRUE) >>
    ELSE << >>

DriftJobs(p) ==
    CASE p.repo # NoRepo -> << RepoJob(p.repo, FALSE) >>
      [] p.repo = NoRepo /\ p.organization -> << AccountJob("reconcile_org") >>
      [] p.repo = NoRepo /\ ~p.organization -> << >>

Plan(p) ==
    CASE p.event = "push"         -> PushJobs(p)
      [] p.event = "repository"   -> RepositoryJobs(p)
      [] p.event = "pull_request" -> PullRequestJobs(p)
      [] p.event = "drift"        -> DriftJobs(p)
      [] p.event = "other"        -> << >>

-----------------------------------------------------------------------------
VARIABLES
    payload,    \* [Ids \cup {NoId} -> Payloads]: the payload of each delivery
    sends,      \* requests put on the wire so far
    wire,       \* [Requests -> Nat]: requests on their way to the API
    claimed,    \* the dedup keys now in Redis
    pc,         \* where each handler is
    serving,    \* the delivery id each handler serves
    next,       \* the index in the plan of the next job to enqueue
    enqueued,   \* the jobs enqueued for each delivery since its key was set
    failed,     \* deliveries a handler died on since the key was set
    replies     \* statuses answered for each delivery since the key was set

vars == << payload, sends, wire, claimed, pc, serving, next, enqueued, failed, replies >>

Deliveries == Ids \cup {NoId}

Requests == [id: Deliveries, signed: BOOLEAN]

Statuses == {"invalid signature", "duplicate", "ignored", "accepted"}

JobsOf(d) == Plan(payload[d])

TypeOK ==
    /\ payload \in [Deliveries -> Payloads]
    /\ sends \in 0 .. MaxSends
    /\ wire \in [Requests -> Nat]
    /\ claimed \subseteq Ids
    /\ pc \in [Handlers -> {"idle", "dedup", "enqueue"}]
    /\ serving \in [Handlers -> Deliveries]
    /\ next \in [Handlers -> Nat \ {0}]
    /\ enqueued \in [Deliveries -> Seq(Jobs)]
    /\ failed \subseteq Deliveries
    /\ replies \in [Deliveries -> SUBSET Statuses]

Init ==
    /\ payload \in [Deliveries -> Payloads]
    /\ sends = 0
    /\ wire = [q \in Requests |-> 0]
    /\ claimed = {}
    /\ pc = [h \in Handlers |-> "idle"]
    /\ serving = [h \in Handlers |-> NoId]
    /\ next = [h \in Handlers |-> 1]
    /\ enqueued = [d \in Deliveries |-> << >>]
    /\ failed = {}
    /\ replies = [d \in Deliveries |-> {}]

-----------------------------------------------------------------------------
(* GitHub and the network.                                                 *)

(* GitHub sends a delivery, or sends it again: the id stays the same.  A   *)
(* request whose body was not signed with our secret may carry any id.     *)
Send(q) ==
    /\ sends < MaxSends
    /\ sends' = sends + 1
    /\ wire' = [wire EXCEPT ![q] = @ + 1]
    /\ UNCHANGED << payload, claimed, pc, serving, next, enqueued, failed, replies >>

Lose(q) ==
    /\ wire[q] > 0
    /\ wire' = [wire EXCEPT ![q] = @ - 1]
    /\ UNCHANGED << payload, sends, claimed, pc, serving, next, enqueued, failed, replies >>

-----------------------------------------------------------------------------
(* receive_webhook.                                                        *)

Reply(h, status) ==
    /\ pc' = [pc EXCEPT ![h] = "idle"]
    /\ replies' = [replies EXCEPT ![serving[h]] = @ \cup {status}]

(* Mutant: the delivery id is claimed before the signature is verified.    *)
ReceiveDedupFirst(h, q) ==
    /\ pc[h] = "idle"
    /\ wire[q] > 0
    /\ wire' = [wire EXCEPT ![q] = @ - 1]
    /\ IF q.signed
       THEN /\ pc' = [pc EXCEPT ![h] = "dedup"]
            /\ serving' = [serving EXCEPT ![h] = q.id]
            /\ UNCHANGED << claimed, replies >>
       ELSE /\ claimed' = claimed \cup ({q.id} \ {NoId})
            /\ replies' = [replies EXCEPT ![q.id] = @ \cup {"invalid signature"}]
            /\ UNCHANGED << pc, serving >>
    /\ UNCHANGED << payload, sends, next, enqueued, failed >>

(* A request arrives: read the raw body and verify it, before anything     *)
(* else is done with the request.                                          *)
Receive(h, q) ==
    /\ pc[h] = "idle"
    /\ wire[q] > 0
    /\ wire' = [wire EXCEPT ![q] = @ - 1]
    /\ IF q.signed
       THEN /\ pc' = [pc EXCEPT ![h] = "dedup"]
            /\ serving' = [serving EXCEPT ![h] = q.id]
            /\ UNCHANGED replies
       ELSE /\ replies' = [replies EXCEPT ![q.id] = @ \cup {"invalid signature"}]
            /\ UNCHANGED << pc, serving >>
    /\ UNCHANGED << payload, sends, claimed, next, enqueued, failed >>

(* dedup_delivery finds the key set: the delivery is dropped.              *)
DropDuplicate(h) ==
    /\ pc[h] = "dedup"
    /\ serving[h] \in claimed
    /\ Reply(h, "duplicate")
    /\ UNCHANGED << payload, sends, wire, claimed, serving, next, enqueued, failed >>

(* Mutant: SET without NX, every request believes it is the first.         *)
ClaimWithoutNX(h) ==
    /\ pc[h] = "dedup"
    /\ claimed' = claimed \cup ({serving[h]} \ {NoId})
    /\ pc' = [pc EXCEPT ![h] = "enqueue"]
    /\ next' = [next EXCEPT ![h] = 1]
    /\ UNCHANGED << payload, sends, wire, serving, enqueued, failed, replies >>

(* Mutant: a missing X-GitHub-Delivery header is deduplicated like an id.  *)
ClaimNoId(h) ==
    /\ pc[h] = "dedup"
    /\ serving[h] \notin claimed
    /\ claimed' = claimed \cup {serving[h]}
    /\ pc' = [pc EXCEPT ![h] = "enqueue"]
    /\ next' = [next EXCEPT ![h] = 1]
    /\ UNCHANGED << payload, sends, wire, serving, enqueued, failed, replies >>

(* The key is new, or there is no id to dedup on: claim, parse, dispatch.  *)
Claim(h) ==
    /\ pc[h] = "dedup"
    /\ serving[h] \notin claimed
    /\ claimed' = claimed \cup ({serving[h]} \ {NoId})
    /\ IF payload[serving[h]].installation
       THEN /\ pc' = [pc EXCEPT ![h] = "enqueue"]
            /\ next' = [next EXCEPT ![h] = 1]
            /\ UNCHANGED replies
       ELSE /\ Reply(h, "ignored")
            /\ UNCHANGED next
    /\ UNCHANGED << payload, sends, wire, serving, enqueued, failed >>

Enqueue(h) ==
    LET d == serving[h] IN
    /\ pc[h] = "enqueue"
    /\ next[h] <= Len(JobsOf(d))
    /\ enqueued' = [enqueued EXCEPT ![d] = Append(@, JobsOf(d)[next[h]])]
    /\ next' = [next EXCEPT ![h] = @ + 1]
    /\ UNCHANGED << payload, sends, wire, claimed, pc, serving, failed, replies >>

(* Mutant: answers before the last enqueue has been awaited.               *)
AcceptEarly(h) ==
    /\ pc[h] = "enqueue"
    /\ next[h] >= Len(JobsOf(serving[h]))
    /\ Reply(h, "accepted")
    /\ UNCHANGED << payload, sends, wire, claimed, serving, next, enqueued, failed >>

Accept(h) ==
    /\ pc[h] = "enqueue"
    /\ next[h] > Len(JobsOf(serving[h]))
    /\ Reply(h, "accepted")
    /\ UNCHANGED << payload, sends, wire, claimed, serving, next, enqueued, failed >>

(* The request dies between two of its awaits; GitHub sees a 500 or a      *)
(* dropped connection, Redis keeps what was written.                       *)
Die(h) ==
    /\ pc[h] # "idle"
    /\ pc' = [pc EXCEPT ![h] = "idle"]
    /\ failed' = failed \cup {serving[h]}
    /\ UNCHANGED << payload, sends, wire, claimed, serving, next, enqueued, replies >>

-----------------------------------------------------------------------------
(* Redis drops the key after DEDUP_TTL_SECONDS.  A request lasts seconds   *)
(* and the key 24 hours, so none that saw this key is still being served.  *)
(* The record of the delivery's window starts afresh with the next claim.  *)
Expire(d) ==
    /\ d \in claimed
    /\ \A h \in Handlers : pc[h] # "idle" => serving[h] # d
    /\ claimed' = claimed \ {d}
    /\ enqueued' = [enqueued EXCEPT ![d] = << >>]
    /\ failed' = failed \ {d}
    /\ replies' = [replies EXCEPT ![d] = {}]
    /\ UNCHANGED << payload, sends, wire, pc, serving, next >>

Work(h) ==
    \/ DropDuplicate(h)
    \/ Claim(h)
    \/ Enqueue(h)
    \/ Accept(h)

Next ==
    \/ \E q \in Requests : Send(q)
    \/ \E q \in Requests : Lose(q)
    \/ \E h \in Handlers, q \in Requests : Receive(h, q)
    \/ \E h \in Handlers : DropDuplicate(h)
    \/ \E h \in Handlers : Claim(h)
    \/ \E h \in Handlers : Enqueue(h)
    \/ \E h \in Handlers : Accept(h)
    \/ \E h \in Handlers : Die(h)
    \/ \E d \in Ids : Expire(d)

Spec == Init /\ [][Next]_vars

(* The event loop of the API keeps running every request it has accepted.  *)
FairSpec == Spec /\ \A h \in Handlers : WF_vars(Work(h))

-----------------------------------------------------------------------------
(* Properties.                                                             *)

(* However often a delivery arrives, and whatever dies half-way, the jobs  *)
(* enqueued for it while its dedup key lives are the first few of its plan,*)
(* in order and each once.                                                 *)
AtMostOncePerWindow ==
    \A d \in Ids :
        /\ Len(enqueued[d]) <= Len(JobsOf(d))
        /\ \A i \in 1 .. Len(enqueued[d]) : enqueued[d][i] = JobsOf(d)[i]

(* A delivery answered 202 "accepted" has every job of its plan on the     *)
(* queue: the answer is given after the last enqueue.                      *)
AcceptedIsComplete ==
    \A d \in Ids : "accepted" \in replies[d] => enqueued[d] = JobsOf(d)

(* A delivery is dropped as a duplicate only when another request has      *)
(* taken it over: that one enqueued all of the plan, is still at it, died  *)
(* on it, or found no installation to work for.  A request that fails      *)
(* verification never takes a delivery over.                               *)
DuplicateIsCovered ==
    \A d \in Ids : "duplicate" \in replies[d] =>
        \/ enqueued[d] = JobsOf(d)
        \/ \E h \in Handlers : pc[h] = "enqueue" /\ serving[h] = d
        \/ d \in failed
        \/ "ignored" \in replies[d]

(* A delivery whose key is claimed for an installation gets its whole plan *)
(* on the queue, unless a request dies on it or the key expires: no        *)
(* combination of duplicates leaves it half enqueued.                      *)
ClaimedIsEnqueued ==
    \A d \in Ids :
        (d \in claimed /\ payload[d].installation)
        ~> (enqueued[d] = JobsOf(d) \/ d \in failed \/ d \notin claimed)

=============================================================================
