------------------------------- MODULE Runner -------------------------------
(***************************************************************************)
(* The runs of one account over proposed and merged configurations         *)
(* (run_reconcile of reconcile/runner.py, and the jobs that lead to it).   *)
(*                                                                         *)
(* A commit of a pull request on the admin repo is dry-run; a merged one   *)
(* becomes the configuration of the default branch and is fanned out.  The *)
(* settings of a repository are compared and written in one step here, and *)
(* the fan-out enqueues in one (Reconciler takes both apart); deliveries   *)
(* are neither lost nor doubled (see Ingest).  GitHub and ARQ are external:*)
(* a job cut off by a crash runs again from its start.                     *)
(***************************************************************************)
EXTENDS Naturals, Sequences, FiniteSets

CONSTANTS
    Repos, Builtin,   \* repositories; those never managed, the admin repo included
    AdminRepo,
    Unknown,
    Visibility,       \* [Repos -> what GitHub says of it]
    Configs,          \* configurations of the settings file
    Initial,          \* the live settings of a repository at first
    Slots,            \* jobs the worker runs at the same time
    MaxVersions,      \* bound: commits on the default branch
    MaxProposals,     \* bound: commits that are proposed
    MaxDisturbances,  \* bound: edits by hand, failed calls and crashes in one behaviour
    None

INSTANCE Overlays

ASSUME ReposAssumption ==
    AdminRepo \in Builtin /\ Builtin \subseteq Repos /\ Unknown \notin {Visibility[r] : r \in Repos}

ASSUME ConfigsAssumption == \A c \in Configs : SafeSettingsConfig(c)
ASSUME BoundsAssumption ==
    {MaxVersions, MaxProposals, MaxDisturbances} \subseteq Nat /\ MaxVersions > 0

VARIABLES
    history,      \* the configurations of the default branch
    proposed,     \* the configurations of the commits of pull requests
    checks,       \* the proposed commits that have a check run
    queue,        \* jobs waiting
    slot,         \* [Slots -> the job each runs, where it is, what it has read]
    live,         \* [Repos -> settings of each tier]
    dropped,      \* history: the proposed commits whose dry run a failed call has ended
    disturbances

vars == << history, proposed, checks, queue, slot, live, dropped, disturbances >>

(* The jobs.  A reconcile_repo with a head is a dry run for that commit.   *)
RepoJob(r) == [name |-> "reconcile_repo", repo |-> r, head |-> None]
DryRun(k) == [name |-> "reconcile_repo", repo |-> AdminRepo, head |-> k]
Installation == [name |-> "reconcile_installation"]

(* Those there can be while n commits are proposed.                        *)
Jobs(n) ==
    {Installation} \cup {RepoJob(r) : r \in Repos} \cup {DryRun(k) : k \in 1 .. n}

ASSUME NoneAssumption ==
    None \notin Configs /\ None \notin Jobs(MaxProposals) /\ None \notin 1 .. MaxProposals

Idle == [job |-> None, at |-> "start", cfg |-> None, todo |-> {}, changed |-> FALSE]

Disturb == disturbances < MaxDisturbances /\ disturbances' = disturbances + 1

End(w) == slot' = [slot EXCEPT ![w] = Idle]

-----------------------------------------------------------------------------
TypeOK ==
    /\ history \in Seq(Configs) /\ Len(history) \in 1 .. MaxVersions
    /\ proposed \in Seq(Configs) /\ Len(proposed) <= MaxProposals
    /\ checks \subseteq DOMAIN proposed
    /\ queue \subseteq Jobs(Len(proposed))
    /\ slot \in [Slots -> [job : Jobs(Len(proposed)) \cup {None}, at : {"start", "apply"},
                           cfg : Configs \cup {None}, todo : SUBSET Repos, changed : BOOLEAN]]
    /\ \A w \in Slots : slot[w].at = "apply" <=> slot[w].cfg \in Configs
    /\ dropped \subseteq DOMAIN proposed
    /\ disturbances \in 0 .. MaxDisturbances

Init ==
    /\ \E c \in Configs : history = << c >>
    /\ proposed = << >>
    /\ checks = {}
    /\ queue = {}
    /\ slot = [w \in Slots |-> Idle]
    /\ live = [r \in Repos |-> Initial]
    /\ dropped = {}
    /\ disturbances = 0

-----------------------------------------------------------------------------
(* What happens in the account is delivered and classified at once         *)
(* (api/webhooks.py).                                                      *)

(* A pull request is opened on the admin repo, or pushed to.               *)
Propose(c) ==
    /\ Len(proposed) < MaxProposals
    /\ proposed' = Append(proposed, c)
    /\ queue' = queue \cup {DryRun(Len(proposed) + 1)}
    /\ UNCHANGED << history, checks, slot, live, dropped, disturbances >>

(* A proposed commit is merged, whether its check is there or not.         *)
Merge(k) ==
    /\ Len(history) < MaxVersions
    /\ history' = Append(history, proposed[k])
    /\ queue' = queue \cup {Installation}
    /\ UNCHANGED << proposed, checks, slot, live, dropped, disturbances >>

(* A repository, the admin repo perhaps, is edited, or drifts.             *)
RepositoryEvent(r) ==
    /\ Disturb
    /\ live' \in {live, [live EXCEPT ![r] = Initial]}
    /\ queue' = queue \cup {RepoJob(r)}
    /\ UNCHANGED << history, proposed, checks, slot, dropped >>

-----------------------------------------------------------------------------
(* The jobs.                                                               *)

IsAt(w, name, at) == slot[w].job # None /\ slot[w].job.name = name /\ slot[w].at = at

Take(w, j) ==
    /\ slot[w].job = None
    /\ j \in queue
    /\ queue' = queue \ {j}
    /\ slot' = [slot EXCEPT ![w].job = j]
    /\ UNCHANGED << history, proposed, checks, live, dropped, disturbances >>

(* reconcile_installation: a job for every repository that is selected.    *)
FanOut(w) ==
    /\ IsAt(w, "reconcile_installation", "start")
    /\ LET c == history[Len(history)] IN
       queue' = IF HasRepoWork(c) THEN queue \cup {RepoJob(r) : r \in select_targets(c, Repos)}
                ELSE queue
    /\ End(w)
    /\ UNCHANGED << history, proposed, checks, live, dropped, disturbances >>

IsDryRun(w) == slot[w].job.head # None

(* Mutant: once something is proposed, every run reads it.                 *)
LoadedLatest(w) ==
    IF proposed # << >> THEN proposed[Len(proposed)] ELSE history[Len(history)]

(* A dry run reads the proposed file, any other run the merged one.        *)
Loaded(w) ==
    IF IsDryRun(w) THEN proposed[slot[w].job.head] ELSE history[Len(history)]

(* The repository of the job, unless it is not to be managed.              *)
TargetsOf(c, r) == select_targets(c, {r})

(* Mutant: the configuration is not kept, each tier is to read it again.   *)
LoadForgetful(w) ==
    /\ IsAt(w, "reconcile_repo", "start")
    /\ slot' = [slot EXCEPT ![w].at = "apply",
                            ![w].todo = TargetsOf(Loaded(w), slot[w].job.repo)]
    /\ UNCHANGED << history, proposed, checks, queue, live, dropped, disturbances >>

Load(w) ==
    /\ IsAt(w, "reconcile_repo", "start")
    /\ LET c == Loaded(w) IN
       IF HasRepoWork(c)
       THEN slot' = [slot EXCEPT ![w].at = "apply", ![w].cfg = c,
                                 ![w].todo = TargetsOf(c, slot[w].job.repo)]
       ELSE End(w)
    /\ UNCHANGED << history, proposed, checks, queue, live, dropped, disturbances >>

(* The visibility is not asked for when the repository was given.          *)
Desired(c, r) == Effective(c, r, Unknown)

(* Every configured tier is compared and, but for a dry run, written.      *)
Apply(w) ==
    /\ IsAt(w, "reconcile_repo", "apply")
    /\ \E r \in slot[w].todo :
         LET want == MergeLayer(live[r], Desired(slot[w].cfg, r)) IN
         /\ slot' = [slot EXCEPT ![w].todo = @ \ {r}, ![w].changed = @ \/ want # live[r]]
         /\ live' = IF IsDryRun(w) THEN live ELSE [live EXCEPT ![r] = want]
    /\ UNCHANGED << history, proposed, checks, queue, dropped, disturbances >>

(* Mutant: without a change there is no check.                             *)
PostChanges(w) ==
    /\ IsAt(w, "reconcile_repo", "apply")
    /\ slot[w].todo = {}
    /\ checks' = IF IsDryRun(w) /\ slot[w].changed THEN checks \cup {slot[w].job.head}
                 ELSE checks
    /\ End(w)
    /\ UNCHANGED << history, proposed, queue, live, dropped, disturbances >>

(* The check of a dry run says whether anything would change.              *)
Post(w) ==
    /\ IsAt(w, "reconcile_repo", "apply")
    /\ slot[w].todo = {}
    /\ checks' = IF IsDryRun(w) THEN checks \cup {slot[w].job.head} ELSE checks
    /\ End(w)
    /\ UNCHANGED << history, proposed, queue, live, dropped, disturbances >>

(* A call outside the tiers raises, and the job is not tried again; or the *)
(* worker dies, and it runs again from its start.                          *)
Fail(w) ==
    /\ slot[w].job # None
    /\ Disturb
    /\ queue' \in {queue, queue \cup {slot[w].job}}
    /\ dropped' = dropped \cup
         {k \in DOMAIN proposed : slot[w].job = DryRun(k) /\ DryRun(k) \notin queue'}
    /\ End(w)
    /\ UNCHANGED << history, proposed, checks, live >>

Next ==
    \/ \E c \in Configs : Propose(c)
    \/ \E k \in DOMAIN proposed : Merge(k)
    \/ \E r \in Repos : RepositoryEvent(r)
    \/ \E w \in Slots, j \in queue : Take(w, j)
    \/ \E w \in Slots : FanOut(w) \/ Load(w) \/ Apply(w) \/ Post(w) \/ Fail(w)

Spec == Init /\ [][Next]_vars

-----------------------------------------------------------------------------
(* Properties.                                                             *)

(* The repositories a suborg takes in (docs, configuration.md:1303-1333).  *)
InSubOrg(o, r) ==
    /\ {o.match, o.visibility} # {{}}
    /\ r \in o.match \/ o.match = {}
    /\ Visibility[r] \in o.visibility \/ o.visibility = {}

(* What speaks for repository r, with its rank: the last of the highest    *)
(* rank that says something about a tier decides.                          *)
Voices(c, r) ==
    {<< 0, 0, c.base >>}
      \cup {<< 1, i, c.suborgs[i].tiers >> : i \in {j \in DOMAIN c.suborgs : InSubOrg(c.suborgs[j], r)}}
      \cup {<< 2, i, c.repos[i].tiers >> : i \in {j \in DOMAIN c.repos : r \in c.repos[j].match}}

Decisive(voices) ==
    CHOOSE a \in voices :
        \A b \in voices : a[1] > b[1] \/ (a[1] = b[1] /\ a[2] >= b[2])

(* The settings s have what configuration c asks of repository r.          *)
AsDeclared(c, r, s) ==
    /\ \A t \in DOMAIN s \ {"repository"} :
         LET voices == {a \in Voices(c, r) : t \in DOMAIN a[3]} IN
         voices # {} => s[t] = Decisive(voices)[3][t]
    /\ \A f \in DOMAIN s["repository"] :
         LET voices == {a \in Voices(c, r) : "repository" \in DOMAIN a[3]
                                             /\ f \in DOMAIN a[3]["repository"]}
         IN  voices # {} => s["repository"][f] = Decisive(voices)[3]["repository"][f]

(* A repository has, right after a run for it, what base and overlays ask  *)
(* for it, the most specific winning (overlay.py:3-13).                    *)
AppliedAsDeclared ==
    [][\A w \in Slots, r \in Repos :
         Apply(w) /\ ~IsDryRun(w) /\ r \in slot[w].todo /\ r \notin slot'[w].todo =>
            AsDeclared(slot[w].cfg, r, live'[r])]_vars

(* Nothing that was only proposed reaches a repository, and nothing at all *)
(* the admin repo: what a run writes is what some merged configuration     *)
(* asks for, of a repository it manages.                                   *)
OnlyMerged ==
    [][\A w \in Slots, r \in Repos : Apply(w) /\ live'[r] # live[r] =>
         \E i \in DOMAIN history :
            r \notin Builtin /\ is_managed(history[i], r) /\ AsDeclared(history[i], r, live'[r])]_vars

(* Each proposed commit has its check or a dry run that will post it, even *)
(* if nothing would change, whatever else happens meanwhile; but for one   *)
(* whose own dry run a failed call has ended, which nothing retries, and   *)
(* one whose file has neither a repository tier nor an overlay             *)
(* (runner.py:187-191 ends its run before the check).  An organization     *)
(* block does not count there: a proposal of that alone has no check,      *)
(* though configuration.md:34-38 speaks of every pull request.             *)
NoProposalForgotten ==
    \A k \in DOMAIN proposed :
        \/ k \in checks
        \/ DryRun(k) \in queue \cup {slot[w].job : w \in Slots}
        \/ k \in dropped
        \/ ~HasRepoWork(proposed[k])

(* The check of a dry run "summarising the pending changes"                *)
(* (configuration.md:34-38) reports none only if merging the commit would  *)
(* change no repository.                                                   *)
ChecksTellTheTruth ==
    [][\A w \in Slots :
         Post(w) /\ IsDryRun(w) /\ ~slot[w].changed =>
            \A r \in select_targets(slot[w].cfg, Repos) : AsDeclared(slot[w].cfg, r, live[r])]_vars
=============================================================================
