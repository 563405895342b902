----------------------------- MODULE Reconciler -----------------------------
(***************************************************************************)
(* The reconcile jobs of one installation: worker/worker.py over the ARQ   *)
(* queue, with reconcile/runner.py and run_org_reconcile of                *)
(* reconcile/org.py reduced to the sections they apply.                    *)
(*                                                                         *)
(* The settings file goes through versions.  A job that runs loads the     *)
(* file once and then works through its sections, each read and, when it   *)
(* differs, written; jobs run concurrently, so a job may still be writing  *)
(* what an older version said.  The live value of a section is the version *)
(* that wrote it, or Foreign when a human did.                             *)
(*                                                                         *)
(* ARQ is external: a job leaves Redis when it ends, so a job cut off by a *)
(* crash of the worker runs again from its start, while one that raises or *)
(* exceeds job_timeout is not retried.  The scheduled job has max_tries=1. *)
(***************************************************************************)
EXTENDS Naturals, FiniteSets, Sequences

CONSTANTS
    Repos,            \* repositories the App is installed on
    Builtin,          \* the admin repo and ".github" (builtin_excludes)
    Archived,         \* archived repositories: not listed, and read-only
    Org,              \* the account itself as a target
    IsOrganization,   \* account_type(...) = "Organization"
    RepoTiers,        \* REPO_TIERS, the sequence of repository sections
    OrgBlocks,        \* the sequence of organization sections
    Echoing,          \* sections whose change sends a drift webhook
    Broken,           \* places GitHub always refuses to write
    MaxVersion,       \* bound: the last version of the settings file
    Restricted(_),    \* Restricted(v): repositories version v leaves out
    Configured(_, _), \* Configured(v, t): sections v declares for t after overlays
    Slots,            \* jobs ARQ runs at the same time (max_jobs)
    MaxCopies,        \* bound: waiting copies of one job told apart
    MaxDisturbances,  \* bound: edits, manual triggers, faults in one behaviour
    CronEnabled,      \* RECONCILE_CRON_MINUTES > 0
    Foreign,          \* the live value of a section somebody set by hand
    None              \* a slot that runs no job

Targets  == Repos \cup {Org}
Versions == 0 .. MaxVersion

SectionsOf(t) == IF t = Org THEN OrgBlocks ELSE RepoTiers

OwnSections(t) == {SectionsOf(t)[i] : i \in DOMAIN SectionsOf(t)}

AllSections == UNION {OwnSections(t) : t \in Targets}

Places == Targets \X AllSections

(* The jobs: one per target, the fan-out, and the scheduled job.           *)
Installation == "reconcile_installation"
All          == "reconcile_all_installations"
JobNames     == Targets \cup {Installation, All}

ASSUME TargetsAssumption ==
    /\ Org \notin Repos
    /\ Builtin \subseteq Repos
    /\ Installation \notin Targets /\ All \notin Targets
    /\ None \notin JobNames
ASSUME SectionsAssumption ==
    /\ RepoTiers \in Seq(AllSections)
    /\ OrgBlocks \in Seq(AllSections)
    /\ \A v \in Versions, t \in Targets : Configured(v, t) \subseteq OwnSections(t)
ASSUME BoundsAssumption ==
    /\ MaxVersion \in Nat
    /\ MaxCopies \in Nat \ {0}
    /\ MaxDisturbances \in Nat
    /\ Foreign \notin Versions
    /\ CronEnabled \in BOOLEAN
    /\ IsOrganization \in BOOLEAN
    /\ IsFiniteSet(Slots)

-----------------------------------------------------------------------------
(* Selection (reconcile/selection.py).                                     *)

is_managed(v, r) == r \notin Builtin /\ r \notin Restricted(v)

(* Version v has an organization block.                                    *)
HasOrgBlock(v) == Configured(v, Org) # {}

(* The block is applied to organizations only.                             *)
Selected(v, t) ==
    IF t = Org THEN HasOrgBlock(v) /\ IsOrganization ELSE is_managed(v, t)

(* Some repository tier or overlay is declared: there is repository work.  *)
HasRepoWork(v) == \E r \in Repos : Configured(v, r) # {}

(* What version v manages on target t.                                     *)
Declares(v, t) == IF Selected(v, t) THEN Configured(v, t) ELSE {}

-----------------------------------------------------------------------------
VARIABLES
    version,      \* version of the settings file on the default branch
    live,         \* [Places -> Versions \cup {Foreign}]
    webhooks,     \* jobs whose webhooks GitHub has sent and we have not received
    queued,       \* [JobNames -> 0 .. MaxCopies]: jobs waiting in Redis
    job,          \* [Slots -> JobNames \cup {None}]: the job each slot runs
    step,         \* where in its function each running job is
    loaded,       \* the version each running job has loaded
    todo,         \* fan-out: jobs still to be enqueued
    at,           \* sections: index of the section the job is at
    disturbances  \* disturbances so far

vars == << version, live, webhooks, queued, job, step, loaded, todo, at, disturbances >>
slotVars == << job, step, loaded, todo, at >>

TypeOK ==
    /\ version \in Versions
    /\ live \in [Places -> Versions \cup {Foreign}]
    /\ webhooks \subseteq JobNames
    /\ queued \in [JobNames -> 0 .. MaxCopies]
    /\ job \in [Slots -> JobNames \cup {None}]
    /\ step \in [Slots -> {"load", "org", "list", "fan", "read", "write"}]
    /\ loaded \in [Slots -> Versions]
    /\ todo \in [Slots -> SUBSET JobNames]
    /\ at \in [Slots -> Nat \ {0}]
    /\ \A w \in Slots : job[w] = None => step[w] = "load"
    /\ disturbances \in 0 .. MaxDisturbances

Init ==
    /\ version = 0
    /\ live = [p \in Places |-> Foreign]
    /\ webhooks = {}
    /\ queued = [j \in JobNames |-> 0]
    /\ job = [w \in Slots |-> None]
    /\ step = [w \in Slots |-> "load"]
    /\ loaded = [w \in Slots |-> 0]
    /\ todo = [w \in Slots |-> {}]
    /\ at = [w \in Slots |-> 1]
    /\ disturbances = 0

-----------------------------------------------------------------------------
(* The queue.  Copies of a waiting job past MaxCopies are not told apart.  *)

Capped(n) == IF n > MaxCopies THEN MaxCopies ELSE n

Enqueued(j) == [queued EXCEPT ![j] = Capped(@ + 1)]

Disturb ==
    /\ disturbances < MaxDisturbances
    /\ disturbances' = disturbances + 1

-----------------------------------------------------------------------------
(* The account: its administrators and GitHub.                             *)

(* A change of the settings file is merged to the admin repo's default     *)
(* branch; GitHub sends a push webhook.                                    *)
Merge ==
    /\ version < MaxVersion
    /\ version' = version + 1
    /\ webhooks' = webhooks \cup {Installation}
    /\ UNCHANGED << live, queued, slotVars, disturbances >>

(* The webhook GitHub sends for a change of section s of target t, if any. *)
Echo(t, s) == IF s \in Echoing THEN {t} ELSE {}

(* Somebody changes a section by hand.                                     *)
Edit(t, s) ==
    /\ Disturb
    /\ live' = [live EXCEPT ![<< t, s >>] = Foreign]
    /\ webhooks' = webhooks \cup Echo(t, s)
    /\ UNCHANGED << version, queued, slotVars >>

(* A webhook arrives and its job is enqueued (module Ingest).              *)
Deliver(j) ==
    /\ j \in webhooks
    /\ webhooks' = webhooks \ {j}
    /\ queued' = Enqueued(j)
    /\ UNCHANGED << version, live, slotVars, disturbances >>

(* A webhook is lost: not delivered, or dropped by a failure of the ingest.*)
LoseWebhook(j) ==
    /\ j \in webhooks
    /\ Disturb
    /\ webhooks' = webhooks \ {j}
    /\ UNCHANGED << version, live, queued, slotVars >>

(* POST /reconcile with the manual trigger's token.                        *)
trigger_reconcile ==
    /\ Disturb
    /\ queued' = Enqueued(Installation)
    /\ UNCHANGED << version, live, webhooks, slotVars >>

(* The cron of _cron_jobs comes round.                                     *)
CronTick ==
    /\ CronEnabled
    /\ queued' = Enqueued(All)
    /\ UNCHANGED << version, live, webhooks, slotVars, disturbances >>

-----------------------------------------------------------------------------
(* A slot of the worker.                                                   *)

Start(w, j) ==
    /\ job[w] = None
    /\ queued[j] > 0
    /\ queued' = [queued EXCEPT ![j] = @ - 1]
    /\ job' = [job EXCEPT ![w] = j]
    /\ UNCHANGED << version, live, webhooks, step, loaded, todo, at, disturbances >>

(* Mutant: the next job of the slot goes on where the last one stopped.    *)
ReleaseInPlace(w) ==
    /\ job' = [job EXCEPT ![w] = None]
    /\ UNCHANGED << step, loaded, todo, at >>

(* The slot is free again; what the job knew is forgotten.                 *)
Release(w) ==
    /\ job' = [job EXCEPT ![w] = None]
    /\ step' = [step EXCEPT ![w] = "load"]
    /\ loaded' = [loaded EXCEPT ![w] = 0]
    /\ todo' = [todo EXCEPT ![w] = {}]
    /\ at' = [at EXCEPT ![w] = 1]

GoTo(w, s) == step' = [step EXCEPT ![w] = s]

(* reconcile_all_installations lists the installations: this one.          *)
ListInstallations(w) ==
    /\ job[w] = All /\ step[w] = "load"
    /\ todo' = [todo EXCEPT ![w] = {Installation}]
    /\ GoTo(w, "fan")
    /\ UNCHANGED << version, live, webhooks, queued, job, loaded, at, disturbances >>

(* load_admin_config in reconcile_installation.                            *)
LoadInstallation(w) ==
    /\ job[w] = Installation /\ step[w] = "load"
    /\ loaded' = [loaded EXCEPT ![w] = version]
    /\ GoTo(w, "org")
    /\ UNCHANGED << version, live, webhooks, queued, job, todo, at, disturbances >>

(* Mutant: the early return for no repository work comes first.            *)
EnqueueOrgLate(w) ==
    /\ job[w] = Installation /\ step[w] = "org"
    /\ IF HasRepoWork(loaded[w])
       THEN /\ queued' = IF HasOrgBlock(loaded[w]) THEN Enqueued(Org) ELSE queued
            /\ GoTo(w, "list")
            /\ UNCHANGED << job, loaded, todo, at >>
       ELSE Release(w) /\ UNCHANGED queued
    /\ UNCHANGED << version, live, webhooks, disturbances >>

(* reconcile_org is enqueued when an organization block is declared; the   *)
(* job ends here when there is no repository work.                         *)
EnqueueOrg(w) ==
    /\ job[w] = Installation /\ step[w] = "org"
    /\ queued' = IF HasOrgBlock(loaded[w]) THEN Enqueued(Org) ELSE queued
    /\ IF HasRepoWork(loaded[w])
       THEN GoTo(w, "list") /\ UNCHANGED << job, loaded, todo, at >>
       ELSE Release(w)
    /\ UNCHANGED << version, live, webhooks, disturbances >>

(* list_target_repos and select_targets.                                   *)
ListRepos(w) ==
    /\ job[w] = Installation /\ step[w] = "list"
    /\ todo' = [todo EXCEPT ![w] = {r \in Repos \ Archived : is_managed(loaded[w], r)}]
    /\ GoTo(w, "fan")
    /\ UNCHANGED << version, live, webhooks, queued, job, loaded, at, disturbances >>

(* One enqueue of a fan-out.                                               *)
FanOut(w, j) ==
    /\ step[w] = "fan"
    /\ j \in todo[w]
    /\ queued' = Enqueued(j)
    /\ todo' = [todo EXCEPT ![w] = @ \ {j}]
    /\ UNCHANGED << version, live, webhooks, job, step, loaded, at, disturbances >>

FanOutDone(w) ==
    /\ step[w] = "fan"
    /\ todo[w] = {}
    /\ Release(w)
    /\ UNCHANGED << version, live, webhooks, queued, disturbances >>

(* Mutant: a single-repository job trusts its caller and skips select_targets. *)
LoadTargetUnselected(w) ==
    /\ job[w] \in Targets /\ step[w] = "load"
    /\ loaded' = [loaded EXCEPT ![w] = version]
    /\ GoTo(w, "read")
    /\ UNCHANGED << version, live, webhooks, queued, job, todo, at, disturbances >>

(* load_admin_config in run_reconcile and run_org_reconcile: the job loads *)
(* the file itself, whatever the version was when it was enqueued, and     *)
(* ends when the target is not selected by it.                             *)
LoadTarget(w) ==
    /\ job[w] \in Targets /\ step[w] = "load"
    /\ IF Selected(version, job[w])
       THEN /\ loaded' = [loaded EXCEPT ![w] = version]
            /\ GoTo(w, "read")
            /\ UNCHANGED << job, todo, at >>
       ELSE Release(w)
    /\ UNCHANGED << version, live, webhooks, queued, disturbances >>

Section(w) == SectionsOf(job[w])[at[w]]
Here(w)    == << job[w], Section(w) >>

MoreSections(w) == at[w] <= Len(SectionsOf(job[w]))

NextSection(w) ==
    /\ at' = [at EXCEPT ![w] = @ + 1]
    /\ GoTo(w, "read")
    /\ UNCHANGED << job, loaded, todo >>

(* Mutant: the section is not compared before it is written.               *)
ReadSectionBlind(w) ==
    /\ job[w] \in Targets /\ step[w] = "read"
    /\ MoreSections(w)
    /\ IF Section(w) \in Configured(loaded[w], job[w])
       THEN GoTo(w, "write") /\ UNCHANGED << job, loaded, todo, at >>
       ELSE NextSection(w)
    /\ UNCHANGED << version, live, webhooks, queued, disturbances >>

(* Mutant: a section runs although the file does not declare it.           *)
ReadSectionUndeclared(w) ==
    /\ job[w] \in Targets /\ step[w] = "read"
    /\ MoreSections(w)
    /\ IF live[Here(w)] # loaded[w]
       THEN GoTo(w, "write") /\ UNCHANGED << job, loaded, todo, at >>
       ELSE NextSection(w)
    /\ UNCHANGED << version, live, webhooks, queued, disturbances >>

(* A section is read and compared; nothing to do when it is not configured *)
(* or does not differ.                                                     *)
ReadSection(w) ==
    /\ job[w] \in Targets /\ step[w] = "read"
    /\ MoreSections(w)
    /\ IF Section(w) \in Configured(loaded[w], job[w]) /\ live[Here(w)] # loaded[w]
       THEN GoTo(w, "write") /\ UNCHANGED << job, loaded, todo, at >>
       ELSE NextSection(w)
    /\ UNCHANGED << version, live, webhooks, queued, disturbances >>

(* The write the comparison asked for, done whatever has happened since.   *)
WriteSection(w) ==
    /\ job[w] \in Targets /\ step[w] = "write"
    /\ Here(w) \notin Broken
    /\ live' = [live EXCEPT ![Here(w)] = loaded[w]]
    /\ webhooks' = webhooks \cup Echo(job[w], Section(w))
    /\ NextSection(w)
    /\ UNCHANGED << version, queued, disturbances >>

(* Mutant: a tier that raises ends the run.                                *)
SectionRaisesUnisolated(w) == Release(w)

(* A section raises: the runner isolates it, run_org_reconcile ends.       *)
SectionRaises(w) ==
    IF job[w] = Org THEN Release(w) ELSE NextSection(w)

(* GitHub refuses the write, as it always does for this place.             *)
WriteRefused(w) ==
    /\ job[w] \in Targets /\ step[w] = "write"
    /\ Here(w) \in Broken
    /\ SectionRaises(w)
    /\ UNCHANGED << version, live, webhooks, queued, disturbances >>

(* A passing failure of a read or a write.                                 *)
SectionFails(w) ==
    /\ job[w] \in Targets /\ step[w] \in {"read", "write"}
    /\ MoreSections(w)
    /\ Disturb
    /\ SectionRaises(w)
    /\ UNCHANGED << version, live, webhooks, queued >>

SectionsDone(w) ==
    /\ job[w] \in Targets /\ step[w] = "read"
    /\ ~MoreSections(w)
    /\ Release(w)
    /\ UNCHANGED << version, live, webhooks, queued, disturbances >>

(* The job raises outside the runner's isolation (the settings file does   *)
(* not load, an enqueue fails) or exceeds job_timeout: it ends for good.   *)
JobFails(w) ==
    /\ job[w] # None
    /\ Disturb
    /\ Release(w)
    /\ UNCHANGED << version, live, webhooks, queued >>

(* The worker process dies and is restarted: the jobs it was running are   *)
(* still in Redis and run again, except the scheduled one (max_tries=1).   *)
Crash ==
    /\ Disturb
    /\ queued' = [j \in JobNames |->
                    IF j = All THEN queued[j]
                    ELSE Capped(queued[j] + Cardinality({w \in Slots : job[w] = j}))]
    /\ job' = [w \in Slots |-> None]
    /\ step' = [w \in Slots |-> "load"]
    /\ loaded' = [w \in Slots |-> 0]
    /\ todo' = [w \in Slots |-> {}]
    /\ at' = [w \in Slots |-> 1]
    /\ UNCHANGED << version, live, webhooks >>

-----------------------------------------------------------------------------
(* The steps a running job takes when nothing fails.                       *)
Progress(w) ==
    \/ ListInstallations(w)
    \/ LoadInstallation(w)
    \/ EnqueueOrg(w)
    \/ ListRepos(w)
    \/ \E j \in JobNames : FanOut(w, j)
    \/ FanOutDone(w)
    \/ LoadTarget(w)
    \/ ReadSection(w)
    \/ WriteSection(w)
    \/ WriteRefused(w)
    \/ SectionsDone(w)

Next ==
    \/ Merge
    \/ \E t \in Targets : \E s \in OwnSections(t) : Edit(t, s)
    \/ \E j \in JobNames : Deliver(j)
    \/ \E j \in JobNames : LoseWebhook(j)
    \/ trigger_reconcile
    \/ CronTick
    \/ \E w \in Slots, j \in JobNames : Start(w, j)
    \/ \E w \in Slots : Progress(w)
    \/ \E w \in Slots : SectionFails(w)
    \/ \E w \in Slots : JobFails(w)
    \/ Crash

Spec == Init /\ [][Next]_vars

(* The event loop runs every job it has started; the queue is a sorted set *)
(* by enqueue time, so a waiting job is not overtaken for ever (SF, other  *)
(* jobs may keep the slots busy meanwhile); GitHub delivers what it does   *)
(* not lose; the cron comes round again and again.                         *)
Fairness ==
    /\ \A w \in Slots : WF_vars(Progress(w))
    /\ \A j \in JobNames : SF_vars(\E w \in Slots : Start(w, j))
    /\ \A j \in JobNames : WF_vars(Deliver(j))
    /\ WF_vars(CronTick)

FairSpec == Spec /\ Fairness

-----------------------------------------------------------------------------
(* Properties.                                                             *)

(* Whatever the jobs overlap with, a section holds a value Caldrith wrote  *)
(* only if a merged version declares it for that target: never a section   *)
(* of the admin repo or .github, never one of a repository the version     *)
(* leaves out, never a version that is not merged.                         *)
OnlyDeclared ==
    \A p \in Places : live[p] # Foreign =>
        /\ live[p] <= version
        /\ p[2] \in Declares(live[p], p[1])

(* A place the sections before it do not keep from being written: in the   *)
(* organization the first refused block ends the job, in a repository a    *)
(* refused tier stops nothing but itself.                                  *)
Writable(t, s) ==
    /\ << t, s >> \notin Broken
    /\ t = Org => \A i, k \in DOMAIN OrgBlocks :
         (i < k /\ OrgBlocks[k] = s /\ OrgBlocks[i] \in Configured(version, Org))
         => << Org, OrgBlocks[i] >> \notin Broken

(* Every section the newest version declares, on every target it manages,  *)
(* holds that version.                                                     *)
InForce ==
    \A t \in Targets \ Archived : \A s \in Declares(version, t) :
        Writable(t, s) => live[<< t, s >>] = version

(* With the cron enabled the account always ends up as the last merged     *)
(* version says, once people stop changing it: lost webhooks, crashes,     *)
(* failed jobs, stale jobs and refused sections do not strand anything.    *)
Converges == <>[]InForce

(* With the cron disabled the jobs and the webhooks their own writes cause *)
(* die out: "so drift events do not loop" (README, webhooks.py).           *)
Quiet ==
    /\ webhooks = {}
    /\ \A j \in JobNames : queued[j] = 0
    /\ \A w \in Slots : job[w] = None

EchoesDieOut == <>[]Quiet

(* Reconciler does nothing to an account that Enforcement does not allow.  *)
Promise == INSTANCE Enforcement WITH Sections <- AllSections
Implements == Promise!Spec
=============================================================================
