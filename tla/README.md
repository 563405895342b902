# Caldrith: a formal model

Caldrith is a GitHub App that keeps the repositories and the organization of an account as one
settings file in an *admin repository* says. This directory holds TLA+ modules that model it, TLC
configurations that check them on small instances, and proofs checked by TLAPS for every instance.
Source paths below are relative to `src/src/caldrith/`.

## 1. The system

| Component | Source | State | Operations |
|---|---|---|---|
| Webhook ingest | `api/webhooks.py`, `worker/queue.py` | dedup keys in Redis (24 h) | verify, dedup, dispatch per event, enqueue one to two jobs |
| Manual trigger | `api/reconcile.py` | none | authenticate, enqueue one job per installation |
| Queue | ARQ over Redis (external) | waiting and running jobs | enqueue, start, rerun after a crash; no retry after an exception or a timeout |
| Worker | `worker/worker.py`, `worker/installations.py` | none between jobs | fan-out over installations and repositories, single-repository and organization jobs, cron |
| Runner | `reconcile/runner.py` | loaded config, results | load, select, tier loop with isolation, check run |
| Selection and overlay | `reconcile/selection.py`, `planner.py`, `overlay.py` | none (pure) | which repositories are managed, with which config |
| Tiers | `reconcile/*.py` | live settings on GitHub | read, compare, write what differs |
| Managed files | `reconcile/files.py` | a branch and a pull request per base branch | stage, prune, close, open |
| Pull request sweep | `reconcile/pr_update.py` | open pull requests | update branches that are behind |
| Organization | `reconcile/org.py` | live organization settings | blocks in order, not isolated |
| Comparison | `config/diff.py` | none (pure) | the fields that differ |
| Config | `config/loader.py`, `config/schema.py` | none | load at a ref, parse, validate |
| Rate limiter, verification, audit, auth | `api/ratelimit.py`, `api/security.py`, `audit/`, `auth/` | counters | per-request checks |

**How they interact.** The API process writes Redis (a dedup key, then jobs); the worker process takes
jobs from Redis, calls GitHub, and enqueues more jobs. GitHub answers writes with webhooks of its own,
which come back to the API. Nothing is shared between jobs but GitHub itself and the queue: no lock, no
job id, no version is kept, so two jobs of one repository may run side by side with different versions
of the settings file.

**What is hard.** Redelivered and concurrent deliveries; a request that dies between its Redis calls; a
job that writes what an older file said; a worker that dies inside a job; a tier that fails in the
middle; webhooks that are lost; echoes of Caldrith's own writes; reads that are stale when they are
acted on (branches, pull requests, pins); list calls that see one page. `PROJECT.json` lists each at
its line under `hazards`.

**What makes each component correct.**

- *Ingest*: every planned job is enqueued at most once per delivery, an accepted delivery is complete, a
  dropped one was taken over by somebody.
- *Worker and runner*: only what a merged file declares for a target is written to that target, whatever
  overlaps; with the cron on, the account ends up as the last merged file says; echoes die out. Base,
  suborgs and overrides give a repository one configuration, the most specific winning; nothing that was
  only proposed is written, and no proposed commit with work for repositories is forgotten by other runs.
- *Managed files*: the pull request proposes the required files and nothing else, never an older pin,
  never the removal of a repository's own file; a second run changes nothing; crashes are healed.
- *Tiers and organization blocks*: a run that finds no drift writes nothing, a run that wrote leaves no
  drift, a run that nobody disturbs is refused nothing (its requests come in an order GitHub
  accepts), and what is not declared is left as it was. Two tiers fall short of this, each in one case
  that its property names: environments that declare a rule off, and code scanning where there is no
  default setup (section 5).
- *Pull request sweep*: one pull request that cannot be updated does not hold up the others, and each
  open one ends up with the last of the default branch.

## 2. Modules

| Module | Models | Used by |
|---|---|---|
| `Ingest` | deliveries, verification, dedup, dispatch, enqueue | `MCIngest`, `IngestProofs` |
| `Enforcement` | the promise: what may ever happen to an account | `Reconciler`, `ReconcilerProofs` |
| `Reconciler` | queue, jobs, fan-out, sections in order, crashes, cron | `MCReconciler`, `ReconcilerProofs` |
| `Overlays` | selection and overlays as operators | `Runner` |
| `Runner` | proposed and merged configurations, dry runs, checks, overlapping runs | `MCRunner`, `RunnerProofs` |
| `Sweep` | the sweep over the open pull requests of the admin repo | `MCSweep`, `SweepProofs` |
| `ManagedFiles` | the files tier: base branch, managed branch, pull request | `MCManagedFiles`, `ManagedFilesProofs` |
| `Collections` | the ten tiers that keep a named collection | `MCCollections`, `CollectionsProofs` |
| `SettingsTiers` | what the eleven tiers that keep settings decide from what they read | `Settings` |
| `BranchProtection`, `Rulesets` | the same for protected branches and for rulesets | `Settings` |
| `Settings` | the runs of all these tiers, of repositories and of the organization | `MCSettings`, `SettingsProofs` |

The modules are layers of one system and meet at named points. A delivery that `Ingest` accepts puts jobs
on the queue; in `Reconciler` that is the action `Deliver`, and a delivery the ingest loses is
`LoseWebhook`. A job of `Reconciler` goes through *sections* (tiers, organization blocks), each read and
then written as a whole; `ManagedFiles`, `Collections` and `Settings` open one section up into its calls to
GitHub. `Runner` takes the content of the settings file apart, which in `Reconciler` is a version number:
the overlays it has, and the configurations that are only proposed. `Sweep` is the job `update_admin_prs`,
which `Ingest` puts on the queue next to the fan-out. `Enforcement` is what is left when queue and jobs are
hidden, and `Reconciler` implements it.

**How state and actions correspond to the code.**

- *Ingest*. `claimed` is the set of dedup keys in Redis, `enqueued` what was put on the ARQ queue for a
  delivery, `pc`, `serving` and `next` the coroutine of each request. `Receive`, `Claim`, `Enqueue`,
  `Accept` are the stretches of `receive_webhook` between two awaits; `Plan` is the dispatch over the
  handlers. `Die` cuts a request off anywhere.
- *Reconciler*. `queued` and `job` are ARQ; `step`, `loaded`, `todo`, `at` the local variables of
  `reconcile_all_installations`, `reconcile_installation`, `reconcile_repo` and `reconcile_org`.
  `LoadTarget`, `ReadSection`, `WriteSection` are `run_reconcile` and `run_org_reconcile`. The live value
  of a section is the version of the file that wrote it, or `Foreign`. `SectionRaises` is where the two
  runners differ: the tier loop isolates a tier that raises, the organization's blocks are not isolated.
- *ManagedFiles*. `base`, `files`, `fork` are the base branch, the managed branch and their merge base;
  `ahead` says that the branch has commits the base lacks, without which GitHub refuses a pull request.
  `ReadFile` is the loop of `_apply_for_base`, `CompareBranch` is `_orphans` and the early returns,
  `EnsureBranch`, `CreateRef`, `DeleteNestedRefs`, `RefTaken` are `_ensure_branch` and what it calls,
  `BuildChanges` and `Commit` the signed commit with its expected head, `FindPullRequest` and
  `OpenPullRequest` are `_ensure_pr`. A file's content is a model value with the versions it pins.
- *Collections*. `live` is the collection on GitHub. `List` takes the listing and turns it into the set
  of requests `PlanOf` gives for the tier (`LabelPlan`, `AutolinkPlan`, ...: one operator per `reconcile`
  function); `Send` sends the next one, `Refused` is a 404 or 422. What GitHub accepts and does is
  `Accepts` and `Outcome`, which are external.
- *Runner* and *Overlays*. `history` holds the configurations of the default branch, `proposed` those of
  commits of pull requests, `checks` the commits with a check run, `slot` the local variables of a job.
  `Propose`, `Merge`, `RepositoryEvent` are webhooks with the job their handler enqueues; `Load` is the
  beginning of `run_reconcile` with its early return, `Apply` one round of its loop over the targets,
  `Post` its end. `resolve_for_repo` merges the `Layers` one by one (`Merging`), as the code does with the base,
  the suborgs and the overrides; one that does not match is a layer that declares nothing.
- *Sweep*. `pr` and `conflicted` are GitHub's, `sweep` the local variables of `update_open_prs`, `due` the
  job on the queue (jobs that wait at the same time do the same and are one). `ListOpen`, `Compare`,
  `Update` are its three calls, `CompareFails` and `UpdateFails` the two `except RequestFailed`; `ListFails`
  and `Fail` are what it does not catch. `skipped` and `lost` are history, for the properties.
- *Settings*. `step` is the endpoint, the branch or the ruleset the tier is at, `Read` the call that reads
  it together with the decision (`PlanOf`, one operator per `reconcile` function in `SettingsTiers`,
  `BranchProtection`, `Rulesets`), `Send` the next request, `Refused` a 4xx. What GitHub accepts and what
  follows from a request (alerts that are disabled take the fixes with them, a put replaces a protection,
  a ruleset comes back with parameters of the server's own) is `Accepts`, `Settled` and `Outcome`.

A definition that is named after a mutation and preceded by "Mutant:" is a plausible mistake in the
definition that follows it. `PROJECT.json` pairs each with the property that must, and does, catch it.

## 3. What the runs show

| Run | Question | Result |
|---|---|---|
| `ingest` | Is every delivery's plan enqueued at most once per window, complete when accepted, and never dropped without reason? | holds |
| `reconciler` | Is only what a merged file declares ever written, is every step allowed by `Enforcement`, and do Caldrith's own writes and their echoes die out with the cron off? | holds |
| `reconciler_live` | With the cron on, does the account end up as the last file says, despite stale jobs, lost webhooks, crashes and a tier that always fails? | holds |
| `runner` | Does every run write what base and overlays ask of a repository and only what was merged, and does every proposed commit get its check? | holds; without a check remain a commit whose own dry run a failed call ends, and one whose file declares nothing for repositories, be it with an `organization` block |
| `runner_preview` | Does the check of a proposed commit summarise the pending changes (`docs/configuration.md:34-38`)? | no, it never reports any |
| `runner_visibility` | Is a suborg selected by visibility applied (`docs/configuration.md:1303-1333`)? | no, to no repository |
| `sweep` | Does a sweep bring everything up to date that it does not skip, and does every open pull request end up current? | holds |
| `managed_files` | Does a pull request never propose what is not wanted, does a second run do nothing, and is what is needed always staged and proposed in the end? | holds |
| `managed_files_drift` | Is a file kept in sync after the pull request was merged (`reconcile/files.py:69-70`)? | no, when the branch was kept |
| `collections` | Is an undisturbed run never refused, does it leave what is declared, is a second one silent, is no secret rotated, and does everything converge? | holds, for all ten tiers; except that an environment that declares a rule off is put again, as it is, on every run |
| `settings` | The same for the settings tiers, branch protection, rulesets and the organization's blocks; is what is not declared left alone, and a configuration that was written also attached? | holds, for all fourteen; except that code scanning is refused where GitHub has no default setup |
| `settings_restrictions` | Are `restrictions` that are left out unmanaged (`docs/configuration.md:357-362`)? | no, they are removed |

The four runs that find a violation each refute one sentence of the documentation or of a docstring;
`findings` in `PROJECT.json` quotes it and says what the counterexample does.

**Bounds, and why they are enough.**

- *Ingest*: one delivery id next to requests without one, three requests on the wire, two at a time. Two requests
  with one id are what a race for the key needs; the third comes after the key has expired or its holder
  has died. The payloads take every path of `Plan` once. Deliveries with other ids share no state, so a
  second id adds nothing but interleavings; the proofs cover any number.
- *Reconciler*: two jobs at a time, two versions of the file, one waiting copy of each job, two
  disturbances. Two jobs and two versions give a stale writer next to a fresh one, the case all hazards
  come down to; version 1 leaves a repository out and begins to declare a tier. The live run has one
  repository with two tiers, the first of which GitHub refuses.
- *ManagedFiles*: the two names of one workflow, three contents (two that pin the same action, one of the
  repository's own), two versions, two runs, one disturbance, and any number of merges. The twin, the
  downgrade and the dropped declaration all occur; the run that looks for a violation has one run
  and two disturbances.
- *Collections*: three names, two values (one of them what GitHub keeps of an environment without a
  rule), a custom property that is cleared, every initial collection, two versions (one member dropped or
  renamed, one added, one changed), two runs, two disturbances.
- *Runner*: the admin repo, two repositories, and a configuration that leaves one of them out, one with
  two suborgs and an override that overlap on one repository, and one that declares nothing for repositories; two jobs at a time, three
  versions on the default branch, two proposals, one disturbance (an event of a repository, a failed call
  or a crash). That is a dry run next to two versions
  of the fan-out. In the run `runner` the suborg with a visibility is written so that it would match
  nothing in any case, because `runner_visibility` shows that none is ever applied.
- *Sweep*: two pull requests, one of which the App cannot push to; two pushes, two sweeps at a time, one
  disturbance. Two sweeps and two pushes give a sweep with an old list next to a new one.
- *Settings*: every tier in turn with every live state over two values of each field; two versions, the
  second of which turns back or leaves out what the first declares (alerts are turned off while fixes are
  on, actions of the organization are disabled); two runs, one disturbance. The declarations of the run
  `settings` are `Coherent` and `Whole` (an `ASSUME` of `MCSettings` that TLC evaluates): these are the
  hypotheses of the theorems, see section 4. Without them the properties fail, on declarations the schema
  accepts; section 5 lists which.
- `CHECK_DEADLOCK FALSE` everywhere: all these systems may come to rest, when the bounds are used up or
  when there is nothing left to do.

**Fairness.** The event loop of a process goes on with every coroutine it has started: weak fairness of
the steps of a request, a job, a run (`FairSpec` of each module). ARQ takes waiting jobs in the order
they were enqueued, so a waiting job is not overtaken for ever; other jobs may take the free slot again
and again meanwhile, which makes that strong fairness of `Start`. GitHub delivers what it does not lose
(`Deliver`), and the cron comes round (`CronTick`; `Start` and `List` in the modules that stand for one
section). In `Sweep` only a sweep itself is fair (`Work`: the worker comes to the job that waits, and goes on
with it). `Runner` states no fairness: its properties are safety. Nothing is assumed of people, of merges, of failures, or of the
retry of a job that raised: there is none.

## 4. What is proved

Seven modules, one for each component, for every value of the constants that satisfies the named
assumptions of the modules (names that are not model values of two kinds at once, sequences of declared
sections, bounds that are numbers). Every invariant and every action property of a passing run is stated
by a theorem.

- `IngestProofs!TypeCorrect`, `AtMostOnce`, `AcceptedComplete`, `DuplicateCovered`. None of the three
  safety properties is inductive: that jobs are not enqueued twice depends on who holds the key. `IInv`
  adds `Exclusive` (one request at most enqueues for an id), `InStep` (that request holds the key, and its
  place in the plan is the number of jobs already on the queue), `Fresh` (a delivery whose key is not set
  has nothing on record), `Covered` and `Settled`. There is one lemma per action; `Claim` makes a request
  the only holder because `SET NX` succeeds only on an absent key, and `Expire` is allowed only when the
  model says no request still enqueues under the key.
- `ReconcilerProofs!TypeCorrect`, `WritesAreDeclared`, `ReconcilerImplements`. That only declared values
  are written is not inductive, since a writer may hold an old version. `Sanctioned` says that what a job
  knows was sanctioned by the version it loaded: the version is merged, it selects the target once the
  job is at its sections, and declares the section when the job is about to write. Later merges do not
  change any of this, which is why stale jobs are harmless for safety. `StepOnAccount` reduces every step
  to nothing, a merge, an edit or a sanctioned write; both `OnlyDeclared` and the refinement of
  `Enforcement` (every step maps to a step or a stutter) follow from it.
- `ManagedFilesProofs!TypeCorrect`, `SecondRunQuiet`, `NothingUnwantedLeft`. Both safety properties speak of
  the moment an undisturbed run has ended; neither says how the run came there. `IInv` says, place by place,
  what a run knows that nobody has disturbed (`Undisturbed`): what it keeps and needs is what the loaded
  version asks of the base as it is (`Reading`, `HasRead`), its orphans are those of the branch
  (`HasCompared`), the changes it holds are what the branch lacks (`Committing`), and after the commit all
  is staged (`HasStaged`). `CommittedIsStaged` is the heart: the commit of `ChangesOf` leaves on the branch
  every needed content, and beyond it only what says the same as the base. `Bystander` with
  `RunIsConsiderate` shows that a step of another run either disturbs, and is recorded as such, or changes
  nothing a run goes by. Both properties follow from `Over`, what holds when the run is done.
- `CollectionsProofs!TypeCorrect`, `NoDriftQuiet`, `QuietRunsSucceed`, `QuietRunsMatch`, `NothingRotated`. The
  ten plan operators are brought into one form first (`PlanForm`, `SetPlanForm`, `OpMeans`), so that the rest
  is argued once. `IInv` says that what a run has still to send is part of a plan made for the version it
  has loaded; `PlanApart` says that two requests of one plan touch different members, or that one deletes
  what the other then creates. On this rest three invariants of quiet runs: what is left fits the collection
  (`Fits`), what is owed is still to be sent (`Owed`), a secret to be put is not there (`PutsMissing`).
  `NoDriftQuiet` needs no invariant but the types; its conclusion names the one request that is sent without
  drift (`PutAgain`), because the code reads a rule that GitHub does not keep as `None`.
  Two assumptions are stated in the theorems, since the code does not enforce them. `Untangled`: no label is
  renamed from a name that another entry declares or renames too; otherwise the rename takes the label from
  under the other entry, whose request gets a 404 and fails the tier. `AllSeen`: no listing is longer than a
  page, which only secrets depend on.
- `RunnerProofs!TypeCorrect`, `ProposalsRemembered`, `OnlyMergedApplied`, `OverlaysApplied`.
  `NoProposalForgotten` is inductive relative to the types, which say that a job is always one of `Jobs` and a
  dry run one for a commit that exists. The steps that end a job are `FanOut`, `Load`, `Post` and `Fail`
  (`EndRemembers`): the first is no dry run, the second ends only if the commit has no work for repositories
  (`Loaded` is the proposed commit for its dry run), the third posts, and the fourth puts the job back or
  records the commit in the history variable `dropped`. `FrameRemembers` covers all others, edits of
  repositories included.
  `OnlyMerged` needs the invariant `Merged`: at its tiers a run holds a merged configuration and goes
  through repositories that one manages, and a dry run has none to go through, being for the admin repo.
  What the recursion over the layers computes is argued by induction, with no induction theorem of the
  library (those take an operator as parameter): `Least`, every set of numbers has a least element, follows
  from the well-foundedness of `<`, and a least counterexample is then refuted. In this way `ChainExists`
  shows that the recursive function `Merging` exists at all, `LastLayerDecides` that a merge says what the
  last layer says that says anything, `VoicesAre` and `DecisiveIsEffective` that this layer is the most
  specific voice of `AsDeclared`. Both theorems assume `NoneByVisibility`, that no suborg selects a
  repository by the visibility it has: for those `runner_visibility` refutes them, and in the run `runner`
  the assumption holds.
- `SettingsProofs!TypeCorrect`, `QuietRunsAreRight`, `QuietRunsSucceed`, `QuietRunsMatch`, `NoDriftQuiet`,
  `UndeclaredIsKept`, `WrittenAttached`, for fourteen tiers at once. That a quiet run ends right says
  nothing of how it came there; `IInv` says it for each moment. `PlanIsRight`: the requests a quiet run has
  still to send are those it would decide on now (`PlanOf` of the live settings, which the first
  request of a pair has already changed), or the second half of a pair: the update of a site just created
  (`SiteCreated`), the attachment of a configuration just written (`Written`). `ListingIsRight`: the
  rulesets found at the beginning are the ones there are, for those still to be looked at. `Progress`: all
  steps behind the run have left what they declare, so no later step undoes an earlier one. The plan
  operators are put into one form first (`SinglePlan`, `PagesPlanForm`, `BranchPlanForm`,
  `CodeSecurityPlanForm`), `NothingRefused` and the `...Done` lemmas say what GitHub makes of the head of a
  plan, and there is one case per kind of tier. `QuietRunsSucceed` excepts one state, `NoDefaultSetup`, in which
  `NothingRefused` fails because the code sends its PATCH all the same. Three hypotheses are stated in the theorems where they are needed. `Coherent`: a declaration does
  not work against itself. `Whole`: nothing is half managed. Both are predicates of `Settings`, since TLC
  evaluates them too. `AbsentIsNone`: what stands for "not there" is not a ruleset or a protection.
- `SweepProofs!TypeCorrect`, `Thorough`. `SweepIsThorough` speaks of the moment a sweep ends; the invariant
  behind it, `Accounted`, says at every moment that a pull request the sweep owes something is still to be
  looked at, or up to date with what the sweep began from, or skipped. It survives what people and other
  sweeps do because a pull request never loses commits of the default branch, and because one that is
  opened again counts from then on. `OnlySweepEnds` says which step can end a sweep undisturbed.

**Only model-checked.** All liveness (`ClaimedIsEnqueued`, `Converges` of three modules, `EchoesDieOut`,
`StagedAndProposed`, `ProposalsBecomeCurrent`): TLAPS does not do liveness under fairness. The other
properties of passing runs are safety, and proved.

## 5. What is not modelled

- *Values*: YAML parsing and validation, glob matching, colours and dates, encryption, the text of checks
  and pull requests. A section's value, a file's content and a member's field are model values. What the
  schema lets a file declare is an assumption on the declarations of each module.
- *Lists inside a setting*: `compare_deep` compares them as multisets; here they are one value. Rules of one
  type occur once in a ruleset, so that the search for distinct matches is a look-up.
- *Declarations on which the code is known not to converge.* The schema accepts them, `Coherent` and `Whole`
  exclude them, and TLC finds a violation for each when they are put in: fixes declared without alerts are
  refused on every run (`QuietRunSucceeds`); `allowed_actions` with actions disabled, or with `enabled` left
  out while they are, is drift for ever, since GitHub does not return it (`QuietRunMatches`); two rulesets of
  one name (`QuietRunSucceeds`, the second is to be created again, and refused); two entries for one branch, `default` and its
  name, undo each other (`QuietRunMatches`); a nested `security_and_analysis` declared in part is drift on
  every run (`NoDriftNoRequest`, `config/diff.py:76`); `restrictions` left out are removed (`KeepsUndeclared`,
  the run `settings_restrictions`). Since an entry `default` and one that names a branch clash only if that
  branch is the default branch, `DefaultBranches` says which may be. A code security configuration whose
  attachment failed is not attached by later runs (`reconcile/org.py:317`), and `WrittenIsAttached` is
  therefore about runs that nobody disturbs. They are under `hazards`.
- *Where the code falls short and a property says so.* These are disagreements with the documentation that
  have no run of their own (section 6); each is a named exception of a property that holds otherwise, and a
  hazard. An environment declared with `wait_timer: 0` or `prevent_self_review: false` is put on every run:
  GitHub keeps no rule for it, and `reconcile/environments.py:34-38` and `51-55` read that as `None`
  (`PutAgain` in `NoDriftNoRequest`; `docs/configuration.md:31-32`: "Reconcile is **idempotent**"). Where
  default setup is not available, code scanning sends a PATCH and is refused on every run, even if
  `not-configured` is declared, since `reconcile/code_scanning.py:48` compares the missing state with it
  (`NoDefaultSetup` in `QuietRunSucceeds`; lines 9-11 and 44 say it counts as not configured). A proposal
  that declares an `organization` block only gets no check, since `reconcile/runner.py:187-191` looks at
  repository tiers and overlays (`~HasRepoWork` in `NoProposalForgotten`; `docs/configuration.md:34-38`).
- *Archived repositories*. The repository and the branches tier leave them alone, and are modelled so; the
  other tiers do not ask, would send and be refused (against `docs/configuration.md:79-80`), and their
  repositories are not archived in the model. `archived` can be declared, but as the repository tier
  returns before it compares (`reconcile/repository.py:69`), `archived: false` never unarchives, against
  `docs/configuration.md:221`; `QuietRunMatches` and `Converges` say nothing of an archived repository.
- *Reads and answers taken together*: the three GETs of a branch (`reconcile/branch.py:160-247`) are one step;
  GitHub answers `update-branch` with 202 and merges a little later, which is one step in `Sweep`.
- *Personal accounts*: their listing of teams is refused, and the tier ends there silently
  (`reconcile/teams.py:47-49`); the account of `Collections` is an organization. The `organization` block
  of a file is not a part of `Overlays`, since the runs for repositories do not look at it.
- *Listings that see one page*: rulesets and secrets are taken to fit one page; beyond 30, secrets that
  exist are written again.
- *What the settings tiers do not compare*: the expiry of an interaction limit, the runner of code scanning.
  Branches that do not exist, and repositories that vanish while a run is at them.
- *Managed files*: more than one base branch, and bases no file targets any more. Content that was staged
  for a file which is still declared, but which the base needs no longer, stays on the branch; the model does
  that too, but no property forbids it (`hazards`, at `reconcile/files.py:533`).
- *Collections*: labels renamed from names that other entries declare (see section 4), the two secret stores
  side by side, invitations that are not accepted yet, names folded by case, pages of a listing that shift
  while it is read.
- *The account lookup of the manual trigger* and the dry run of a single tier: they change nothing.
- *The rate limiter*: the code chooses the key of a request and leaves the counting to a library.
  Logging, wiring, clients and tokens keep no state that another component reads.

## 6. Plan

Done: all the modules of section 2 and the proofs of section 4; the safety of every component is proved.
To come, in this order:

1. Refinement in small: that `Settings` and `Collections` implement the section that `Reconciler` reads and
   writes as a whole, for runs that nobody disturbs.
2. `ManagedFiles` with two bases that share a branch name (`_managed_branch`) and a base that is dropped;
   `Collections` with the two secret stores side by side.

Runs are budgeted: each module gets one passing run that checks all its properties together. A run for a
violation stands for a documented feature that does not work at all (four of them); a disagreement in
one corner of a feature is a named exception of the property that holds elsewhere, and a hazard.
