---------------------------- MODULE ManagedFiles ----------------------------
(***************************************************************************)
(* The files tier: FileProvisioner of reconcile/files.py, for one base     *)
(* branch of one repository.                                               *)
(*                                                                         *)
(* Declared files reach the base branch through a managed branch and its   *)
(* pull request.  A run reads the base branch, compares the managed branch *)
(* with it, and then closes the pull request, or commits to the branch and *)
(* opens one; each call to GitHub is a step, so another run, a human or a  *)
(* bot may act in between and the run may die.                             *)
(*                                                                         *)
(* A branch is the content of its files.  Of the history one thing is kept:*)
(* the merge base of the two branches, which the three-dot comparison and  *)
(* a merge go by.  Git and GitHub are external.                            *)
(*                                                                         *)
(* A run looks at a base branch only while some declared file targets it,  *)
(* so every version is taken to declare one, if only for other             *)
(* repositories.  The bases of a repository have their own branches and    *)
(* share nothing.  A file and its twin are read in one step.               *)
(***************************************************************************)
EXTENDS Naturals

CONSTANTS
    Paths,            \* file paths
    Contents,         \* what a file may contain
    Absent,           \* there is no such file
    Pins(_),          \* Pins(c): the versions c pins, by reference
    Sibling(_),       \* the .yml/.yaml twin of a path, or NoPath
    NoPath,
    MaxVersion,       \* bound: the last version of the settings file
    Config(_),        \* Config(v): the files version v declares for this repository
    InitialBases,     \* what the base branch may hold at first
    Edits,            \* <<path, content>>: what people and bots may commit to the base
    Workers,          \* runs of this tier that may overlap
    MaxDisturbances   \* bound: edits, closed pull requests and failures in one behaviour

Versions == 0 .. MaxVersion

Tree == [Paths -> Contents \cup {Absent}]

NoFiles == [p \in Paths |-> Absent]

ManagedFile == [content: Contents, create_only: BOOLEAN, allow_downgrade: BOOLEAN]

ASSUME AbsentAssumption == Absent \notin Contents
ASSUME SiblingAssumption ==
    NoPath \notin Paths /\ \A p \in Paths : Sibling(p) \in Paths \cup {NoPath}
ASSUME ConfigAssumption ==
    \A v \in Versions :
        /\ DOMAIN Config(v) \subseteq Paths
        /\ \A p \in DOMAIN Config(v) : Config(v)[p] \in ManagedFile
ASSUME BasesAssumption == InitialBases \subseteq Tree
ASSUME EditsAssumption == Edits \subseteq Paths \X (Contents \cup {Absent})
ASSUME BoundsAssumption == MaxVersion \in Nat /\ MaxDisturbances \in Nat

-----------------------------------------------------------------------------
(* What a run decides about a file, given the version it loaded and the    *)
(* base branch it reads.                                                   *)

(* The repository pins something the declared content pins, and newer.     *)
RepoIsAhead(repo, admin) ==
    repo # Absent /\ \E k \in DOMAIN Pins(repo) \cap DOMAIN Pins(admin) :
        Pins(repo)[k] > Pins(admin)[k]

SiblingPresent(b, p) == Sibling(p) # NoPath /\ b[Sibling(p)] # Absent

(* The file is left to the repository, and dropped from the desired ones.  *)
LeftAhead(v, b, p) ==
    LET f == Config(v)[p] IN
    /\ b[p] \notin {Absent, f.content}
    /\ ~f.create_only /\ ~f.allow_downgrade
    /\ RepoIsAhead(b[p], f.content)

IsNeeded(v, b, p) ==
    LET f == Config(v)[p] IN
    IF b[p] = Absent
    THEN ~(f.create_only /\ SiblingPresent(b, p))
    ELSE b[p] # f.content /\ ~f.create_only /\ ~LeftAhead(v, b, p)

Desired(v, b) == {p \in DOMAIN Config(v) : ~LeftAhead(v, b, p)}
Needed(v, b)  == {p \in DOMAIN Config(v) : IsNeeded(v, b, p)}

-----------------------------------------------------------------------------
VARIABLES
    version,      \* version of the settings file
    born,         \* the base branch exists
    base,         \* the base branch
    exists,       \* the managed branch exists
    files,        \* the managed branch
    fork,         \* the merge base of the two
    ahead,        \* the managed branch has commits the base branch has not
    nested,       \* a ref of the retired slash naming lies below the branch name
    open,         \* the pull request of the managed branch is open
    pc,           \* where each run is
    cfg,          \* the version each run has loaded
    todo,         \* files each run has still to read
    desired,      \* files each run keeps
    needed,       \* files each run wants to write
    orphans,      \* <<path, status>> each run has found stale
    sha,          \* the commit each run is about to branch from
    moved,        \* the branch has moved since the run read its head
    changes,      \* what each run is about to commit
    quiet,        \* history: nobody but the run has done anything since it began
    disturbances  \* disturbances so far

repoVars == << born, base, exists, files, fork, ahead, nested, open >>
runVars  == << cfg, todo, desired, needed, orphans, sha, moved, changes >>
vars == << version, repoVars, pc, runVars, quiet, disturbances >>

Statuses == {"added", "modified"}

PCs == {"idle", "read", "compare", "close", "ensure", "create", "recreate",
        "build", "commit", "find", "open", "done"}

TypeOK ==
    /\ version \in Versions
    /\ born \in BOOLEAN /\ exists \in BOOLEAN /\ ahead \in BOOLEAN
    /\ nested \in BOOLEAN /\ open \in BOOLEAN
    /\ base \in Tree /\ files \in Tree /\ fork \in Tree
    /\ pc \in [Workers -> PCs]
    /\ cfg \in [Workers -> Versions]
    /\ todo \in [Workers -> SUBSET Paths]
    /\ desired \in [Workers -> SUBSET Paths]
    /\ needed \in [Workers -> SUBSET Paths]
    /\ orphans \in [Workers -> SUBSET (Paths \X Statuses)]
    /\ sha \in [Workers -> Tree]
    /\ moved \in [Workers -> BOOLEAN]
    /\ changes \in [Workers -> UNION {[P -> Contents \cup {Absent}] : P \in SUBSET Paths}]
    /\ quiet \in [Workers -> BOOLEAN]
    /\ disturbances \in 0 .. MaxDisturbances

NoChanges == [p \in {} |-> Absent]

Init ==
    /\ version = 0
    /\ born \in BOOLEAN
    /\ base \in IF born THEN InitialBases ELSE {NoFiles}
    /\ exists = FALSE /\ open = FALSE /\ ahead = FALSE
    /\ files = NoFiles /\ fork = NoFiles
    /\ nested \in BOOLEAN
    /\ pc = [w \in Workers |-> "idle"]
    /\ cfg = [w \in Workers |-> 0]
    /\ todo = [w \in Workers |-> {}]
    /\ desired = [w \in Workers |-> {}]
    /\ needed = [w \in Workers |-> {}]
    /\ orphans = [w \in Workers |-> {}]
    /\ sha = [w \in Workers |-> NoFiles]
    /\ moved = [w \in Workers |-> FALSE]
    /\ changes = [w \in Workers |-> NoChanges]
    /\ quiet = [w \in Workers |-> FALSE]
    /\ disturbances = 0

-----------------------------------------------------------------------------
(* What git and GitHub make of the branches.                               *)

(* The files of the three-dot comparison, base...branch.                   *)
Changed == IF exists THEN {p \in Paths : files[p] # fork[p]} ELSE {}

Status(p) == IF fork[p] = Absent THEN "added" ELSE "modified"

(* Merging takes the branch's side where only the branch has changed.      *)
Conflict(p) == p \in Changed /\ base[p] # fork[p] /\ base[p] # files[p]

Merged == [p \in Paths |-> IF p \in Changed THEN files[p] ELSE base[p]]

-----------------------------------------------------------------------------
(* People, bots and the settings file.                                     *)

Disturb ==
    /\ disturbances < MaxDisturbances
    /\ disturbances' = disturbances + 1

NobodyQuiet == quiet' = [w \in Workers |-> FALSE]

OnlyQuiet(w) == quiet' = [x \in Workers |-> x = w /\ quiet[x]]

(* The head of the branch is no longer the one the other runs have read.   *)
HeadMoves == moved' = [w \in Workers |-> pc[w] \in {"build", "commit"}]

(* A new version of the settings file is merged in the admin repo.         *)
ChangeConfig ==
    /\ version < MaxVersion
    /\ version' = version + 1
    /\ NobodyQuiet
    /\ UNCHANGED << repoVars, pc, runVars, disturbances >>

(* Somebody commits to the base branch, or a bot bumps a pin there.        *)
EditBase(p, c) ==
    /\ Disturb
    /\ << p, c >> \in Edits
    /\ base[p] # c
    /\ base' = [base EXCEPT ![p] = c]
    /\ born' = TRUE
    /\ NobodyQuiet
    /\ UNCHANGED << version, exists, files, fork, ahead, nested, open, pc, runVars >>

(* The pull request is merged, when it merges cleanly: with a merge commit *)
(* or squashed, and the branch is deleted or stays.                        *)
MergePullRequest(squash, delete) ==
    /\ open
    /\ \A p \in Paths : ~Conflict(p)
    /\ base' = Merged
    /\ open' = FALSE
    /\ IF delete
       THEN /\ exists' = FALSE /\ files' = NoFiles /\ fork' = NoFiles /\ ahead' = FALSE
            /\ HeadMoves
       ELSE /\ fork' = IF squash THEN fork ELSE files
            /\ ahead' = squash
            /\ UNCHANGED << exists, files, moved >>
    /\ NobodyQuiet
    /\ UNCHANGED << version, born, nested, pc, cfg, todo, desired, needed, orphans,
                    sha, changes, disturbances >>

(* The pull request is closed without being merged; the branch stays.      *)
ClosePullRequest ==
    /\ open
    /\ Disturb
    /\ open' = FALSE
    /\ NobodyQuiet
    /\ UNCHANGED << version, born, base, exists, files, fork, ahead, nested, pc, runVars >>

-----------------------------------------------------------------------------
(* A run: reconcile, apply and _apply_for_base.                            *)

GoTo(w, p) == pc' = [pc EXCEPT ![w] = p]

(* The run is over, well or badly, and what it knew is forgotten.          *)
Forget(w) ==
    /\ todo' = [todo EXCEPT ![w] = {}]
    /\ desired' = [desired EXCEPT ![w] = {}]
    /\ needed' = [needed EXCEPT ![w] = {}]
    /\ orphans' = [orphans EXCEPT ![w] = {}]
    /\ sha' = [sha EXCEPT ![w] = NoFiles]
    /\ changes' = [changes EXCEPT ![w] = NoChanges]

End(w, p) ==
    /\ GoTo(w, p)
    /\ Forget(w)
    /\ moved' = [moved EXCEPT ![w] = FALSE]
    /\ UNCHANGED cfg

(* The job has loaded the settings file and comes to the files tier.       *)
Start(w) ==
    /\ pc[w] \in {"idle", "done"}
    /\ GoTo(w, "read")
    /\ cfg' = [cfg EXCEPT ![w] = version]
    /\ todo' = [todo EXCEPT ![w] = DOMAIN Config(version)]
    /\ quiet' = [quiet EXCEPT ![w] = TRUE]
    /\ UNCHANGED << version, repoVars, desired, needed, orphans, sha, moved, changes,
                    disturbances >>

(* Mutant: a file the repository is ahead on stays in the desired set.     *)
ReadFileKeepsAhead(w, p) ==
    /\ pc[w] = "read"
    /\ p \in todo[w]
    /\ todo' = [todo EXCEPT ![w] = @ \ {p}]
    /\ desired' = [desired EXCEPT ![w] = @ \cup {p}]
    /\ needed' = [needed EXCEPT ![w] = IF IsNeeded(cfg[w], base, p) THEN @ \cup {p} ELSE @]
    /\ UNCHANGED << version, repoVars, pc, cfg, orphans, sha, moved, changes, quiet,
                    disturbances >>

(* A declared file is read at the base branch, and its twin with it.       *)
ReadFile(w, p) ==
    /\ pc[w] = "read"
    /\ p \in todo[w]
    /\ todo' = [todo EXCEPT ![w] = @ \ {p}]
    /\ desired' = [desired EXCEPT ![w] = IF LeftAhead(cfg[w], base, p) THEN @ ELSE @ \cup {p}]
    /\ needed' = [needed EXCEPT ![w] = IF IsNeeded(cfg[w], base, p) THEN @ \cup {p} ELSE @]
    /\ UNCHANGED << version, repoVars, pc, cfg, orphans, sha, moved, changes, quiet,
                    disturbances >>

(* Mutant: the orphans are collected without their status.                 *)
OrphanPaths(keep) == {p \in Changed \ keep : files[p] # Absent}

(* _orphans: what the branch changes and the run does not want there.      *)
OrphansOf(keep) ==
    {o \in Paths \X Statuses :
        /\ o[1] \in Changed \ keep
        /\ files[o[1]] # Absent
        /\ o[2] = Status(o[1])}

CompareBranch(w) ==
    /\ pc[w] = "read"
    /\ todo[w] = {}
    /\ LET stale == OrphansOf(desired[w]) IN
       CASE needed[w] = {} /\ stale = {} -> End(w, "done")
         [] needed[w] = {} /\ stale # {} -> /\ GoTo(w, "close")
                                            /\ UNCHANGED runVars
         [] needed[w] # {} -> /\ GoTo(w, "ensure")
                              /\ orphans' = [orphans EXCEPT ![w] = stale]
                              /\ UNCHANGED << cfg, todo, desired, needed, sha, moved, changes >>
    /\ UNCHANGED << version, repoVars, quiet, disturbances >>

(* _close_branch: deleting the branch closes its pull request.             *)
CloseBranch(w) ==
    /\ pc[w] = "close"
    /\ exists' = FALSE /\ files' = NoFiles /\ fork' = NoFiles /\ ahead' = FALSE
    /\ open' = FALSE
    /\ HeadMoves
    /\ GoTo(w, "done")
    /\ Forget(w)
    /\ OnlyQuiet(w)
    /\ UNCHANGED << version, born, base, nested, cfg, disturbances >>

(* _ensure_branch: the head of the branch, or else that of the base; there *)
(* is nothing to branch from while the base does not exist.                *)
EnsureBranch(w) ==
    /\ pc[w] = "ensure"
    /\ CASE exists -> /\ GoTo(w, "build")
                      /\ moved' = [moved EXCEPT ![w] = FALSE]
                      /\ UNCHANGED << cfg, todo, desired, needed, orphans, sha, changes >>
         [] ~exists /\ born -> /\ GoTo(w, "create")
                               /\ sha' = [sha EXCEPT ![w] = base]
                               /\ UNCHANGED << cfg, todo, desired, needed, orphans, moved, changes >>
         [] ~exists /\ ~born -> End(w, "done")
    /\ UNCHANGED << version, repoVars, quiet, disturbances >>

(* _create_branch_ref, at the commit read before.                          *)
CreateRef(w) ==
    /\ pc[w] \in {"create", "recreate"}
    /\ ~exists /\ ~nested
    /\ exists' = TRUE
    /\ files' = sha[w] /\ fork' = sha[w] /\ ahead' = FALSE
    /\ moved' = [moved EXCEPT ![w] = FALSE]
    /\ GoTo(w, "build")
    /\ OnlyQuiet(w)
    /\ UNCHANGED << version, born, base, nested, open, cfg, todo, desired, needed, orphans,
                    sha, changes, disturbances >>

(* The ref cannot be created for a ref nested below its name: the nested   *)
(* ones are deleted and the creation is tried once more.                   *)
DeleteNestedRefs(w) ==
    /\ pc[w] = "create"
    /\ ~exists /\ nested
    /\ nested' = FALSE
    /\ GoTo(w, "recreate")
    /\ OnlyQuiet(w)
    /\ UNCHANGED << version, born, base, exists, files, fork, ahead, open, runVars, disturbances >>

(* Another run has created the branch: there is nothing nested to delete   *)
(* and the 422 is raised again.                                            *)
RefTaken(w) ==
    /\ pc[w] \in {"create", "recreate"}
    /\ exists
    /\ End(w, "idle")
    /\ UNCHANGED << version, repoVars, quiet, disturbances >>

(* _build_changes: what the branch still lacks, and the orphans undone.    *)
Additions(w) == {p \in needed[w] : files[p] # Config(cfg[w])[p].content}

Undone(w) ==
    {o \in orphans[w] :
        /\ files[o[1]] # Absent
        /\ o[2] = "modified" => base[o[1]] # files[o[1]]}

ChangesOf(w) ==
    [p \in Additions(w) \cup {o[1] : o \in Undone(w)} |->
        IF p \in Additions(w) THEN Config(cfg[w])[p].content
        ELSE IF << p, "added" >> \in orphans[w] THEN Absent
        ELSE base[p]]

(* Mutant: the pull request is looked after only when there was a commit.  *)
BuildChangesOrDone(w) ==
    /\ pc[w] = "build"
    /\ IF DOMAIN ChangesOf(w) = {}
       THEN End(w, "idle")
       ELSE /\ changes' = [changes EXCEPT ![w] = ChangesOf(w)]
            /\ GoTo(w, "commit")
            /\ UNCHANGED << cfg, todo, desired, needed, orphans, sha, moved >>
    /\ UNCHANGED << version, repoVars, quiet, disturbances >>

BuildChanges(w) ==
    /\ pc[w] = "build"
    /\ changes' = [changes EXCEPT ![w] = ChangesOf(w)]
    /\ GoTo(w, IF DOMAIN ChangesOf(w) = {} THEN "find" ELSE "commit")
    /\ UNCHANGED << version, repoVars, cfg, todo, desired, needed, orphans, sha, moved,
                    quiet, disturbances >>

(* _commit_on_branch, refused when the head is not the one read before.    *)
Commit(w) ==
    /\ pc[w] = "commit"
    /\ exists /\ ~moved[w]
    /\ files' = [p \in Paths |-> IF p \in DOMAIN changes[w] THEN changes[w][p] ELSE files[p]]
    /\ ahead' = TRUE
    /\ HeadMoves
    /\ GoTo(w, "find")
    /\ OnlyQuiet(w)
    /\ UNCHANGED << version, born, base, exists, fork, nested, open, cfg, todo, desired,
                    needed, orphans, sha, changes, disturbances >>

CommitRefused(w) ==
    /\ pc[w] = "commit"
    /\ ~exists \/ moved[w]
    /\ End(w, "idle")
    /\ UNCHANGED << version, repoVars, quiet, disturbances >>

(* Mutant: a branch that exists is taken to have its pull request.         *)
PullRequestAssumed(w) ==
    /\ pc[w] = "find"
    /\ End(w, "done")
    /\ UNCHANGED << version, repoVars, quiet, disturbances >>

(* _ensure_pr.                                                             *)
FindPullRequest(w) ==
    /\ pc[w] = "find"
    /\ IF open
       THEN End(w, "done")
       ELSE GoTo(w, "open") /\ UNCHANGED runVars
    /\ UNCHANGED << version, repoVars, quiet, disturbances >>

OpenPullRequest(w) ==
    /\ pc[w] = "open"
    /\ exists /\ ~open /\ ahead
    /\ open' = TRUE
    /\ End(w, "done")
    /\ OnlyQuiet(w)
    /\ UNCHANGED << version, born, base, exists, files, fork, ahead, nested, disturbances >>

(* There is one already, or no commit between the two branches: a 422.     *)
PullRequestRefused(w) ==
    /\ pc[w] = "open"
    /\ ~exists \/ open \/ ~ahead
    /\ End(w, "idle")
    /\ UNCHANGED << version, repoVars, quiet, disturbances >>

(* Any call to GitHub fails, or the worker dies.                           *)
Fail(w) ==
    /\ pc[w] \notin {"idle", "done"}
    /\ Disturb
    /\ End(w, "idle")
    /\ UNCHANGED << version, repoVars, quiet >>

-----------------------------------------------------------------------------
(* The steps of a run that nothing disturbs.                               *)
Progress(w) ==
    \/ \E p \in Paths : ReadFile(w, p)
    \/ CompareBranch(w)
    \/ CloseBranch(w)
    \/ EnsureBranch(w)
    \/ CreateRef(w)
    \/ DeleteNestedRefs(w)
    \/ RefTaken(w)
    \/ BuildChanges(w)
    \/ Commit(w)
    \/ CommitRefused(w)
    \/ FindPullRequest(w)
    \/ OpenPullRequest(w)
    \/ PullRequestRefused(w)

Next ==
    \/ ChangeConfig
    \/ \E p \in Paths, c \in Contents \cup {Absent} : EditBase(p, c)
    \/ \E squash, delete \in BOOLEAN : MergePullRequest(squash, delete)
    \/ ClosePullRequest
    \/ \E w \in Workers : Start(w)
    \/ \E w \in Workers : Progress(w)
    \/ \E w \in Workers : Fail(w)

Spec == Init /\ [][Next]_vars

(* The cron starts a run again and again (module Reconciler), and the      *)
(* event loop of the worker goes on with every run that has started.       *)
FairSpec == Spec /\ \A w \in Workers : WF_vars(Start(w)) /\ WF_vars(Progress(w))

-----------------------------------------------------------------------------
(* Properties.                                                             *)

(* A run has ended well and nobody else has done anything since it began.  *)
Settled(w) == pc[w] = "done" /\ quiet[w]

(* After an undisturbed run the pull request puts content only into files  *)
(* the version declares for this repository: never into one that was       *)
(* dropped or skipped, never into one where the repository is ahead, even  *)
(* if earlier runs had staged it.                                          *)
NothingUnwanted ==
    \A w \in Workers : Settled(w) =>
        \A p \in Changed : files[p] \notin {Absent, base[p]} => p \in Desired(version, base)

(* After an undisturbed run the next one would write nothing: no branch to *)
(* close, nothing to commit, and the pull request is there (docs,          *)
(* configuration.md: "re-running while a PR is pending does nothing").     *)
SecondRunIsNoOp ==
    \A w \in Workers : Settled(w) =>
        LET wanted == Needed(version, base)
            stale  == OrphansOf(Desired(version, base))
        IN  IF wanted = {} THEN stale = {}
            ELSE born => /\ exists /\ open
                         /\ \A p \in wanted : files[p] = Config(version)[p].content
                         /\ \A o \in stale : o[2] = "modified" /\ files[o[1]] = base[o[1]]

(* However often runs die or meet each other, again and again all that is  *)
(* needed is on the branch, with a pull request open if the branch has     *)
(* anything to merge: a run that died after its commit is made good.       *)
StagedAndProposed ==
    []<>(born => \A p \in Needed(version, base) :
            /\ exists /\ files[p] = Config(version)[p].content
            /\ ahead => open)

(* "Merging brings this repo in line with the organisation's required      *)
(* workflows" (files.py:69-70): a file that is needed ends up in an open   *)
(* pull request that changes it.                                           *)
DriftIsProposed ==
    <>[](born => \A p \in Needed(version, base) : open /\ p \in Changed)

=============================================================================
