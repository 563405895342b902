------------------------- MODULE ManagedFilesProofs -------------------------
(* Machine-checked proofs about ManagedFiles.  What an undisturbed run     *)
(* leaves behind follows from what it knows on its way: Undisturbed says,  *)
(* place by place, that the run has read the base as it is, found the      *)
(* orphans there are, and is about to commit what is lacking.              *)
EXTENDS ManagedFiles, TLAPS

(* What a run knows is about the version it has loaded, and an idle run    *)
(* knows nothing.                                                          *)
InConfig(w) ==
    /\ todo[w] \subseteq DOMAIN Config(cfg[w])
    /\ needed[w] \subseteq DOMAIN Config(cfg[w])
    /\ pc[w] \in {"idle", "done"} => desired[w] = {} /\ needed[w] = {}

(* A run branches from a base that exists.                                 *)
Placed(w) == pc[w] \in {"create", "recreate"} => born

(* All that is needed is on the branch, and what is on it beyond that says *)
(* what the base says.                                                     *)
Staged ==
    /\ \A p \in Needed(version, base) : files[p] = Config(version)[p].content
    /\ \A o \in OrphansOf(Desired(version, base)) : o[2] = "modified" /\ files[o[1]] = base[o[1]]

AfterReading == {"close", "ensure", "create", "recreate", "build", "commit", "find", "open"}

Reading(w) ==
    pc[w] = "read" => /\ desired[w] = Desired(version, base) \ todo[w]
                      /\ needed[w] = Needed(version, base) \ todo[w]

HasRead(w) ==
    pc[w] \in AfterReading => /\ desired[w] = Desired(version, base)
                              /\ needed[w] = Needed(version, base)

Wanting(w) == pc[w] \in AfterReading => (needed[w] = {} <=> pc[w] = "close")

HasCompared(w) ==
    pc[w] \in {"ensure", "create", "recreate", "build", "commit"} =>
        orphans[w] = OrphansOf(desired[w])

HasBranch(w) == pc[w] \in {"build", "commit", "find", "open"} => exists

Committing(w) == pc[w] = "commit" => changes[w] = ChangesOf(w)

HasStaged(w) == pc[w] \in {"find", "open"} => Staged

Over(w) ==
    pc[w] = "done" =>
        IF Needed(version, base) = {} THEN OrphansOf(Desired(version, base)) = {}
        ELSE born => exists /\ open /\ Staged

(* What a run knows as long as nobody has disturbed it.                    *)
Undisturbed(w) ==
    quiet[w] =>
        /\ cfg[w] = version
        /\ Reading(w) /\ HasRead(w) /\ Wanting(w) /\ HasCompared(w)
        /\ HasBranch(w) /\ Committing(w) /\ HasStaged(w) /\ Over(w)

Own(w) == InConfig(w) /\ Placed(w) /\ Undisturbed(w)

IInv ==
    /\ TypeOK
    /\ exists => born
    /\ \A w \in Workers : Own(w)

-----------------------------------------------------------------------------
(* What a run needs it wants to keep.                                      *)
LEMMA NeededIsDesired ==
    ASSUME NEW v, NEW b
    PROVE  /\ Needed(v, b) \subseteq Desired(v, b)
           /\ Desired(v, b) \subseteq DOMAIN Config(v)
  BY DEF Needed, Desired, IsNeeded, LeftAhead

(* The content a version declares is content.                              *)
LEMMA DeclaredContent ==
    ASSUME NEW v \in Versions, NEW p \in DOMAIN Config(v)
    PROVE  p \in Paths /\ Config(v)[p].content \in Contents
  BY ConfigAssumption DEF ManagedFile

ChangeSets == UNION {[P -> Contents \cup {Absent}] : P \in SUBSET Paths}

(* What a run decides to commit is a set of changes.                       *)
LEMMA ChangesType ==
    ASSUME TypeOK, NEW w \in Workers, InConfig(w)
    PROVE  ChangesOf(w) \in ChangeSets
<1> DEFINE P == Additions(w) \cup {o[1] : o \in Undone(w)}
<1>1. P \subseteq Paths
  <2>1. Additions(w) \subseteq Paths
    BY DEF Additions, TypeOK
  <2>2. \A o \in Undone(w) : o[1] \in Paths
    BY DEF Undone, TypeOK
  <2> QED
    BY <2>1, <2>2
<1>2. \A p \in Additions(w) : Config(cfg[w])[p].content \in Contents
  BY DeclaredContent DEF Additions, InConfig, TypeOK
<1>3. \A p \in P : base[p] \in Contents \cup {Absent}
  BY <1>1 DEF TypeOK, Tree
<1>4. ChangesOf(w) \in [P -> Contents \cup {Absent}]
  BY <1>2, <1>3 DEF ChangesOf
<1> QED
  BY <1>1, <1>4 DEF ChangeSets

(* So are no changes.                                                      *)
LEMMA NoChangesType == NoChanges \in ChangeSets
<1>1. NoChanges \in [{} -> Contents \cup {Absent}]
  BY DEF NoChanges
<1> QED
  BY <1>1 DEF ChangeSets

(* An empty branch is a branch.                                            *)
LEMMA NoFilesType == NoFiles \in Tree
  BY DEF NoFiles, Tree

(* The types hold initially.                                               *)
LEMMA InitTypeOK == Init => TypeOK
<1> SUFFICES ASSUME Init PROVE TypeOK
  OBVIOUS
<1>1. base \in Tree /\ files \in Tree /\ fork \in Tree /\ sha \in [Workers -> Tree]
  BY NoFilesType, BasesAssumption DEF Init
<1>2. changes \in [Workers -> ChangeSets]
  BY NoChangesType DEF Init
<1>3. 0 \in Versions /\ 0 \in 0 .. MaxDisturbances
  BY BoundsAssumption DEF Versions
<1> QED
  BY <1>1, <1>2, <1>3 DEF Init, TypeOK, PCs, ChangeSets

(* The types of what runs know, and of where they are.                     *)
RunTypes ==
    /\ pc \in [Workers -> PCs]
    /\ cfg \in [Workers -> Versions]
    /\ todo \in [Workers -> SUBSET Paths]
    /\ desired \in [Workers -> SUBSET Paths]
    /\ needed \in [Workers -> SUBSET Paths]
    /\ orphans \in [Workers -> SUBSET (Paths \X Statuses)]
    /\ sha \in [Workers -> Tree]
    /\ moved \in [Workers -> BOOLEAN]
    /\ changes \in [Workers -> ChangeSets]

RepoTypes ==
    /\ born \in BOOLEAN /\ exists \in BOOLEAN /\ ahead \in BOOLEAN
    /\ nested \in BOOLEAN /\ open \in BOOLEAN
    /\ base \in Tree /\ files \in Tree /\ fork \in Tree

(* The type invariant by its parts, now and after a step.                  *)
LEMMA Types ==
    /\ TypeOK <=> /\ version \in Versions /\ RepoTypes /\ RunTypes
                  /\ quiet \in [Workers -> BOOLEAN] /\ disturbances \in 0 .. MaxDisturbances
    /\ TypeOK' <=> /\ version' \in Versions /\ RepoTypes' /\ RunTypes'
                   /\ quiet' \in [Workers -> BOOLEAN] /\ disturbances' \in 0 .. MaxDisturbances
  BY DEF TypeOK, RepoTypes, RunTypes, ChangeSets

(* Disturbances stay within their bound.                                   *)
LEMMA DisturbBound ==
    ASSUME TypeOK, Disturb
    PROVE  disturbances' \in 0 .. MaxDisturbances
  BY BoundsAssumption DEF Disturb, TypeOK

(* A step that disturbs runs or moves the head keeps those types.          *)
LEMMA QuietTypes ==
    ASSUME TypeOK
    PROVE  /\ NobodyQuiet => quiet' \in [Workers -> BOOLEAN]
           /\ \A w \in Workers : OnlyQuiet(w) => quiet' \in [Workers -> BOOLEAN]
           /\ HeadMoves => moved' \in [Workers -> BOOLEAN]
<1>1. NobodyQuiet => quiet' \in [Workers -> BOOLEAN]
  BY DEF NobodyQuiet
<1>2. ASSUME NEW w \in Workers, OnlyQuiet(w) PROVE quiet' \in [Workers -> BOOLEAN]
  <2>1. \A x \in Workers : (x = w /\ quiet[x]) \in BOOLEAN
    OBVIOUS
  <2> QED
    BY <1>2, <2>1 DEF OnlyQuiet
<1>3. HeadMoves => moved' \in [Workers -> BOOLEAN]
  <2>1. \A x \in Workers : (pc[x] \in {"build", "commit"}) \in BOOLEAN
    OBVIOUS
  <2> QED
    BY <2>1 DEF HeadMoves
<1> QED
  BY <1>1, <1>2, <1>3

(* The end of a run keeps the types.                                       *)
LEMMA EndType ==
    ASSUME TypeOK, NEW w \in Workers, NEW p \in PCs, End(w, p)
    PROVE  RunTypes'
<1>1. sha' \in [Workers -> Tree] /\ changes' \in [Workers -> ChangeSets]
  BY NoFilesType, NoChangesType, Types DEF End, Forget, RunTypes
<1> QED
  BY <1>1, Types DEF End, Forget, GoTo, RunTypes

(* So does a step that only moves a run to another place.                  *)
LEMMA GoToType ==
    ASSUME TypeOK, NEW w \in Workers, NEW p \in PCs, GoTo(w, p)
    PROVE  pc' \in [Workers -> PCs]
  BY DEF GoTo, TypeOK

(* Orphans are paths with a status.                                        *)
LEMMA OrphansType == \A keep : OrphansOf(keep) \in SUBSET (Paths \X Statuses)
  BY DEF OrphansOf

(* The steps of people, bots and the settings file keep the types.         *)
LEMMA OutsideTypeOK ==
    ASSUME TypeOK,
           \/ ChangeConfig
           \/ \E p \in Paths, c \in Contents \cup {Absent} : EditBase(p, c)
           \/ \E squash, delete \in BOOLEAN : MergePullRequest(squash, delete)
           \/ ClosePullRequest
    PROVE  TypeOK'
<1>1. ASSUME ChangeConfig PROVE TypeOK'
  <2>1. version' \in Versions
    BY <1>1, BoundsAssumption DEF ChangeConfig, TypeOK, Versions
  <2> QED
    BY <1>1, <2>1, QuietTypes, Types DEF ChangeConfig, repoVars, runVars, RepoTypes, RunTypes
<1>2. ASSUME NEW p \in Paths, NEW c \in Contents \cup {Absent}, EditBase(p, c) PROVE TypeOK'
  <2>1. base' \in Tree
    BY <1>2 DEF EditBase, TypeOK, Tree
  <2> QED
    BY <1>2, <2>1, DisturbBound, QuietTypes, Types DEF EditBase, runVars, RepoTypes, RunTypes
<1>3. ASSUME NEW squash \in BOOLEAN, NEW delete \in BOOLEAN, MergePullRequest(squash, delete)
      PROVE  TypeOK'
  <2>1. base' \in Tree
    BY <1>3 DEF MergePullRequest, Merged, TypeOK, Tree
  <2>2. files' \in Tree /\ fork' \in Tree /\ moved' \in [Workers -> BOOLEAN]
        /\ exists' \in BOOLEAN /\ ahead' \in BOOLEAN
    BY <1>3, NoFilesType, QuietTypes DEF MergePullRequest, TypeOK
  <2> QED
    BY <1>3, <2>1, <2>2, QuietTypes, Types DEF MergePullRequest, RepoTypes, RunTypes
<1>4. ASSUME ClosePullRequest PROVE TypeOK'
  BY <1>4, DisturbBound, QuietTypes, Types DEF ClosePullRequest, runVars, RepoTypes, RunTypes
<1> QED
  BY <1>1, <1>2, <1>3, <1>4

(* Every step of a run keeps the types.                                    *)
LEMMA RunTypeOK ==
    ASSUME TypeOK, NEW w \in Workers, InConfig(w), Start(w) \/ Progress(w) \/ Fail(w)
    PROVE  TypeOK'
<1> USE DEF repoVars, runVars
<1>0. PCs = {"idle", "read", "compare", "close", "ensure", "create", "recreate",
             "build", "commit", "find", "open", "done"}
  BY DEF PCs
<1>1. CASE Start(w)
  <2>1. DOMAIN Config(version) \subseteq Paths
    BY ConfigAssumption, Types
  <2> QED
    BY <1>0, <1>1, <2>1, GoToType, Types DEF Start, RepoTypes, RunTypes
<1>2. ASSUME NEW p \in Paths, ReadFile(w, p) PROVE TypeOK'
  BY <1>2, Types DEF ReadFile, RepoTypes, RunTypes
<1>3. CASE CompareBranch(w)
  <2>1. RunTypes'
    <3>1. CASE needed[w] = {} /\ OrphansOf(desired[w]) = {}
      BY <1>0, <1>3, <3>1, EndType DEF CompareBranch
    <3>2. CASE needed[w] = {} /\ OrphansOf(desired[w]) # {}
      BY <1>0, <1>3, <3>2, GoToType, Types DEF CompareBranch, RunTypes
    <3>3. CASE needed[w] # {}
      <4>1. orphans' = [orphans EXCEPT ![w] = OrphansOf(desired[w])] /\ GoTo(w, "ensure")
            /\ UNCHANGED << cfg, todo, desired, needed, sha, moved, changes >>
        BY <1>3, <3>3 DEF CompareBranch
      <4>2. orphans' \in [Workers -> SUBSET (Paths \X Statuses)]
        BY <4>1, OrphansType, Types DEF RunTypes
      <4> QED
        BY <1>0, <4>1, <4>2, GoToType, Types DEF RunTypes
    <3> QED
      BY <3>1, <3>2, <3>3
  <2> QED
    BY <1>3, <2>1, Types DEF CompareBranch, RepoTypes
<1>4. CASE CloseBranch(w)
  <2>1. sha' \in [Workers -> Tree] /\ changes' \in [Workers -> ChangeSets] /\ files' \in Tree
    BY <1>4, NoFilesType, NoChangesType, Types DEF CloseBranch, Forget, RunTypes
  <2> QED
    BY <1>0, <1>4, <2>1, GoToType, QuietTypes, NoFilesType, Types
       DEF CloseBranch, Forget, RepoTypes, RunTypes
<1>5. CASE EnsureBranch(w)
  <2>1. RunTypes'
    <3>1. CASE exists
      BY <1>0, <1>5, <3>1, GoToType, Types DEF EnsureBranch, RunTypes
    <3>2. CASE ~exists /\ born
      BY <1>0, <1>5, <3>2, GoToType, Types DEF EnsureBranch, RunTypes, RepoTypes
    <3>3. CASE ~exists /\ ~born
      BY <1>0, <1>5, <3>3, EndType DEF EnsureBranch
    <3> QED
      BY <3>1, <3>2, <3>3
  <2> QED
    BY <1>5, <2>1, Types DEF EnsureBranch, RepoTypes
<1>6. CASE CreateRef(w)
  BY <1>0, <1>6, GoToType, QuietTypes, Types DEF CreateRef, RepoTypes, RunTypes
<1>7. CASE DeleteNestedRefs(w)
  BY <1>0, <1>7, GoToType, QuietTypes, Types DEF DeleteNestedRefs, RepoTypes, RunTypes
<1>8. CASE RefTaken(w)
  BY <1>0, <1>8, EndType, Types DEF RefTaken, RepoTypes
<1>9. CASE BuildChanges(w)
  BY <1>0, <1>9, ChangesType, GoToType, Types DEF BuildChanges, RepoTypes, RunTypes
<1>10. CASE Commit(w)
  <2>1. \A p \in DOMAIN changes[w] : changes[w][p] \in Contents \cup {Absent}
    BY Types DEF RunTypes, ChangeSets
  <2>2. files' \in Tree
    BY <1>10, <2>1 DEF Commit, TypeOK, Tree
  <2> QED
    BY <1>0, <1>10, <2>2, GoToType, QuietTypes, Types DEF Commit, RepoTypes, RunTypes
<1>11. CASE CommitRefused(w)
  BY <1>0, <1>11, EndType, Types DEF CommitRefused, RepoTypes
<1>12. CASE FindPullRequest(w)
  <2>1. RunTypes'
    <3>1. CASE open
      BY <1>0, <1>12, <3>1, EndType DEF FindPullRequest
    <3>2. CASE ~open
      BY <1>0, <1>12, <3>2, GoToType, Types DEF FindPullRequest, RunTypes
    <3> QED
      BY <3>1, <3>2
  <2> QED
    BY <1>12, <2>1, Types DEF FindPullRequest, RepoTypes
<1>13. CASE OpenPullRequest(w)
  BY <1>0, <1>13, EndType, QuietTypes, Types DEF OpenPullRequest, RepoTypes
<1>14. CASE PullRequestRefused(w)
  BY <1>0, <1>14, EndType, Types DEF PullRequestRefused, RepoTypes
<1>15. CASE Fail(w)
  BY <1>0, <1>15, DisturbBound, EndType, Types DEF Fail, RepoTypes
<1> QED
  BY <1>1, <1>2, <1>3, <1>4, <1>5, <1>6, <1>7, <1>8, <1>9, <1>10, <1>11, <1>12, <1>13,
     <1>14, <1>15 DEF Progress

-----------------------------------------------------------------------------
(* What run w knows is left alone.                                         *)
SameRun(w) ==
    /\ pc'[w] = pc[w] /\ cfg'[w] = cfg[w] /\ todo'[w] = todo[w]
    /\ desired'[w] = desired[w] /\ needed'[w] = needed[w]
    /\ orphans'[w] = orphans[w] /\ changes'[w] = changes[w]

(* The step has disturbed w, or changed nothing that w goes by.            *)
Considerate(w) ==
    quiet'[w] => quiet[w] /\ UNCHANGED << version, born, base, exists, files, fork, open >>

(* A run knows what it knows however others go on.                         *)
LEMMA Bystander ==
    ASSUME NEW w \in Workers, Own(w), SameRun(w), Considerate(w), born => born'
    PROVE  Own(w)'
<1>1. InConfig(w)' /\ Placed(w)'
  BY DEF Own, InConfig, Placed, SameRun
<1>2. ASSUME quiet'[w] PROVE Undisturbed(w)'
  <2>1. Undisturbed(w) /\ quiet[w]
    BY <1>2 DEF Own, Considerate
  <2>2. UNCHANGED << version, born, base, exists, files, fork, open >>
    BY <1>2 DEF Considerate
  <2>3. \A keep : OrphansOf(keep)' = OrphansOf(keep)
    BY <2>2 DEF OrphansOf, Changed, Status
  <2>4. OrphansOf(desired[w])' = OrphansOf(desired[w])
        /\ OrphansOf(Desired(version, base))' = OrphansOf(Desired(version, base))
    BY <2>2 DEF OrphansOf, Changed, Status, SameRun
  <2>5. /\ Needed(version, base)' = Needed(version, base)
        /\ Desired(version, base)' = Desired(version, base)
    BY <2>2
  <2>6. ChangesOf(w)' = ChangesOf(w)
    BY <2>2 DEF ChangesOf, Additions, Undone, SameRun
  <2>7. Staged' <=> Staged
    BY <2>2, <2>4, <2>5 DEF Staged
  <2>8. Reading(w)' /\ HasRead(w)' /\ Wanting(w)'
    BY <2>1, <2>5 DEF Undisturbed, Reading, HasRead, Wanting, SameRun
  <2>9. HasCompared(w)' /\ HasBranch(w)' /\ Committing(w)'
    BY <2>1, <2>2, <2>4, <2>6 DEF Undisturbed, HasCompared, HasBranch, Committing, SameRun
  <2>10. HasStaged(w)' /\ Over(w)'
    BY <2>1, <2>2, <2>4, <2>5, <2>7 DEF Undisturbed, HasStaged, Over, SameRun
  <2> QED
    BY <2>1, <2>2, <2>8, <2>9, <2>10 DEF Undisturbed, SameRun
<1>3. ~quiet'[w] => Undisturbed(w)'
  BY DEF Undisturbed
<1> QED
  BY <1>1, <1>2, <1>3 DEF Own

(* People, bots and the settings file disturb every run.                   *)
LEMMA OutsideKeeps ==
    ASSUME IInv,
           \/ ChangeConfig
           \/ \E p \in Paths, c \in Contents \cup {Absent} : EditBase(p, c)
           \/ \E squash, delete \in BOOLEAN : MergePullRequest(squash, delete)
           \/ ClosePullRequest
    PROVE  (exists' => born') /\ \A w \in Workers : Own(w)'
<1>1. NobodyQuiet /\ (born' = TRUE \/ born' = born) /\ (exists' = FALSE \/ exists' = exists)
  <2>1. CASE ChangeConfig
    BY <2>1 DEF ChangeConfig, repoVars
  <2>2. CASE \E p \in Paths, c \in Contents \cup {Absent} : EditBase(p, c)
    BY <2>2 DEF EditBase
  <2>3. ASSUME NEW squash \in BOOLEAN, NEW delete \in BOOLEAN, MergePullRequest(squash, delete)
        PROVE  NobodyQuiet /\ born' = born /\ (exists' = FALSE \/ exists' = exists)
    BY <2>3 DEF MergePullRequest
  <2>4. CASE ClosePullRequest
    BY <2>4 DEF ClosePullRequest
  <2> QED
    BY <2>1, <2>2, <2>3, <2>4
<1>2. UNCHANGED << pc, cfg, todo, desired, needed, orphans, changes >>
  BY DEF ChangeConfig, EditBase, MergePullRequest, ClosePullRequest, runVars
<1>3. \A w \in Workers : SameRun(w) /\ Considerate(w)
  BY <1>1, <1>2 DEF SameRun, Considerate, NobodyQuiet
<1>4. (born => born') /\ (exists' => born')
  BY <1>1 DEF IInv
<1> QED
  BY <1>3, <1>4, Bystander DEF IInv

(* A run leaves alone what the others know, and disturbs them if it writes.*)
LEMMA RunIsConsiderate ==
    ASSUME TypeOK, NEW v \in Workers, NEW w \in Workers \ {v}, Start(v) \/ Progress(v) \/ Fail(v)
    PROVE  SameRun(w) /\ Considerate(w) /\ (born => born')
<1> USE DEF SameRun, Considerate, RunTypes, repoVars, runVars
<1>0. \A p : End(v, p) => SameRun(w)
  BY Types DEF End, GoTo, Forget
<1>1. CASE Start(v)
  BY <1>1, Types DEF Start, GoTo
<1>2. ASSUME NEW p \in Paths, ReadFile(v, p) PROVE SameRun(w) /\ Considerate(w) /\ (born => born')
  BY <1>2, Types DEF ReadFile
<1>3. CASE CompareBranch(v)
  <2>1. UNCHANGED << version, repoVars, quiet >>
    BY <1>3 DEF CompareBranch
  <2>2. SameRun(w)
    <3>1. CASE needed[v] = {} /\ OrphansOf(desired[v]) = {}
      BY <1>0, <1>3, <3>1 DEF CompareBranch
    <3>2. CASE needed[v] = {} /\ OrphansOf(desired[v]) # {}
      BY <1>3, <3>2, Types DEF CompareBranch, GoTo
    <3>3. CASE needed[v] # {}
      BY <1>3, <3>3, Types DEF CompareBranch, GoTo
    <3> QED
      BY <3>1, <3>2, <3>3
  <2> QED
    BY <2>1, <2>2
<1>4. CASE CloseBranch(v)
  BY <1>4, Types DEF CloseBranch, GoTo, Forget, OnlyQuiet
<1>5. CASE EnsureBranch(v)
  <2>1. UNCHANGED << version, repoVars, quiet >>
    BY <1>5 DEF EnsureBranch
  <2>2. SameRun(w)
    <3>1. CASE exists
      BY <1>5, <3>1, Types DEF EnsureBranch, GoTo
    <3>2. CASE ~exists /\ born
      BY <1>5, <3>2, Types DEF EnsureBranch, GoTo
    <3>3. CASE ~exists /\ ~born
      BY <1>0, <1>5, <3>3 DEF EnsureBranch
    <3> QED
      BY <3>1, <3>2, <3>3, Types DEF RepoTypes
  <2> QED
    BY <2>1, <2>2
<1>6. CASE CreateRef(v)
  BY <1>6, Types DEF CreateRef, GoTo, OnlyQuiet
<1>7. CASE DeleteNestedRefs(v)
  BY <1>7, Types DEF DeleteNestedRefs, GoTo, OnlyQuiet
<1>8. CASE RefTaken(v)
  BY <1>0, <1>8 DEF RefTaken
<1>9. CASE BuildChanges(v)
  BY <1>9, Types DEF BuildChanges, GoTo
<1>10. CASE Commit(v)
  BY <1>10, Types DEF Commit, GoTo, OnlyQuiet
<1>11. CASE CommitRefused(v)
  BY <1>0, <1>11 DEF CommitRefused
<1>12. CASE FindPullRequest(v)
  <2>1. UNCHANGED << version, repoVars, quiet >>
    BY <1>12 DEF FindPullRequest
  <2>2. SameRun(w)
    BY <1>0, <1>12, Types DEF FindPullRequest, GoTo
  <2> QED
    BY <2>1, <2>2
<1>13. CASE OpenPullRequest(v)
  BY <1>0, <1>13 DEF OpenPullRequest, OnlyQuiet
<1>14. CASE PullRequestRefused(v)
  BY <1>0, <1>14 DEF PullRequestRefused
<1>15. CASE Fail(v)
  BY <1>0, <1>15 DEF Fail
<1> QED
  BY <1>1, <1>2, <1>3, <1>4, <1>5, <1>6, <1>7, <1>8, <1>9, <1>10, <1>11, <1>12, <1>13,
     <1>14, <1>15 DEF Progress

-----------------------------------------------------------------------------
(* What an undisturbed run leaves when it has ended well.                  *)
LeftBehind ==
    IF Needed(version, base) = {} THEN OrphansOf(Desired(version, base)) = {}
    ELSE born => exists /\ open /\ Staged

(* A run that is over.                                                     *)
LEMMA Ended ==
    ASSUME TypeOK, NEW w \in Workers, Own(w), NEW p \in {"idle", "done"},
           pc'[w] = p, Forget(w), cfg'[w] = cfg[w], UNCHANGED version, quiet'[w] => quiet[w],
           p = "done" /\ quiet[w] => LeftBehind'
    PROVE  Own(w)'
<1>1. todo'[w] = {} /\ desired'[w] = {} /\ needed'[w] = {}
  BY Types DEF Forget, RunTypes
<1>2. InConfig(w)' /\ Placed(w)'
  BY <1>1 DEF InConfig, Placed
<1>3. quiet'[w] => cfg'[w] = version'
  BY DEF Own, Undisturbed
<1>4. Reading(w)' /\ HasRead(w)' /\ Wanting(w)' /\ HasCompared(w)' /\ HasBranch(w)'
      /\ Committing(w)' /\ HasStaged(w)'
  BY DEF Reading, HasRead, Wanting, HasCompared, HasBranch, Committing, HasStaged, AfterReading
<1>5. quiet'[w] => Over(w)'
  BY DEF Over, LeftBehind
<1> QED
  BY <1>2, <1>3, <1>4, <1>5 DEF Own, Undisturbed

(* Starting anew.                                                          *)
LEMMA StartOwn ==
    ASSUME TypeOK, NEW w \in Workers, Own(w), Start(w)
    PROVE  Own(w)'
<1>1. pc'[w] = "read" /\ cfg'[w] = version /\ todo'[w] = DOMAIN Config(version)
      /\ desired'[w] = {} /\ needed'[w] = {} /\ UNCHANGED << version, repoVars >>
  BY Types DEF Start, GoTo, RunTypes, Own, InConfig
<1>2. InConfig(w)' /\ Placed(w)'
  BY <1>1 DEF InConfig, Placed
<1>3. Reading(w)'
  <2>1. Desired(version', base') \subseteq DOMAIN Config(version')
        /\ Needed(version', base') \subseteq DOMAIN Config(version')
    BY DEF Desired, Needed
  <2> QED
    BY <1>1, <2>1 DEF Reading
<1>4. HasRead(w)' /\ Wanting(w)' /\ HasCompared(w)' /\ HasBranch(w)'
      /\ Committing(w)' /\ HasStaged(w)' /\ Over(w)'
  BY <1>1 DEF HasRead, Wanting, HasCompared, HasBranch, Committing, HasStaged, AfterReading, Over
<1> QED
  BY <1>1, <1>2, <1>3, <1>4 DEF Own, Undisturbed

(* Reading a file.                                                         *)
LEMMA ReadFileOwn ==
    ASSUME TypeOK, NEW w \in Workers, Own(w), NEW p \in Paths, ReadFile(w, p)
    PROVE  Own(w)'
<1>1. /\ pc[w] = "read" /\ pc'[w] = "read" /\ cfg'[w] = cfg[w] /\ quiet'[w] = quiet[w]
      /\ p \in todo[w] /\ todo'[w] = todo[w] \ {p}
      /\ desired'[w] = IF LeftAhead(cfg[w], base, p) THEN desired[w] ELSE desired[w] \cup {p}
      /\ needed'[w] = IF IsNeeded(cfg[w], base, p) THEN needed[w] \cup {p} ELSE needed[w]
      /\ UNCHANGED << version, repoVars >>
  BY Types DEF ReadFile, RunTypes
<1>2. p \in DOMAIN Config(cfg[w])
  BY <1>1 DEF Own, InConfig
<1>3. InConfig(w)' /\ Placed(w)'
  BY <1>1, <1>2 DEF Own, InConfig, Placed
<1>4. quiet[w] => Reading(w)'
  <2> SUFFICES ASSUME quiet[w] PROVE Reading(w)'
    OBVIOUS
  <2>1. cfg[w] = version /\ desired[w] = Desired(version, base) \ todo[w]
        /\ needed[w] = Needed(version, base) \ todo[w]
    BY <1>1 DEF Own, Undisturbed, Reading
  <2>2. (p \in Desired(version, base) <=> ~LeftAhead(cfg[w], base, p))
        /\ (p \in Needed(version, base) <=> IsNeeded(cfg[w], base, p))
    BY <1>2, <2>1 DEF Desired, Needed
  <2>3. desired'[w] = Desired(version, base) \ todo'[w]
    BY <1>1, <2>1, <2>2
  <2>4. needed'[w] = Needed(version, base) \ todo'[w]
    BY <1>1, <2>1, <2>2
  <2> QED
    BY <1>1, <2>3, <2>4 DEF Reading, repoVars
<1>5. HasRead(w)' /\ Wanting(w)' /\ HasCompared(w)' /\ HasBranch(w)'
      /\ Committing(w)' /\ HasStaged(w)' /\ Over(w)'
  BY <1>1 DEF HasRead, Wanting, HasCompared, HasBranch, Committing, HasStaged, AfterReading, Over
<1> QED
  BY <1>1, <1>3, <1>4, <1>5 DEF Own, Undisturbed

(* A step that moves a run on, and keeps what it has read.                 *)
LEMMA MovedOn ==
    ASSUME TypeOK, NEW w \in Workers, Own(w), pc[w] \notin {"idle", "done"},
           NEW p \in AfterReading, pc'[w] = p,
           cfg'[w] = cfg[w], todo'[w] = todo[w], desired'[w] = desired[w], needed'[w] = needed[w],
           UNCHANGED << version, base >>, quiet'[w] => quiet[w],
           p \in {"create", "recreate"} => born',
           quiet[w] => /\ desired[w] = Desired(version, base)
                       /\ needed[w] = Needed(version, base)
                       /\ needed[w] = {} <=> p = "close",
           quiet[w] => HasCompared(w)' /\ HasBranch(w)' /\ Committing(w)' /\ HasStaged(w)'
    PROVE  Own(w)'
<1>1. InConfig(w)' /\ Placed(w)'
  BY DEF Own, InConfig, Placed, AfterReading
<1>2. quiet[w] => Reading(w)' /\ HasRead(w)' /\ Wanting(w)' /\ Over(w)'
  BY DEF Reading, HasRead, Wanting, Over, AfterReading
<1>3. quiet[w] => cfg'[w] = version'
  BY DEF Own, Undisturbed
<1> QED
  BY <1>1, <1>2, <1>3 DEF Own, Undisturbed

(* Comparing the branch: what is stale is what there is.                   *)
LEMMA CompareOwn ==
    ASSUME TypeOK, NEW w \in Workers, Own(w), CompareBranch(w)
    PROVE  Own(w)'
<1>1. pc[w] = "read" /\ todo[w] = {} /\ UNCHANGED << version, repoVars, quiet >>
  BY DEF CompareBranch
<1>2. quiet[w] => desired[w] = Desired(version, base) /\ needed[w] = Needed(version, base)
  BY <1>1 DEF Own, Undisturbed, Reading
<1>3. \A keep : OrphansOf(keep)' = OrphansOf(keep)
  BY <1>1 DEF OrphansOf, Changed, Status, repoVars
<1>4. CASE needed[w] = {} /\ OrphansOf(desired[w]) = {}
  <2>1. End(w, "done")
    BY <1>4 DEF CompareBranch
  <2>2. pc'[w] = "done" /\ Forget(w) /\ cfg'[w] = cfg[w]
    BY <2>1, Types DEF End, GoTo, RunTypes
  <2>3. quiet[w] => OrphansOf(Desired(version, base)) = {} /\ Needed(version, base) = {}
    BY <1>2, <1>4
  <2>4. OrphansOf(Desired(version, base))' = OrphansOf(Desired(version, base))
    BY <1>1 DEF OrphansOf, Changed, Status, repoVars
  <2>5. quiet[w] => LeftBehind'
    BY <1>1, <2>3, <2>4 DEF LeftBehind, repoVars
  <2> QED
    BY <1>1, <2>2, <2>5, Ended
<1>5. CASE needed[w] = {} /\ OrphansOf(desired[w]) # {}
  <2>1. pc'[w] = "close" /\ UNCHANGED runVars
    BY <1>5, Types DEF CompareBranch, GoTo, RunTypes
  <2>2. HasCompared(w)' /\ HasBranch(w)' /\ Committing(w)' /\ HasStaged(w)'
    BY <2>1 DEF HasCompared, HasBranch, Committing, HasStaged
  <2> QED
    BY <1>1, <1>2, <1>5, <2>1, <2>2, MovedOn DEF AfterReading, runVars, repoVars
<1>6. CASE needed[w] # {}
  <2>1. /\ pc'[w] = "ensure" /\ orphans'[w] = OrphansOf(desired[w])
        /\ UNCHANGED << cfg, todo, desired, needed >>
    BY <1>6, Types DEF CompareBranch, GoTo, RunTypes
  <2>2. HasCompared(w)'
    <3>1. OrphansOf(desired[w])' = OrphansOf(desired[w])
      BY <1>1, <2>1 DEF OrphansOf, Changed, Status, repoVars
    <3> QED
      BY <2>1, <3>1 DEF HasCompared
  <2>3. HasBranch(w)' /\ Committing(w)' /\ HasStaged(w)'
    BY <2>1 DEF HasBranch, Committing, HasStaged
  <2> QED
    BY <1>1, <1>2, <1>6, <2>1, <2>2, <2>3, MovedOn DEF AfterReading, repoVars
<1> QED
  BY <1>4, <1>5, <1>6

(* Without a branch nothing is stale.                                      *)
LEMMA NoBranchNoOrphans ==
    /\ ~exists => \A keep : OrphansOf(keep) = {}
    /\ ~exists' => OrphansOf(Desired(version, base))' = {}
  BY DEF OrphansOf, Changed

(* Deleting the branch, when nothing is needed.                            *)
LEMMA CloseOwn ==
    ASSUME TypeOK, NEW w \in Workers, Own(w), CloseBranch(w)
    PROVE  Own(w)'
<1>1. /\ pc[w] = "close" /\ pc'[w] = "done" /\ exists' = FALSE /\ Forget(w)
      /\ UNCHANGED << version, base, cfg >> /\ OnlyQuiet(w)
  BY Types DEF CloseBranch, GoTo, RunTypes
<1>2. quiet'[w] => quiet[w]
  BY <1>1 DEF OnlyQuiet
<1>3. OrphansOf(Desired(version, base))' = {}
  BY <1>1, NoBranchNoOrphans
<1>4. quiet[w] => Needed(version, base) = {}
  BY <1>1 DEF Own, Undisturbed, HasRead, Wanting, AfterReading
<1>5. quiet[w] => LeftBehind'
  BY <1>1, <1>3, <1>4 DEF LeftBehind
<1> QED
  BY <1>1, <1>2, <1>5, Ended

(* What every step after the reading begins from.                          *)
LEMMA HasReadAll ==
    ASSUME NEW w \in Workers, Own(w), pc[w] \in AfterReading, quiet[w]
    PROVE  /\ desired[w] = Desired(version, base)
           /\ needed[w] = Needed(version, base)
           /\ needed[w] = {} <=> pc[w] = "close"
  BY DEF Own, Undisturbed, HasRead, Wanting

(* Finding the branch, or the base to branch from.                         *)
LEMMA EnsureOwn ==
    ASSUME TypeOK, NEW w \in Workers, Own(w), EnsureBranch(w)
    PROVE  Own(w)'
<1>1. pc[w] = "ensure" /\ UNCHANGED << version, repoVars, quiet >>
  BY DEF EnsureBranch
<1>2. \A keep : OrphansOf(keep)' = OrphansOf(keep)
  BY <1>1 DEF OrphansOf, Changed, Status, repoVars
<1>3. quiet[w] => orphans[w] = OrphansOf(desired[w])
  BY <1>1 DEF Own, Undisturbed, HasCompared
<1>4. CASE exists
  <2>1. pc'[w] = "build" /\ UNCHANGED << cfg, todo, desired, needed, orphans >>
    BY <1>4, Types DEF EnsureBranch, GoTo, RunTypes
  <2>2. quiet[w] => HasCompared(w)'
    <3>1. OrphansOf(desired[w])' = OrphansOf(desired[w])
      BY <1>1, <2>1 DEF OrphansOf, Changed, Status, repoVars
    <3> QED
      BY <1>3, <2>1, <3>1 DEF HasCompared
  <2>3. HasBranch(w)' /\ Committing(w)' /\ HasStaged(w)'
    BY <1>1, <1>4, <2>1 DEF HasBranch, Committing, HasStaged, repoVars
  <2> QED
    BY <1>1, <2>1, <2>2, <2>3, HasReadAll, MovedOn DEF AfterReading, repoVars
<1>5. CASE ~exists /\ born
  <2>1. pc'[w] = "create" /\ UNCHANGED << cfg, todo, desired, needed, orphans >>
    BY <1>5, Types DEF EnsureBranch, GoTo, RunTypes
  <2>2. quiet[w] => HasCompared(w)'
    <3>1. OrphansOf(desired[w])' = OrphansOf(desired[w])
      BY <1>1, <2>1 DEF OrphansOf, Changed, Status, repoVars
    <3> QED
      BY <1>3, <2>1, <3>1 DEF HasCompared
  <2>3. HasBranch(w)' /\ Committing(w)' /\ HasStaged(w)'
    BY <2>1 DEF HasBranch, Committing, HasStaged
  <2> QED
    BY <1>1, <1>5, <2>1, <2>2, <2>3, HasReadAll, MovedOn DEF AfterReading, repoVars
<1>6. CASE ~exists /\ ~born
  <2>1. End(w, "done")
    BY <1>6 DEF EnsureBranch
  <2>2. pc'[w] = "done" /\ Forget(w) /\ cfg'[w] = cfg[w]
    BY <2>1, Types DEF End, GoTo, RunTypes
  <2>3. quiet[w] => Needed(version, base) # {}
    BY <1>1, HasReadAll DEF AfterReading
  <2>4. quiet[w] => LeftBehind'
    BY <1>1, <1>6, <2>3 DEF LeftBehind, repoVars
  <2> QED
    BY <1>1, <2>2, <2>4, Ended
<1> QED
  BY <1>4, <1>5, <1>6, Types DEF RepoTypes

(* A new branch is the base, or what was the base when it was read: it     *)
(* differs from the merge base in nothing.                                 *)
LEMMA CreateRefOwn ==
    ASSUME TypeOK, NEW w \in Workers, Own(w), CreateRef(w)
    PROVE  Own(w)'
<1>1. /\ pc[w] \in {"create", "recreate"} /\ pc'[w] = "build" /\ ~exists /\ exists' = TRUE
      /\ files' = fork' /\ OnlyQuiet(w)
      /\ UNCHANGED << version, born, base, cfg, todo, desired, needed, orphans >>
  BY Types DEF CreateRef, GoTo, RunTypes
<1>2. quiet'[w] => quiet[w]
  BY <1>1 DEF OnlyQuiet
<1>3. quiet[w] => orphans[w] = {}
  BY <1>1, NoBranchNoOrphans DEF Own, Undisturbed, HasCompared
<1>4. OrphansOf(desired[w])' = {}
  BY <1>1 DEF OrphansOf, Changed
<1>5. quiet[w] => HasCompared(w)'
  BY <1>1, <1>3, <1>4 DEF HasCompared
<1>6. HasBranch(w)' /\ Committing(w)' /\ HasStaged(w)'
  BY <1>1 DEF HasBranch, Committing, HasStaged
<1> QED
  BY <1>1, <1>2, <1>5, <1>6, HasReadAll, MovedOn DEF AfterReading

(* Making room for the branch.                                             *)
LEMMA DeleteNestedRefsOwn ==
    ASSUME TypeOK, NEW w \in Workers, Own(w), DeleteNestedRefs(w)
    PROVE  Own(w)'
<1>1. /\ pc[w] = "create" /\ pc'[w] = "recreate" /\ OnlyQuiet(w)
      /\ UNCHANGED << version, born, base, exists, files, fork, runVars >>
  BY Types DEF DeleteNestedRefs, GoTo, RunTypes
<1>2. quiet'[w] => quiet[w]
  BY <1>1 DEF OnlyQuiet
<1>3. OrphansOf(desired[w])' = OrphansOf(desired[w])
  BY <1>1 DEF OrphansOf, Changed, Status, runVars
<1>4. quiet[w] => HasCompared(w)'
  BY <1>1, <1>3 DEF Own, Undisturbed, HasCompared, runVars
<1>5. HasBranch(w)' /\ Committing(w)' /\ HasStaged(w)' /\ born'
  BY <1>1 DEF HasBranch, Committing, HasStaged, Own, Placed
<1> QED
  BY <1>1, <1>2, <1>4, <1>5, HasReadAll, MovedOn DEF AfterReading, runVars

(* If nothing is left to commit, all is staged.                            *)
LEMMA NothingLeftIsStaged ==
    ASSUME TypeOK, NEW w \in Workers,
           cfg[w] = version, desired[w] = Desired(version, base), needed[w] = Needed(version, base),
           orphans[w] = OrphansOf(desired[w]), DOMAIN ChangesOf(w) = {}
    PROVE  Staged
<1>1. Additions(w) = {} /\ Undone(w) = {}
  BY DEF ChangesOf
<1>2. \A p \in Needed(version, base) : files[p] = Config(version)[p].content
  BY <1>1 DEF Additions
<1>3. ASSUME NEW o \in OrphansOf(desired[w])
      PROVE  o[2] = "modified" /\ files[o[1]] = base[o[1]]
  <2>1. files[o[1]] # Absent /\ o[2] \in {"added", "modified"}
    BY <1>3 DEF OrphansOf, Status
  <2>2. ~(o[2] = "modified" => base[o[1]] # files[o[1]])
    BY <1>1, <2>1 DEF Undone
  <2> QED
    BY <2>1, <2>2
<1> QED
  BY <1>2, <1>3 DEF Staged

(* Once the changes are on the branch, all is staged.                      *)
LEMMA CommittedIsStaged ==
    ASSUME TypeOK, NEW w \in Workers, InConfig(w), exists,
           cfg[w] = version, desired[w] = Desired(version, base), needed[w] = Needed(version, base),
           orphans[w] = OrphansOf(desired[w]),
           files' = [p \in Paths |->
                       IF p \in DOMAIN ChangesOf(w) THEN ChangesOf(w)[p] ELSE files[p]],
           UNCHANGED << version, base, exists, fork >>
    PROVE  Staged'
<1> DEFINE C == ChangesOf(w)
<1>1. DOMAIN C = Additions(w) \cup {o[1] : o \in Undone(w)}
      /\ \A p \in DOMAIN C : C[p] = IF p \in Additions(w) THEN Config(cfg[w])[p].content
                                   ELSE IF << p, "added" >> \in orphans[w] THEN Absent
                                   ELSE base[p]
  BY DEF ChangesOf
<1> HIDE DEF C
<1>2. \A p \in Paths : files'[p] = IF p \in DOMAIN C THEN C[p] ELSE files[p]
  BY DEF C
<1>3. ASSUME NEW p \in Needed(version, base) PROVE files'[p] = Config(version)[p].content
  <2>1. p \in Paths
    BY DEF TypeOK
  <2>2. CASE p \in Additions(w)
    BY <1>1, <1>2, <2>1, <2>2
  <2>3. CASE p \notin Additions(w)
    <3>1. files[p] = Config(version)[p].content
      BY <2>3 DEF Additions
    <3>2. p \in Desired(version, base)
      BY NeededIsDesired
    <3>3. \A o \in Undone(w) : o[1] # p
      BY <3>2 DEF Undone, OrphansOf
    <3>4. p \notin DOMAIN C
      BY <1>1, <2>3, <3>3
    <3> QED
      BY <1>2, <2>1, <3>1, <3>4
  <2> QED
    BY <2>2, <2>3
<1>4. ASSUME NEW p \in Paths \ Desired(version, base), files'[p] # fork[p], files'[p] # Absent
      PROVE  fork[p] # Absent /\ files'[p] = base[p]
  <2>1. p \notin Additions(w)
    BY NeededIsDesired DEF Additions
  <2>2. CASE p \in DOMAIN C
    <3>1. PICK o \in Undone(w) : o[1] = p
      BY <1>1, <2>1, <2>2
    <3>2. << p, "added" >> \notin orphans[w] /\ files'[p] = base[p]
      BY <1>1, <1>2, <1>4, <2>1, <2>2
    <3>3. o \in OrphansOf(desired[w]) /\ o[1] = p
      BY <3>1 DEF Undone
    <3>4. o = << o[1], o[2] >> /\ o[2] = Status(p)
      BY <3>3 DEF OrphansOf
    <3>5. Status(p) # "added"
      BY <3>2, <3>3, <3>4
    <3> QED
      BY <3>2, <3>5 DEF Status
  <2>3. CASE p \notin DOMAIN C
    <3>1. files'[p] = files[p]
      BY <1>2, <2>3
    <3>2. << p, Status(p) >> \in OrphansOf(desired[w])
      BY <1>4, <3>1 DEF OrphansOf, Changed, Status, Statuses
    <3>3. << p, Status(p) >> \notin Undone(w)
      <4>1. ASSUME << p, Status(p) >> \in Undone(w) PROVE FALSE
        <5>1. << p, Status(p) >>[1] = p
          OBVIOUS
        <5> QED
          BY <1>1, <2>3, <4>1, <5>1
      <4> QED
        BY <4>1
    <3>4. Status(p) = "modified" /\ base[p] = files[p]
      BY <1>4, <3>1, <3>2, <3>3 DEF Undone
    <3> QED
      BY <3>1, <3>4 DEF Status
  <2> QED
    BY <2>2, <2>3
<1>5. ASSUME NEW o \in OrphansOf(Desired(version, base))'
      PROVE  o[2] = "modified" /\ files'[o[1]] = base'[o[1]]
  <2>1. /\ o[1] \in Paths \ Desired(version, base)
        /\ files'[o[1]] # fork[o[1]] /\ files'[o[1]] # Absent
    BY DEF OrphansOf, Changed
  <2>2. o[2] = IF fork[o[1]] = Absent THEN "added" ELSE "modified"
    BY DEF OrphansOf, Status
  <2> QED
    BY <1>4, <2>1, <2>2
<1> QED
  BY <1>3, <1>5 DEF Staged

(* What is staged stays staged while nobody touches the branches.          *)
LEMMA StagedStays ==
    ASSUME UNCHANGED << version, base, exists, files, fork >>
    PROVE  Staged' <=> Staged
<1>1. OrphansOf(Desired(version, base))' = OrphansOf(Desired(version, base))
  BY DEF OrphansOf, Changed, Status
<1> QED
  BY <1>1 DEF Staged

(* Deciding what to commit.                                                *)
LEMMA BuildChangesOwn ==
    ASSUME TypeOK, NEW w \in Workers, Own(w), BuildChanges(w)
    PROVE  Own(w)'
<1>1. /\ pc[w] = "build" /\ changes'[w] = ChangesOf(w)
      /\ pc'[w] = IF DOMAIN ChangesOf(w) = {} THEN "find" ELSE "commit"
      /\ UNCHANGED << version, repoVars, cfg, todo, desired, needed, orphans, quiet >>
  BY Types DEF BuildChanges, GoTo, RunTypes
<1>2. quiet[w] => cfg[w] = version /\ exists /\ orphans[w] = OrphansOf(desired[w])
  BY <1>1 DEF Own, Undisturbed, HasBranch, HasCompared
<1>3. OrphansOf(desired[w])' = OrphansOf(desired[w]) /\ ChangesOf(w)' = ChangesOf(w)
  BY <1>1 DEF OrphansOf, Changed, Status, ChangesOf, Additions, Undone, repoVars
<1>4. quiet[w] => HasCompared(w)' /\ HasBranch(w)' /\ Committing(w)'
  BY <1>1, <1>2, <1>3 DEF HasCompared, HasBranch, Committing, repoVars
<1>5. quiet[w] => HasStaged(w)'
  <2> SUFFICES ASSUME quiet[w], DOMAIN ChangesOf(w) = {} PROVE Staged'
    BY <1>1 DEF HasStaged
  <2>1. Staged
    BY <1>1, <1>2, HasReadAll, NothingLeftIsStaged DEF AfterReading
  <2> QED
    BY <1>1, <2>1, StagedStays DEF repoVars
<1> QED
  BY <1>1, <1>4, <1>5, HasReadAll, MovedOn DEF AfterReading, repoVars

(* Committing: the branch is still the one the run has read, and the       *)
(* changes are what it lacked.                                             *)
LEMMA CommitOwn ==
    ASSUME TypeOK, NEW w \in Workers, Own(w), Commit(w)
    PROVE  Own(w)'
<1>1. /\ pc[w] = "commit" /\ pc'[w] = "find" /\ exists /\ OnlyQuiet(w)
      /\ files' = [p \in Paths |-> IF p \in DOMAIN changes[w] THEN changes[w][p] ELSE files[p]]
      /\ UNCHANGED << version, born, base, exists, fork, cfg, todo, desired, needed, orphans >>
  BY Types DEF Commit, GoTo, RunTypes
<1>2. quiet'[w] => quiet[w]
  BY <1>1 DEF OnlyQuiet
<1>3. HasCompared(w)' /\ HasBranch(w)' /\ Committing(w)'
  BY <1>1 DEF HasCompared, HasBranch, Committing
<1>4. quiet[w] => HasStaged(w)'
  <2> SUFFICES ASSUME quiet[w] PROVE Staged'
    BY DEF HasStaged
  <2>1. /\ InConfig(w) /\ cfg[w] = version
        /\ orphans[w] = OrphansOf(desired[w]) /\ changes[w] = ChangesOf(w)
    BY <1>1 DEF Own, Undisturbed, HasCompared, Committing
  <2>2. desired[w] = Desired(version, base) /\ needed[w] = Needed(version, base)
    BY <1>1, HasReadAll DEF AfterReading
  <2> QED
    BY <1>1, <2>1, <2>2, CommittedIsStaged
<1> QED
  BY <1>1, <1>2, <1>3, <1>4, HasReadAll, MovedOn DEF AfterReading

(* With the pull request open and all staged, a run has left what it must. *)
LEMMA ProposedIsLeftBehind ==
    ASSUME NEW w \in Workers, Own(w), pc[w] \in {"find", "open"}, quiet[w], open',
           UNCHANGED << version, born, base, exists, files, fork >>
    PROVE  LeftBehind'
<1>1. exists /\ Staged
  BY DEF Own, Undisturbed, HasBranch, HasStaged
<1>2. Needed(version, base) # {}
  BY HasReadAll DEF AfterReading
<1> QED
  BY <1>1, <1>2, StagedStays DEF LeftBehind

(* Looking for the pull request.                                           *)
LEMMA FindPullRequestOwn ==
    ASSUME TypeOK, NEW w \in Workers, Own(w), FindPullRequest(w)
    PROVE  Own(w)'
<1>1. pc[w] = "find" /\ UNCHANGED << version, repoVars, quiet >>
  BY DEF FindPullRequest
<1>2. CASE open
  <2>1. End(w, "done")
    BY <1>2 DEF FindPullRequest
  <2>2. pc'[w] = "done" /\ Forget(w) /\ cfg'[w] = cfg[w]
    BY <2>1, Types DEF End, GoTo, RunTypes
  <2>3. quiet[w] => LeftBehind'
    BY <1>1, <1>2, ProposedIsLeftBehind DEF repoVars
  <2> QED
    BY <1>1, <2>2, <2>3, Ended
<1>3. CASE ~open
  <2>1. pc'[w] = "open" /\ UNCHANGED runVars
    BY <1>3, Types DEF FindPullRequest, GoTo, RunTypes
  <2>2. quiet[w] => HasCompared(w)' /\ HasBranch(w)' /\ Committing(w)' /\ HasStaged(w)'
    <3>1. quiet[w] => exists /\ Staged
      BY <1>1 DEF Own, Undisturbed, HasBranch, HasStaged
    <3>2. Staged' <=> Staged
      BY <1>1, StagedStays DEF repoVars
    <3> QED
      BY <1>1, <2>1, <3>1, <3>2 DEF HasCompared, HasBranch, Committing, HasStaged, repoVars
  <2> QED
    BY <1>1, <2>1, <2>2, HasReadAll, MovedOn DEF AfterReading, runVars, repoVars
<1> QED
  BY <1>2, <1>3

(* Opening the pull request.                                               *)
LEMMA OpenPullRequestOwn ==
    ASSUME TypeOK, NEW w \in Workers, Own(w), OpenPullRequest(w)
    PROVE  Own(w)'
<1>1. /\ pc[w] = "open" /\ pc'[w] = "done" /\ open' /\ Forget(w) /\ cfg'[w] = cfg[w]
      /\ OnlyQuiet(w) /\ UNCHANGED << version, born, base, exists, files, fork >>
  BY Types DEF OpenPullRequest, End, GoTo, RunTypes
<1>2. quiet'[w] => quiet[w]
  BY <1>1 DEF OnlyQuiet
<1>3. quiet[w] => LeftBehind'
  BY <1>1, ProposedIsLeftBehind
<1> QED
  BY <1>1, <1>2, <1>3, Ended

(* A run that ends badly promises nothing.                                 *)
LEMMA AbortOwn ==
    ASSUME TypeOK, NEW w \in Workers, Own(w),
           RefTaken(w) \/ CommitRefused(w) \/ PullRequestRefused(w) \/ Fail(w)
    PROVE  Own(w)'
<1>1. End(w, "idle") /\ UNCHANGED << version, quiet >>
  BY DEF RefTaken, CommitRefused, PullRequestRefused, Fail
<1>2. pc'[w] = "idle" /\ Forget(w) /\ cfg'[w] = cfg[w]
  BY <1>1, Types DEF End, GoTo, RunTypes
<1> QED
  BY <1>1, <1>2, Ended

(* Every step of a run keeps what the run itself knows.                    *)
LEMMA RunKeepsOwn ==
    ASSUME TypeOK, NEW w \in Workers, Own(w), Start(w) \/ Progress(w) \/ Fail(w)
    PROVE  Own(w)'
  BY StartOwn, ReadFileOwn, CompareOwn, CloseOwn, EnsureOwn, CreateRefOwn, DeleteNestedRefsOwn,
     BuildChangesOwn, CommitOwn, FindPullRequestOwn, OpenPullRequestOwn, AbortOwn DEF Progress

(* A run creates the managed branch only where there is a base.            *)
LEMMA RunBranchesFromBase ==
    ASSUME exists => born, NEW w \in Workers, Own(w), Start(w) \/ Progress(w) \/ Fail(w)
    PROVE  exists' => born'
<1>1. CASE CreateRef(w)
  BY <1>1 DEF CreateRef, Own, Placed
<1>2. CASE ~CreateRef(w)
  <2>1. born' = born /\ (exists' = FALSE \/ exists' = exists)
    BY <1>2 DEF Start, Progress, ReadFile, CompareBranch, CloseBranch, EnsureBranch,
                DeleteNestedRefs, RefTaken, BuildChanges, Commit, CommitRefused,
                FindPullRequest, OpenPullRequest, PullRequestRefused, Fail, repoVars
  <2> QED
    BY <2>1
<1> QED
  BY <1>1, <1>2

-----------------------------------------------------------------------------
(* Initially no run knows anything.                                        *)
LEMMA InitIInv == Init => IInv
<1> SUFFICES ASSUME Init PROVE IInv
  OBVIOUS
<1>1. TypeOK /\ ~exists
  BY InitTypeOK DEF Init
<1>2. ASSUME NEW w \in Workers PROVE Own(w)
  BY DEF Init, Own, InConfig, Placed, Undisturbed
<1> QED
  BY <1>1, <1>2 DEF IInv

(* IInv is inductive: the run that steps keeps what it knows, and disturbs *)
(* whoever else it would prove wrong.                                      *)
LEMMA NextIInv == IInv /\ [Next]_vars => IInv'
<1> SUFFICES ASSUME IInv, [Next]_vars PROVE IInv'
  OBVIOUS
<1>1. CASE \/ ChangeConfig
           \/ \E p \in Paths, c \in Contents \cup {Absent} : EditBase(p, c)
           \/ \E squash, delete \in BOOLEAN : MergePullRequest(squash, delete)
           \/ ClosePullRequest
  <2>1. TypeOK'
    BY <1>1, OutsideTypeOK DEF IInv
  <2>2. (exists' => born') /\ \A w \in Workers : Own(w)'
    BY <1>1, OutsideKeeps
  <2> QED
    BY <2>1, <2>2 DEF IInv
<1>2. ASSUME NEW v \in Workers, Start(v) \/ Progress(v) \/ Fail(v) PROVE IInv'
  <2>1. TypeOK /\ Own(v) /\ (exists => born)
    BY DEF IInv
  <2>2. TypeOK'
    BY <1>2, <2>1, RunTypeOK DEF Own
  <2>3. Own(v)'
    BY <1>2, <2>1, RunKeepsOwn
  <2>4. ASSUME NEW w \in Workers \ {v} PROVE Own(w)'
    <3>1. SameRun(w) /\ Considerate(w) /\ (born => born')
      BY <1>2, <2>1, RunIsConsiderate
    <3>2. Own(w)
      BY DEF IInv
    <3> QED
      BY <3>1, <3>2, Bystander
  <2>5. exists' => born'
    BY <1>2, <2>1, RunBranchesFromBase
  <2> QED
    BY <2>2, <2>3, <2>4, <2>5 DEF IInv
<1>3. CASE UNCHANGED vars
  <2>1. TypeOK' /\ (exists' => born')
    BY <1>3 DEF IInv, TypeOK, vars, repoVars, runVars
  <2>2. ASSUME NEW w \in Workers PROVE Own(w)'
    <3>1. SameRun(w) /\ Considerate(w) /\ (born => born')
      BY <1>3 DEF SameRun, Considerate, vars, repoVars, runVars
    <3> QED
      BY <3>1, Bystander DEF IInv
  <2> QED
    BY <2>1, <2>2 DEF IInv
<1> QED
  BY <1>1, <1>2, <1>3 DEF Next

(* In every reachable state a run that nobody has disturbed knows the      *)
(* branches as they are.                                                   *)
LEMMA Inductive == Spec => []IInv
  BY InitIInv, NextIInv, PTL DEF Spec

(* Every variable keeps its type.                                          *)
THEOREM TypeCorrect == Spec => []TypeOK
<1>1. IInv => TypeOK
  BY DEF IInv
<1> QED
  BY <1>1, Inductive, PTL

(* After a run that nobody disturbed the next one would write nothing      *)
(* (docs, configuration.md: "re-running while a PR is pending does         *)
(* nothing"), however many runs, merges and failures went before.          *)
THEOREM SecondRunQuiet == Spec => []SecondRunIsNoOp
<1>1. IInv => SecondRunIsNoOp
  <2> SUFFICES ASSUME IInv, NEW w \in Workers, Settled(w), Over(w)
               PROVE  IF Needed(version, base) = {} THEN OrphansOf(Desired(version, base)) = {}
                      ELSE born => exists /\ open /\ Staged
    BY DEF IInv, Own, Undisturbed, Settled, SecondRunIsNoOp, Staged
  <2> QED
    BY DEF Over, Settled
<1> QED
  BY <1>1, Inductive, PTL

(* After a run that nobody disturbed the pull request puts content only    *)
(* where the version declares it: what earlier runs staged for a file that *)
(* was dropped, or on which the repository is ahead now, has been undone.  *)
THEOREM NothingUnwantedLeft == Spec => []NothingUnwanted
<1>1. IInv => NothingUnwanted
  <2> SUFFICES ASSUME IInv, NEW w \in Workers, Settled(w), NEW p \in Changed,
                      files[p] \notin {Absent, base[p]}, p \notin Desired(version, base)
               PROVE  FALSE
    BY DEF NothingUnwanted
  <2>1. p \in Paths /\ exists /\ born
    BY DEF Changed, IInv
  <2>2. << p, Status(p) >> \in OrphansOf(Desired(version, base))
    BY <2>1 DEF OrphansOf, Status, Statuses
  <2>3. Over(w)
    BY DEF IInv, Own, Undisturbed, Settled
  <2>4. Staged
    BY <2>1, <2>2, <2>3 DEF Over, Settled
  <2>5. files[<< p, Status(p) >>[1]] = base[<< p, Status(p) >>[1]]
    BY <2>2, <2>4 DEF Staged
  <2> QED
    BY <2>5
<1> QED
  BY <1>1, Inductive, PTL
=============================================================================
