---------------------------- MODULE RunnerProofs ----------------------------
(* Machine-checked proofs about Runner: that no proposed commit is left    *)
(* without its check, whatever runs beside its dry run, and that what a    *)
(* run writes is what a merged configuration asks for with its overlays.   *)
EXTENDS Runner, SequenceTheorems, WellFoundedInduction, TLAPS

(* What a slot holds while n commits are proposed.                         *)
SlotStates(n) ==
    {s \in [job : Jobs(n) \cup {None}, at : {"start", "apply"},
            cfg : Configs \cup {None}, todo : SUBSET Repos, changed : BOOLEAN] :
        s.at = "apply" <=> s.cfg \in Configs}

(* The type invariant, with what each slot holds said in one place.        *)
LEMMA Types ==
    TypeOK <=>
        /\ history \in Seq(Configs) /\ Len(history) \in 1 .. MaxVersions
        /\ proposed \in Seq(Configs) /\ Len(proposed) <= MaxProposals
        /\ checks \subseteq DOMAIN proposed
        /\ queue \subseteq Jobs(Len(proposed))
        /\ slot \in [Slots -> SlotStates(Len(proposed))]
        /\ dropped \subseteq DOMAIN proposed
        /\ disturbances \in 0 .. MaxDisturbances
  BY DEF TypeOK, SlotStates

(* The same for the next state.                                            *)
LEMMA TypesNext ==
    TypeOK' <=>
        /\ history' \in Seq(Configs) /\ Len(history') \in 1 .. MaxVersions
        /\ proposed' \in Seq(Configs) /\ Len(proposed') <= MaxProposals
        /\ checks' \subseteq DOMAIN proposed'
        /\ queue' \subseteq Jobs(Len(proposed'))
        /\ slot' \in [Slots -> SlotStates(Len(proposed'))]
        /\ dropped' \subseteq DOMAIN proposed'
        /\ disturbances' \in 0 .. MaxDisturbances
  BY DEF TypeOK, SlotStates

(* An idle slot, and a job that is done, leave the types.                  *)
LEMMA IdleType == \A n \in Nat : Idle \in SlotStates(n)
  BY NoneAssumption DEF Idle, SlotStates

(* A slot that takes leave of its job keeps the types of all.              *)
LEMMA EndType ==
    ASSUME TypeOK, NEW w \in Slots, End(w)
    PROVE  slot' \in [Slots -> SlotStates(Len(proposed))]
<1>1. Len(proposed) \in Nat
  BY Types
<1> QED
  BY <1>1, IdleType, Types DEF End

(* More commits, more jobs.                                                *)
LEMMA JobsGrow ==
    ASSUME NEW n \in Nat
    PROVE  Jobs(n) \subseteq Jobs(n + 1) /\ SlotStates(n) \subseteq SlotStates(n + 1)
<1>1. 1 .. n \subseteq 1 .. n + 1
  OBVIOUS
<1>2. Jobs(n) \subseteq Jobs(n + 1)
  BY <1>1 DEF Jobs
<1> QED
  BY <1>2 DEF SlotStates

(* The jobs of repositories are jobs.                                      *)
LEMMA RepoJobs == \A n \in Nat, r \in Repos : RepoJob(r) \in Jobs(n)
  BY DEF Jobs

(* A job with a repository is for one of the account, and a dry run is for *)
(* a commit that is proposed.                                              *)
LEMMA JobFields ==
    ASSUME NEW n \in Nat, NEW j \in Jobs(n), j.name = "reconcile_repo"
    PROVE  /\ j.repo \in Repos
           /\ j.head # None => j.head \in 1 .. n
  BY ReposAssumption DEF Jobs, Installation, RepoJob, DryRun

(* No slot waits with the dry run of a commit in place of nothing.         *)
LEMMA DryRunIsJob ==
    ASSUME TypeOK, NEW k \in DOMAIN proposed
    PROVE  DryRun(k) # None /\ DryRun(k).head = k /\ k # None
           /\ DryRun(k).name = "reconcile_repo"
<1>1. k \in 1 .. MaxProposals
  BY BoundsAssumption, Types
<1> QED
  BY <1>1, NoneAssumption DEF DryRun, Jobs

(* The counter of disturbances stays within its bound.                     *)
LEMMA DisturbBound ==
    ASSUME TypeOK, Disturb
    PROVE  disturbances' \in 0 .. MaxDisturbances
  BY BoundsAssumption, Types DEF Disturb

(* The types hold initially.                                               *)
LEMMA InitTypeOK == Init => TypeOK
<1> SUFFICES ASSUME Init PROVE TypeOK
  OBVIOUS
<1>1. Len(<< >>) = 0 /\ \A c \in Configs : << c >> \in Seq(Configs) /\ Len(<< c >>) = 1
  OBVIOUS
<1>2. slot \in [Slots -> SlotStates(Len(proposed))]
  BY <1>1, IdleType DEF Init
<1> QED
  BY <1>1, <1>2, BoundsAssumption, Types DEF Init

(* Every step keeps the types.                                             *)
LEMMA NextTypeOK == TypeOK /\ [Next]_vars => TypeOK'
<1> SUFFICES ASSUME TypeOK, [Next]_vars PROVE TypeOK'
  OBVIOUS
<1> USE TypesNext
<1>0. Len(proposed) \in Nat /\ DOMAIN proposed = 1 .. Len(proposed)
  BY Types
<1>1. ASSUME NEW c \in Configs, Propose(c) PROVE TypeOK'
  <2>1. Len(proposed') = Len(proposed) + 1 /\ proposed' \in Seq(Configs)
        /\ DOMAIN proposed \subseteq DOMAIN proposed'
    BY <1>1, Types DEF Propose
  <2>2. Len(proposed') <= MaxProposals
    BY <1>0, <1>1, <2>1, BoundsAssumption DEF Propose
  <2>3. DryRun(Len(proposed) + 1) \in Jobs(Len(proposed'))
    BY <1>0, <2>1 DEF Jobs
  <2> QED
    BY <1>0, <1>1, <2>1, <2>2, <2>3, JobsGrow, Types DEF Propose
<1>2. ASSUME NEW k \in DOMAIN proposed, Merge(k) PROVE TypeOK'
  <2>1. history' \in Seq(Configs) /\ Len(history') = Len(history) + 1
    BY <1>2, Types DEF Merge
  <2>2. Len(history') \in 1 .. MaxVersions
    BY <1>2, <2>1, BoundsAssumption, Types DEF Merge
  <2>3. Installation \in Jobs(Len(proposed))
    BY DEF Jobs
  <2> QED
    BY <1>2, <2>1, <2>2, <2>3, Types DEF Merge
<1>3. ASSUME NEW r \in Repos, RepositoryEvent(r) PROVE TypeOK'
  BY <1>0, <1>3, RepoJobs, DisturbBound, Types DEF RepositoryEvent
<1>4. ASSUME NEW w \in Slots, NEW j \in queue, Take(w, j) PROVE TypeOK'
  <2>1. slot' = [slot EXCEPT ![w] = [slot[w] EXCEPT !.job = j]]
    BY <1>4, Types DEF Take
  <2>2. [slot[w] EXCEPT !.job = j] \in SlotStates(Len(proposed))
    BY Types DEF SlotStates
  <2> QED
    BY <1>4, <2>1, <2>2, Types DEF Take
<1>5. ASSUME NEW w \in Slots, FanOut(w) PROVE TypeOK'
  <2>1. queue' \subseteq Jobs(Len(proposed))
    BY <1>0, <1>5, RepoJobs, Types DEF FanOut, select_targets
  <2> QED
    BY <1>5, <2>1, EndType, Types DEF FanOut
<1>6. ASSUME NEW w \in Slots, Load(w) PROVE TypeOK'
  <2> DEFINE todo == TargetsOf(Loaded(w), slot[w].job.repo)
  <2>1. slot[w].job \in Jobs(Len(proposed)) /\ slot[w].job.name = "reconcile_repo"
    BY <1>6, Types DEF Load, IsAt, SlotStates
  <2>2. todo \subseteq Repos
    BY <1>0, <2>1, JobFields DEF TargetsOf, select_targets
  <2>3. Loaded(w) \in Configs
    <3>1. CASE IsDryRun(w)
      <4>1. slot[w].job.head \in 1 .. Len(proposed)
        BY <1>0, <2>1, <3>1, JobFields DEF IsDryRun
      <4> QED
        BY <3>1, <4>1, Types DEF Loaded
    <3>2. CASE ~IsDryRun(w)
      BY <3>2, Types DEF Loaded
    <3> QED
      BY <3>1, <3>2
  <2>4. slot' \in [Slots -> SlotStates(Len(proposed))]
    <3> HIDE DEF todo
    <3>1. CASE slot' = [slot EXCEPT ![w].at = "apply", ![w].cfg = Loaded(w), ![w].todo = todo]
      <4>1. slot' = [slot EXCEPT ![w] =
                       [slot[w] EXCEPT !.at = "apply", !.cfg = Loaded(w), !.todo = todo]]
        BY <3>1, Types
      <4>2. [slot[w] EXCEPT !.at = "apply", !.cfg = Loaded(w), !.todo = todo]
              \in SlotStates(Len(proposed))
        BY <2>2, <2>3, Types DEF SlotStates
      <4> QED
        BY <4>1, <4>2, Types
    <3>2. CASE End(w)
      BY <3>2, EndType
    <3> QED
      BY <1>6, <3>1, <3>2 DEF Load, todo
  <2> QED
    BY <1>6, <2>4, Types DEF Load
<1>7. ASSUME NEW w \in Slots, Apply(w) PROVE TypeOK'
  <2>1. PICK r \in slot[w].todo :
          slot' = [slot EXCEPT ![w].todo = @ \ {r},
                     ![w].changed = @ \/ MergeLayer(live[r], Desired(slot[w].cfg, r)) # live[r]]
    BY <1>7 DEF Apply
  <2> DEFINE changed == MergeLayer(live[r], Desired(slot[w].cfg, r)) # live[r]
  <2>2. slot' = [slot EXCEPT ![w] =
                   [slot[w] EXCEPT !.todo = @ \ {r}, !.changed = @ \/ changed]]
    BY <2>1, Types
  <2>3. changed \in BOOLEAN
    OBVIOUS
  <2>4. [slot[w] EXCEPT !.todo = @ \ {r}, !.changed = @ \/ changed] \in SlotStates(Len(proposed))
    <3> HIDE DEF changed
    <3> QED
      BY <2>3, Types DEF SlotStates
  <2> QED
    BY <1>7, <2>2, <2>4, Types DEF Apply
<1>8. ASSUME NEW w \in Slots, Post(w) PROVE TypeOK'
  <2>1. slot[w].job \in Jobs(Len(proposed)) /\ slot[w].job.name = "reconcile_repo"
    BY <1>8, Types DEF Post, IsAt, SlotStates
  <2>2. IsDryRun(w) => slot[w].job.head \in DOMAIN proposed
    BY <1>0, <2>1, JobFields DEF IsDryRun
  <2> QED
    BY <1>8, <2>2, EndType, Types DEF Post
<1>9. ASSUME NEW w \in Slots, Fail(w) PROVE TypeOK'
  <2>1. slot[w].job \in Jobs(Len(proposed))
    BY <1>9, Types DEF Fail, SlotStates
  <2>2. queue' \subseteq Jobs(Len(proposed)) /\ dropped' \subseteq DOMAIN proposed
    BY <1>9, <2>1, Types DEF Fail
  <2>3. UNCHANGED << history, proposed, checks >> /\ End(w)
    BY <1>9 DEF Fail
  <2>4. disturbances' \in 0 .. MaxDisturbances
    BY <1>9, DisturbBound DEF Fail
  <2> QED
    BY <2>2, <2>3, <2>4, EndType, Types
<1>10. CASE UNCHANGED vars
  BY <1>10, Types DEF vars
<1> QED
  BY <1>1, <1>2, <1>3, <1>4, <1>5, <1>6, <1>7, <1>8, <1>9, <1>10 DEF Next

-----------------------------------------------------------------------------
(* The dry run of commit k waits or runs.                                  *)
Pending(k) == DryRun(k) \in queue \/ \E w \in Slots : slot[w].job = DryRun(k)

(* NoProposalForgotten, commit by commit.                                  *)
Remembered(k) ==
    k \in checks \/ Pending(k) \/ k \in dropped \/ ~HasRepoWork(proposed[k])

(* The two say the same, now and in the next state.                        *)
LEMMA RememberedEach ==
    /\ NoProposalForgotten <=> \A k \in DOMAIN proposed : Remembered(k)
    /\ NoProposalForgotten' <=> \A k \in DOMAIN proposed' : Remembered(k)'
  BY DEF NoProposalForgotten, Remembered, Pending

(* When a slot takes leave of its job the others go on.                    *)
LEMMA OtherSlotsKeepJobs ==
    ASSUME TypeOK, NEW w \in Slots, End(w)
    PROVE  \A x \in Slots \ {w} : slot'[x] = slot[x]
  BY Types DEF End

(* A job that ends was not the dry run of k, or has done what it should,   *)
(* runs again or has failed.                                               *)
LEMMA EndRemembers ==
    ASSUME TypeOK, NEW w \in Slots, NEW k \in DOMAIN proposed, Remembered(k), End(w),
           queue \subseteq queue', checks \subseteq checks', dropped \subseteq dropped',
           UNCHANGED proposed,
           slot[w].job = DryRun(k) =>
              k \in checks' \/ DryRun(k) \in queue' \/ k \in dropped' \/ ~HasRepoWork(proposed[k])
    PROVE  Remembered(k)'
<1>1. Pending(k) => slot[w].job = DryRun(k) \/ Pending(k)'
  BY OtherSlotsKeepJobs DEF Pending
<1>2. DryRun(k) \in queue' => Pending(k)'
  BY DEF Pending
<1>3. proposed'[k] = proposed[k]
  OBVIOUS
<1> QED
  BY <1>1, <1>2, <1>3 DEF Remembered

(* Nor does a step that leaves the jobs of the slots alone forget any.     *)
LEMMA FrameRemembers ==
    ASSUME NEW k \in DOMAIN proposed, Remembered(k),
           \A x \in Slots : slot'[x].job = slot[x].job,
           queue \subseteq queue', checks \subseteq checks',
           dropped \subseteq dropped', proposed'[k] = proposed[k]
    PROVE  Remembered(k)'
  BY DEF Remembered, Pending

(* Every step keeps track of the proposed commits.                         *)
LEMMA NextRemembers ==
    TypeOK /\ NoProposalForgotten /\ [Next]_vars => NoProposalForgotten'
<1> SUFFICES ASSUME TypeOK, NoProposalForgotten, [Next]_vars, NEW k \in DOMAIN proposed'
             PROVE  Remembered(k)'
  BY RememberedEach
<1>0. /\ \A i \in DOMAIN proposed : Remembered(i)
      /\ Len(proposed) \in Nat /\ DOMAIN proposed = 1 .. Len(proposed)
  BY RememberedEach, Types
<1>1. ASSUME NEW c \in Configs, Propose(c) PROVE Remembered(k)'
  <2>1. proposed' = Append(proposed, c) /\ queue' = queue \cup {DryRun(Len(proposed) + 1)}
        /\ UNCHANGED << checks, slot, dropped >>
    BY <1>1 DEF Propose
  <2>2. CASE k = Len(proposed) + 1
    BY <2>1, <2>2 DEF Remembered, Pending
  <2>3. CASE k \in DOMAIN proposed
    <3>1. proposed'[k] = proposed[k]
      BY <1>0, <2>1, <2>3, Types
    <3> QED
      BY <1>0, <2>1, <2>3, <3>1, FrameRemembers
  <2>4. k \in DOMAIN proposed \/ k = Len(proposed) + 1
    BY <1>0, <2>1, Types
  <2> QED
    BY <2>2, <2>3, <2>4
<1>2. ASSUME NEW i \in DOMAIN proposed, Merge(i) PROVE Remembered(k)'
  BY <1>0, <1>2, FrameRemembers DEF Merge
<1>3. ASSUME NEW r \in Repos, RepositoryEvent(r) PROVE Remembered(k)'
  BY <1>0, <1>3, FrameRemembers DEF RepositoryEvent
<1>4. ASSUME NEW w \in Slots, NEW j \in queue, Take(w, j) PROVE Remembered(k)'
  <2>1. k \in DOMAIN proposed /\ UNCHANGED << proposed, checks, dropped >>
    BY <1>4 DEF Take
  <2>2. slot' = [slot EXCEPT ![w] = [slot[w] EXCEPT !.job = j]]
    BY <1>4, Types DEF Take
  <2>3. [slot[w] EXCEPT !.job = j].job = j
    BY Types DEF SlotStates
  <2>4. slot'[w].job = j /\ \A x \in Slots \ {w} : slot'[x] = slot[x]
    BY <2>2, <2>3, Types
  <2>5. slot[w].job # DryRun(k)
    BY <1>4, <2>1, DryRunIsJob DEF Take
  <2>6. DryRun(k) \in queue => DryRun(k) \in queue' \/ j = DryRun(k)
    BY <1>4 DEF Take
  <2>7. Pending(k) => Pending(k)'
    BY <2>4, <2>5, <2>6 DEF Pending
  <2> QED
    BY <1>0, <2>1, <2>7 DEF Remembered
<1>5. ASSUME NEW w \in Slots, FanOut(w) PROVE Remembered(k)'
  <2>1. k \in DOMAIN proposed /\ slot[w].job # DryRun(k)
    BY <1>5, DryRunIsJob DEF FanOut, IsAt
  <2> QED
    BY <1>0, <1>5, <2>1, EndRemembers DEF FanOut
<1>6. ASSUME NEW w \in Slots, Load(w) PROVE Remembered(k)'
  <2>1. k \in DOMAIN proposed /\ UNCHANGED << proposed, checks, queue, dropped >>
    BY <1>6 DEF Load
  <2>2. CASE HasRepoWork(Loaded(w))
    <3> DEFINE todo == TargetsOf(Loaded(w), slot[w].job.repo)
    <3> HIDE DEF todo
    <3>1. slot' = [slot EXCEPT ![w] =
                     [slot[w] EXCEPT !.at = "apply", !.cfg = Loaded(w), !.todo = todo]]
      BY <1>6, <2>2, Types DEF Load, todo
    <3>2. [slot[w] EXCEPT !.at = "apply", !.cfg = Loaded(w), !.todo = todo].job = slot[w].job
      BY Types DEF SlotStates
    <3>3. \A x \in Slots : slot'[x].job = slot[x].job
      BY <3>1, <3>2, Types
    <3> QED
      BY <1>0, <2>1, <3>3, FrameRemembers
  <2>3. CASE ~HasRepoWork(Loaded(w))
    <3>1. End(w)
      BY <1>6, <2>3 DEF Load
    <3>2. slot[w].job = DryRun(k) => Loaded(w) = proposed[k]
      BY <2>1, DryRunIsJob DEF Loaded, IsDryRun
    <3> QED
      BY <1>0, <2>1, <2>3, <3>1, <3>2, EndRemembers
  <2> QED
    BY <2>2, <2>3
<1>7. ASSUME NEW w \in Slots, Apply(w) PROVE Remembered(k)'
  <2>1. PICK r \in slot[w].todo :
          slot' = [slot EXCEPT ![w].todo = @ \ {r},
                     ![w].changed = @ \/ MergeLayer(live[r], Desired(slot[w].cfg, r)) # live[r]]
    BY <1>7 DEF Apply
  <2> DEFINE changed == MergeLayer(live[r], Desired(slot[w].cfg, r)) # live[r]
  <2>2. slot' = [slot EXCEPT ![w] =
                   [slot[w] EXCEPT !.todo = @ \ {r}, !.changed = @ \/ changed]]
    BY <2>1, Types
  <2>3. [slot[w] EXCEPT !.todo = @ \ {r}, !.changed = @ \/ changed].job = slot[w].job
    BY Types DEF SlotStates
  <2>4. \A x \in Slots : slot'[x].job = slot[x].job
    BY <2>2, <2>3, Types
  <2> QED
    BY <1>0, <1>7, <2>4, FrameRemembers DEF Apply
<1>8. ASSUME NEW w \in Slots, Post(w) PROVE Remembered(k)'
  <2>1. k \in DOMAIN proposed /\ UNCHANGED << proposed, queue, dropped >> /\ End(w)
        /\ checks' = IF IsDryRun(w) THEN checks \cup {slot[w].job.head} ELSE checks
    BY <1>8 DEF Post
  <2>2. slot[w].job = DryRun(k) => k \in checks'
    BY <2>1, DryRunIsJob DEF IsDryRun
  <2>3. checks \subseteq checks'
    BY <2>1
  <2> QED
    BY <1>0, <2>1, <2>2, <2>3, EndRemembers
<1>9. ASSUME NEW w \in Slots, Fail(w) PROVE Remembered(k)'
  <2>1. k \in DOMAIN proposed /\ UNCHANGED << proposed, checks >> /\ End(w)
        /\ queue \subseteq queue' /\ dropped \subseteq dropped'
    BY <1>9 DEF Fail
  <2>2. slot[w].job = DryRun(k) => DryRun(k) \in queue' \/ k \in dropped'
    BY <1>9, <2>1 DEF Fail
  <2> QED
    BY <1>0, <2>1, <2>2, EndRemembers
<1>10. CASE UNCHANGED vars
  BY <1>0, <1>10, FrameRemembers DEF vars
<1> QED
  BY <1>1, <1>2, <1>3, <1>4, <1>5, <1>6, <1>7, <1>8, <1>9, <1>10 DEF Next

-----------------------------------------------------------------------------
(* Induction over the layers, by way of least elements.                    *)

(* Every set of numbers has a least one.                                   *)
LEMMA Least ==
    ASSUME NEW T, T \subseteq Nat, T # {}
    PROVE  \E x \in T : \A y \in T : x <= y
<1> DEFINE Less == {p \in Nat \X Nat : p[1] < p[2]}
<1>1. IsWellFoundedOn(Less, Nat)
  <2>1. OpToRel(<, Nat) = Less
    BY DEF OpToRel
  <2> QED
    BY <2>1, NatLessThanWellFounded
<1>2. PICK x \in T : \A y \in T : ~ (<< y, x >> \in Less)
  BY <1>1, WFMin
<1>3. \A y \in T : x <= y
  <2> TAKE y \in T
  <2>1. ~ (<< y, x >> \in Less)
    BY <1>2
  <2>2. ~ (y < x)
    BY <2>1
  <2> QED
    BY <2>2
<1> QED
  BY <1>3

(* And a greatest one, if there is a bound.                                *)
LEMMA Greatest ==
    ASSUME NEW n \in Nat, NEW T, T \subseteq 1 .. n, T # {}
    PROVE  \E x \in T : \A y \in T : y <= x
<1> DEFINE U == {n - x : x \in T}
<1>1. U \subseteq Nat /\ U # {}
  <2>1. \A x \in T : n - x \in Nat
    OBVIOUS
  <2> QED
    BY <2>1
<1>2. PICK u \in U : \A v \in U : u <= v
  BY <1>1, Least
<1>3. PICK x \in T : u = n - x
  OBVIOUS
<1>4. ASSUME NEW y \in T PROVE y <= x
  <2>1. n - y \in U
    OBVIOUS
  <2>2. n - x <= n - y
    BY <1>2, <1>3, <2>1
  <2> QED
    BY <2>2
<1> QED
  BY <1>4

(* The function that merges the first m layers, step by step.              *)
Chain(L, m, g) ==
    g = [n \in 0 .. m |-> IF n = 0 THEN << >> ELSE MergeLayer(g[n - 1], L[n])]

(* There is one for each number of layers.                                 *)
LEMMA ChainExists == \A L : \A m \in Nat : \E g : Chain(L, m, g)
<1> SUFFICES ASSUME NEW L, NEW k \in Nat, ~ \E g : Chain(L, k, g) PROVE FALSE
  OBVIOUS
<1> DEFINE bad == {m \in Nat : ~ \E g : Chain(L, m, g)}
<1>1. PICK m \in bad : \A i \in bad : m <= i
  BY Least
<1>2. CASE m = 0
  <2> DEFINE g == [n \in 0 .. 0 |-> << >>]
  <2>1. g = [n \in 0 .. 0 |-> IF n = 0 THEN << >> ELSE MergeLayer(g[n - 1], L[n])]
    OBVIOUS
  <2>2. Chain(L, 0, g)
    BY <2>1 DEF Chain
  <2> QED
    BY <1>2, <2>2
<1>3. CASE m # 0
  <2>1. m - 1 \in Nat /\ m - 1 \notin bad
    BY <1>1, <1>3
  <2>2. PICK g : Chain(L, m - 1, g)
    BY <2>1
  <2> DEFINE h == [n \in 0 .. m |-> IF n = m THEN MergeLayer(g[m - 1], L[m]) ELSE g[n]]
  <2>3. h[m - 1] = g[m - 1]
    BY <2>1
  <2>4. ASSUME NEW n \in 0 .. m
        PROVE  h[n] = IF n = 0 THEN << >> ELSE MergeLayer(h[n - 1], L[n])
    <3>1. CASE n = m
      BY <1>3, <2>3, <3>1
    <3>2. CASE n # m
      <4>1. n \in 0 .. m - 1 /\ h[n] = g[n]
        BY <3>2
      <4>2. g[n] = IF n = 0 THEN << >> ELSE MergeLayer(g[n - 1], L[n])
        BY <2>2, <4>1 DEF Chain
      <4>3. n # 0 => h[n - 1] = g[n - 1]
        BY <4>1
      <4> QED
        BY <4>1, <4>2, <4>3
    <3> QED
      BY <3>1, <3>2
  <2>5. h = [n \in 0 .. m |-> IF n = 0 THEN << >> ELSE MergeLayer(h[n - 1], L[n])]
    <3>1. h = [n \in 0 .. m |-> h[n]]
      OBVIOUS
    <3> HIDE DEF h
    <3> QED
      BY <2>4, <3>1
  <2>6. Chain(L, m, h)
    BY <2>5 DEF Chain
  <2> QED
    BY <2>6
<1> QED
  BY <1>2, <1>3

(* So the recursion means what it says.                                    *)
LEMMA MergingIs ==
    ASSUME NEW L, Len(L) \in Nat
    PROVE  /\ Merging(L)[0] = << >>
           /\ \A n \in 1 .. Len(L) : Merging(L)[n] = MergeLayer(Merging(L)[n - 1], L[n])
<1> DEFINE g == Merging(L)
<1>1. \E f : f = [n \in 0 .. Len(L) |-> IF n = 0 THEN << >> ELSE MergeLayer(f[n - 1], L[n])]
  BY ChainExists DEF Chain
<1>2. g = [n \in 0 .. Len(L) |-> IF n = 0 THEN << >> ELSE MergeLayer(g[n - 1], L[n])]
  BY <1>1 DEF Merging
<1> HIDE DEF g
<1>3. g[0] = << >>
  BY <1>2
<1>4. ASSUME NEW n \in 1 .. Len(L) PROVE g[n] = MergeLayer(g[n - 1], L[n])
  <2>1. n \in 0 .. Len(L) /\ n # 0
    OBVIOUS
  <2> QED
    BY <1>2, <2>1
<1> QED
  BY <1>3, <1>4 DEF g

-----------------------------------------------------------------------------
(* What a layer or a repository's settings say of tier t, or of field f if *)
(* t is the repository block.                                              *)
Says(s, t, f) == t \in DOMAIN s /\ (t = "repository" => f \in DOMAIN s[t])
Said(s, t, f) == IF t = "repository" THEN s[t][f] ELSE s[t]

(* A layer decides what it says, and leaves the rest.                      *)
LEMMA MergeLayerSays ==
    ASSUME NEW below, NEW above, NEW t, NEW f
    PROVE  LET m == MergeLayer(below, above) IN
           /\ DOMAIN m = DOMAIN below \cup DOMAIN above
           /\ Says(m, t, f) <=> Says(below, t, f) \/ Says(above, t, f)
           /\ Says(above, t, f) => Said(m, t, f) = Said(above, t, f)
           /\ Says(below, t, f) /\ ~Says(above, t, f) => Said(m, t, f) = Said(below, t, f)
<1> DEFINE m == MergeLayer(below, above)
           over == Over(below, above)
           r == "repository"
<1>1. /\ DOMAIN over = DOMAIN below \cup DOMAIN above
      /\ \A k \in DOMAIN over : over[k] = IF k \in DOMAIN above THEN above[k] ELSE below[k]
  BY DEF Over
<1>2. CASE r \in DOMAIN below \cap DOMAIN above
  <2> DEFINE fields == Over(below[r], above[r])
  <2>1. /\ DOMAIN fields = DOMAIN below[r] \cup DOMAIN above[r]
        /\ \A k \in DOMAIN fields :
             fields[k] = IF k \in DOMAIN above[r] THEN above[r][k] ELSE below[r][k]
    BY DEF Over
  <2>2. m = [over EXCEPT ![r] = fields]
    BY <1>2 DEF MergeLayer
  <2> HIDE DEF m, over, fields
  <2>3. /\ DOMAIN m = DOMAIN over /\ m[r] = fields
        /\ \A k \in DOMAIN over \ {r} : m[k] = over[k]
    BY <1>1, <1>2, <2>2
  <2>4. CASE t = r
    BY <1>1, <1>2, <2>1, <2>3, <2>4 DEF Says, Said, m
  <2>5. CASE t # r
    BY <1>1, <1>2, <2>3, <2>5 DEF Says, Said, m
  <2> QED
    BY <2>4, <2>5
<1>3. CASE r \notin DOMAIN below \cap DOMAIN above
  <2>1. m = over
    BY <1>3 DEF MergeLayer
  <2> HIDE DEF m, over
  <2> QED
    BY <1>1, <1>3, <2>1 DEF Says, Said, m
<1> QED
  BY <1>2, <1>3

(* The last layer that says something is what the merge of them says.      *)
LEMMA LastLayerDecides ==
    ASSUME NEW L, Len(L) \in Nat, NEW t, NEW f, NEW j \in 1 .. Len(L), Says(L[j], t, f),
           \A i \in j + 1 .. Len(L) : ~Says(L[i], t, f)
    PROVE  LET m == Merging(L)[Len(L)] IN Says(m, t, f) /\ Said(m, t, f) = Said(L[j], t, f)
<1> DEFINE g == Merging(L)
           Good(n) == Says(g[n], t, f) /\ Said(g[n], t, f) = Said(L[j], t, f)
           bad == {n \in j .. Len(L) : ~Good(n)}
<1>1. \A n \in 1 .. Len(L) : g[n] = MergeLayer(g[n - 1], L[n])
  BY MergingIs
<1>2. ASSUME bad # {} PROVE FALSE
  <2>1. bad \subseteq Nat
    OBVIOUS
  <2>2. PICK n \in bad : \A i \in bad : n <= i
    BY <1>2, <2>1, Least
  <2>3. n \in 1 .. Len(L) /\ g[n] = MergeLayer(g[n - 1], L[n]) /\ ~Good(n)
    BY <1>1, <2>2
  <2> DEFINE below == g[n - 1]
             m == g[n]
  <2>6. /\ Says(m, t, f) <=> Says(below, t, f) \/ Says(L[n], t, f)
        /\ Says(L[n], t, f) => Said(m, t, f) = Said(L[n], t, f)
        /\ Says(below, t, f) /\ ~Says(L[n], t, f) => Said(m, t, f) = Said(below, t, f)
    <3> HIDE DEF g
    <3>1. LET k == MergeLayer(below, L[n]) IN
          /\ DOMAIN k = DOMAIN below \cup DOMAIN L[n]
          /\ Says(k, t, f) <=> Says(below, t, f) \/ Says(L[n], t, f)
          /\ Says(L[n], t, f) => Said(k, t, f) = Said(L[n], t, f)
          /\ Says(below, t, f) /\ ~Says(L[n], t, f) => Said(k, t, f) = Said(below, t, f)
      BY MergeLayerSays
    <3>2. m = MergeLayer(below, L[n])
      BY <2>3
    <3> HIDE DEF m
    <3> QED
      BY <3>1, <3>2
  <2>4. CASE n = j
    BY <2>3, <2>4, <2>6
  <2>5. CASE n # j
    <3>1. n - 1 \in j .. Len(L) /\ n - 1 \notin bad /\ n \in j + 1 .. Len(L)
      BY <2>2, <2>5
    <3>2. Good(n - 1) /\ ~Says(L[n], t, f)
      BY <3>1
    <3> QED
      BY <2>3, <2>6, <3>2
  <2> QED
    BY <2>4, <2>5
<1>3. Len(L) \in j .. Len(L)
  OBVIOUS
<1>4. Good(Len(L))
  BY <1>2, <1>3
<1> QED
  BY <1>4

-----------------------------------------------------------------------------
(* The layers of a configuration.                                          *)

(* No suborg selects a repository of the account by its visibility, which  *)
(* a run does not know (the finding of the run runner_visibility).         *)
NoneByVisibility ==
    \A c \in Configs, r \in Repos : \A i \in DOMAIN c.suborgs :
        Visibility[r] \notin c.suborgs[i].visibility

(* Layer j of configuration c with its rank.                               *)
Voice(c, L, j) ==
    IF j = 1 THEN << 0, 0, L[1] >>
    ELSE IF j <= 1 + Len(c.suborgs) THEN << 1, j - 1, L[j] >>
    ELSE << 2, j - 1 - Len(c.suborgs), L[j] >>

(* A suborg that goes by names matches as the documentation says.          *)
LEMMA SuborgsMatch ==
    ASSUME NoneByVisibility, NEW c \in Configs, NEW r \in Repos, NEW i \in DOMAIN c.suborgs
    PROVE  SubOrgMatches(c.suborgs[i], r, Unknown) <=> InSubOrg(c.suborgs[i], r)
<1> DEFINE o == c.suborgs[i]
<1>1. Visibility[r] \notin o.visibility
  BY DEF NoneByVisibility
<1> HIDE DEF o
<1>2. SubOrgMatches(o, r, Unknown) <=> o.visibility = {} /\ r \in o.match
  BY DEF SubOrgMatches
<1>3. InSubOrg(o, r) <=> o.visibility = {} /\ r \in o.match
  BY <1>1 DEF InSubOrg
<1> QED
  BY <1>2, <1>3 DEF o

(* Where each layer comes from.                                            *)
LEMMA LayersAre ==
    ASSUME NEW c \in Configs, NEW r
    PROVE  LET L == Layers(c, r, Unknown)
               a == Len(c.suborgs)
               b == Len(c.repos)
           IN  /\ a \in Nat /\ b \in Nat /\ DOMAIN c.suborgs = 1 .. a /\ DOMAIN c.repos = 1 .. b
               /\ Len(L) = 1 + a + b
               /\ L[1] = c.base
               /\ \A i \in 1 .. a :
                    L[1 + i] = IF SubOrgMatches(c.suborgs[i], r, Unknown)
                               THEN c.suborgs[i].tiers ELSE << >>
               /\ \A i \in 1 .. b :
                    L[1 + a + i] = IF r \in c.repos[i].match THEN c.repos[i].tiers ELSE << >>
<1> DEFINE a == Len(c.suborgs)
           b == Len(c.repos)
           S == [i \in DOMAIN c.suborgs |->
                   IF SubOrgMatches(c.suborgs[i], r, Unknown) THEN c.suborgs[i].tiers ELSE << >>]
           R == [i \in DOMAIN c.repos |->
                   IF r \in c.repos[i].match THEN c.repos[i].tiers ELSE << >>]
           B == << c.base >>
<1>1. a \in Nat /\ b \in Nat /\ DOMAIN c.suborgs = 1 .. a /\ DOMAIN c.repos = 1 .. b
  BY ConfigsAssumption DEF SafeSettingsConfig
<1>2. Layers(c, r, Unknown) = B \o S \o R
  BY DEF Layers
<1> DEFINE T == {S[i] : i \in 1 .. a} \cup {R[i] : i \in 1 .. b} \cup {c.base}
<1>3. S \in Seq(T) /\ Len(S) = a
  <2>1. S \in [1 .. a -> T]
    BY <1>1
  <2> QED
    BY <1>1, <2>1
<1>4. R \in Seq(T) /\ Len(R) = b
  <2>1. R \in [1 .. b -> T]
    BY <1>1
  <2> QED
    BY <1>1, <2>1
<1>5. \A i \in 1 .. a : S[i] = IF SubOrgMatches(c.suborgs[i], r, Unknown)
                               THEN c.suborgs[i].tiers ELSE << >>
  BY <1>1
<1>6. \A i \in 1 .. b : R[i] = IF r \in c.repos[i].match THEN c.repos[i].tiers ELSE << >>
  BY <1>1
<1>7. B \in Seq(T) /\ Len(B) = 1 /\ B[1] = c.base
  OBVIOUS
<1> HIDE DEF S, R, B, T
<1>8. B \o S \in Seq(T) /\ Len(B \o S) = 1 + a
      /\ (B \o S)[1] = c.base /\ \A i \in 1 .. a : (B \o S)[1 + i] = S[i]
  BY <1>1, <1>3, <1>7, ConcatProperties
<1> DEFINE K == B \o S
           L == K \o R
<1>9. L = Layers(c, r, Unknown)
  BY <1>2
<1> HIDE DEF K
<1>10. K \in Seq(T) /\ Len(K) = 1 + a /\ K[1] = c.base /\ \A i \in 1 .. a : K[1 + i] = S[i]
  BY <1>8 DEF K
<1>11. /\ Len(L) = 1 + a + b
       /\ \A i \in 1 .. 1 + a + b : L[i] = IF i <= 1 + a THEN K[i] ELSE R[i - (1 + a)]
  <2>1. /\ Len(L) = Len(K) + Len(R)
        /\ \A i \in 1 .. Len(K) + Len(R) : L[i] = IF i <= Len(K) THEN K[i] ELSE R[i - Len(K)]
    <3> HIDE DEF a, b
    <3> QED
      BY <1>4, <1>10, ConcatProperties
  <2> HIDE DEF L, a, b
  <2> QED
    BY <1>1, <1>4, <1>10, <2>1
<1> HIDE DEF L, a, b
<1>12. L[1] = c.base
  BY <1>1, <1>10, <1>11
<1>13. ASSUME NEW i \in 1 .. a PROVE L[1 + i] = S[i]
  BY <1>1, <1>10, <1>11
<1>14. ASSUME NEW i \in 1 .. b PROVE L[1 + a + i] = R[i]
  <2> DEFINE k == 1 + a + i
  <2>1. k \in 1 .. 1 + a + b /\ ~(k <= 1 + a) /\ k - (1 + a) = i
    BY <1>1
  <2> HIDE DEF k
  <2>2. L[k] = R[k - (1 + a)]
    BY <1>11, <2>1
  <2> QED
    BY <2>1, <2>2 DEF k
<1> QED
  BY <1>1, <1>5, <1>6, <1>9, <1>11, <1>12, <1>13, <1>14 DEF a, b

(* The voices and the layers that say something about t and f.             *)
Heard(c, r, t, f) == {v \in Voices(c, r) : Says(v[3], t, f)}
Speaking(L, t, f) == {k \in 1 .. Len(L) : Says(L[k], t, f)}

(* They are the same.                                                      *)
LEMMA VoicesAre ==
    ASSUME NoneByVisibility, NEW c \in Configs, NEW r \in Repos, NEW t, NEW f,
           NEW L, L = Layers(c, r, Unknown)
    PROVE  /\ \A v \in Heard(c, r, t, f) : \E j \in Speaking(L, t, f) : v = Voice(c, L, j)
           /\ \A j \in Speaking(L, t, f) : Voice(c, L, j) \in Heard(c, r, t, f)
<1> DEFINE a == Len(c.suborgs)
           b == Len(c.repos)
           heard == {v \in Voices(c, r) : Says(v[3], t, f)}
           spoken == {Voice(c, L, j) : j \in {k \in 1 .. Len(L) : Says(L[k], t, f)}}
<1>1. /\ a \in Nat /\ b \in Nat /\ DOMAIN c.suborgs = 1 .. a /\ DOMAIN c.repos = 1 .. b
      /\ Len(L) = 1 + a + b
      /\ L[1] = c.base
      /\ \A i \in 1 .. a :
           L[1 + i] = IF InSubOrg(c.suborgs[i], r) THEN c.suborgs[i].tiers ELSE << >>
      /\ \A i \in 1 .. b :
           L[1 + a + i] = IF r \in c.repos[i].match THEN c.repos[i].tiers ELSE << >>
  <2>1. /\ a \in Nat /\ b \in Nat /\ DOMAIN c.suborgs = 1 .. a /\ DOMAIN c.repos = 1 .. b
        /\ Len(L) = 1 + a + b
        /\ L[1] = c.base
        /\ \A i \in 1 .. a :
             L[1 + i] = IF SubOrgMatches(c.suborgs[i], r, Unknown)
                        THEN c.suborgs[i].tiers ELSE << >>
        /\ \A i \in 1 .. b :
             L[1 + a + i] = IF r \in c.repos[i].match THEN c.repos[i].tiers ELSE << >>
    BY LayersAre
  <2>2. \A i \in 1 .. a :
          SubOrgMatches(c.suborgs[i], r, Unknown) <=> InSubOrg(c.suborgs[i], r)
    BY <2>1, SuborgsMatch
  <2> HIDE DEF a, b
  <2> QED
    BY <2>1, <2>2
<1>2. ~Says(<< >>, t, f)
  BY DEF Says
<1> HIDE DEF a, b
<1>3. ASSUME NEW v \in heard PROVE v \in spoken
  <2>1. CASE v = << 0, 0, c.base >>
    <3>1. 1 \in 1 .. Len(L) /\ v = Voice(c, L, 1) /\ Says(L[1], t, f)
      BY <1>1, <2>1 DEF Voice
    <3> QED
      BY <3>1
  <2>2. CASE v \in {<< 1, i, c.suborgs[i].tiers >> :
                      i \in {j \in DOMAIN c.suborgs : InSubOrg(c.suborgs[j], r)}}
    <3>1. PICK i \in DOMAIN c.suborgs :
             InSubOrg(c.suborgs[i], r) /\ v = << 1, i, c.suborgs[i].tiers >>
      BY <2>2
    <3>2. i \in 1 .. a /\ L[1 + i] = v[3]
      BY <1>1, <3>1
    <3> DEFINE k == 1 + i
    <3>3. k \in 1 .. Len(L) /\ k # 1 /\ k <= 1 + a /\ k - 1 = i
      BY <1>1, <3>2
    <3>4. v = Voice(c, L, k)
      BY <3>1, <3>2, <3>3 DEF Voice, a
    <3>5. Says(L[k], t, f)
      BY <3>2
    <3> QED
      BY <3>3, <3>4, <3>5
  <2>3. CASE v \in {<< 2, i, c.repos[i].tiers >> :
                      i \in {j \in DOMAIN c.repos : r \in c.repos[j].match}}
    <3>1. PICK i \in DOMAIN c.repos : r \in c.repos[i].match /\ v = << 2, i, c.repos[i].tiers >>
      BY <2>3
    <3>2. i \in 1 .. b /\ L[1 + a + i] = v[3]
      BY <1>1, <3>1
    <3> DEFINE k == 1 + a + i
    <3>3. k \in 1 .. Len(L) /\ k # 1 /\ ~(k <= 1 + a) /\ k - 1 - a = i
      BY <1>1, <3>2
    <3>4. v = Voice(c, L, k)
      BY <3>1, <3>2, <3>3 DEF Voice, a
    <3>5. Says(L[k], t, f)
      BY <3>2
    <3> QED
      BY <3>3, <3>4, <3>5
  <2> QED
    BY <2>1, <2>2, <2>3 DEF Voices
<1>4. ASSUME NEW v \in spoken PROVE v \in heard
  <2>1. PICK j \in 1 .. Len(L) : Says(L[j], t, f) /\ v = Voice(c, L, j)
    OBVIOUS
  <2>2. CASE j = 1
    <3>1. v = << 0, 0, c.base >>
      BY <1>1, <2>1, <2>2 DEF Voice
    <3> QED
      BY <1>1, <2>1, <2>2, <3>1 DEF Voices
  <2>3. CASE j \in 2 .. 1 + a
    <3> DEFINE i == j - 1
    <3>0. i \in 1 .. a /\ 1 + i = j
      BY <1>1, <2>3
    <3>1. i \in 1 .. a /\ L[j] = IF InSubOrg(c.suborgs[i], r) THEN c.suborgs[i].tiers ELSE << >>
      BY <1>1, <3>0
    <3>2. InSubOrg(c.suborgs[i], r) /\ i \in DOMAIN c.suborgs
      BY <1>1, <1>2, <2>1, <3>1
    <3>3. v = << 1, i, c.suborgs[i].tiers >>
      BY <1>1, <2>1, <2>3, <3>1, <3>2 DEF Voice, a
    <3> QED
      BY <2>1, <3>1, <3>2, <3>3 DEF Voices
  <2>4. CASE j \in 2 + a .. 1 + a + b
    <3> DEFINE i == j - 1 - a
    <3>1. i \in 1 .. b /\ L[j] = IF r \in c.repos[i].match THEN c.repos[i].tiers ELSE << >>
      BY <1>1, <2>4
    <3>2. r \in c.repos[i].match /\ i \in DOMAIN c.repos
      BY <1>1, <1>2, <2>1, <3>1
    <3>3. j # 1 /\ ~(j <= 1 + a)
      BY <1>1, <2>4
    <3>4. v = << 2, i, L[j] >>
      BY <2>1, <3>3 DEF Voice, a
    <3>5. v = << 2, i, c.repos[i].tiers >>
      BY <3>1, <3>2, <3>4
    <3> QED
      BY <2>1, <3>2, <3>4, <3>5 DEF Voices
  <2> QED
    BY <1>1, <2>2, <2>3, <2>4
<1> QED
  BY <1>3, <1>4 DEF Heard, Speaking

(* What is effective for r says what its decisive voice says.              *)
LEMMA DecisiveIsEffective ==
    ASSUME NoneByVisibility, NEW c \in Configs, NEW r \in Repos, NEW t, NEW f,
           Heard(c, r, t, f) # {}
    PROVE  LET want == Desired(c, r) IN
           /\ Says(want, t, f)
           /\ Said(want, t, f) = Said(Decisive(Heard(c, r, t, f))[3], t, f)
<1> DEFINE L == Layers(c, r, Unknown)
           voices == Heard(c, r, t, f)
<1>1. /\ \A v \in voices : \E j \in Speaking(L, t, f) : v = Voice(c, L, j)
      /\ \A j \in Speaking(L, t, f) : Voice(c, L, j) \in voices
  BY VoicesAre
<1> DEFINE a == Len(c.suborgs)
           b == Len(c.repos)
<1>2. a \in Nat /\ b \in Nat /\ Len(L) = 1 + a + b /\ L[1] = c.base
  BY LayersAre
<1> HIDE DEF L
<1> DEFINE n == Len(L)
           speaking == Speaking(L, t, f)
           Above(v, u) == v[1] > u[1] \/ (v[1] = u[1] /\ v[2] >= u[2])
<1> HIDE DEF n
<1>3. n \in Nat /\ n >= 1
  <2> HIDE DEF a, b
  <2> QED
    BY <1>2 DEF n
<1>4. PICK last \in speaking : \A k \in speaking : k <= last
  <2>1. speaking # {} /\ speaking \subseteq 1 .. n
    BY <1>1 DEF Speaking, n
  <2> QED
    BY <1>3, <2>1, Greatest
<1> DEFINE top == Voice(c, L, last)
<1>5. ASSUME NEW j \in speaking, NEW k \in speaking
      PROVE  /\ k <= j => Above(Voice(c, L, j), Voice(c, L, k))
             /\ k < j => ~Above(Voice(c, L, k), Voice(c, L, j))
  <2> HIDE DEF a
  <2> DEFINE Rank(i) == IF i = 1 THEN 0 ELSE IF i <= 1 + a THEN 1 ELSE 2
             Place(i) == IF i = 1 THEN 0 ELSE IF i <= 1 + a THEN i - 1 ELSE i - 1 - a
  <2>1. j \in Nat /\ k \in Nat /\ j >= 1 /\ k >= 1
    BY <1>3 DEF Speaking, n
  <2>2. \A i : Voice(c, L, i)[1] = Rank(i) /\ Voice(c, L, i)[2] = Place(i)
    BY <1>2 DEF Voice, a
  <2>3. /\ k <= j => Rank(j) > Rank(k) \/ (Rank(j) = Rank(k) /\ Place(j) >= Place(k))
        /\ k < j => ~(Rank(k) > Rank(j) \/ (Rank(k) = Rank(j) /\ Place(k) >= Place(j)))
    BY <1>2, <2>1
  <2> HIDE DEF Rank, Place
  <2> QED
    BY <2>2, <2>3
<1>6. top \in voices /\ \A u \in voices : Above(top, u)
  BY <1>1, <1>4, <1>5
<1>7. Decisive(voices) = CHOOSE v \in voices : \A u \in voices : Above(v, u)
  BY DEF Decisive
<1>8. Decisive(voices) \in voices /\ \A u \in voices : Above(Decisive(voices), u)
  <2> HIDE DEF voices, Above, top
  <2> QED
    BY <1>6, <1>7
<1>9. Decisive(voices) = top
  <2>1. PICK j \in speaking : Decisive(voices) = Voice(c, L, j)
    BY <1>1, <1>8
  <2>2. Above(Voice(c, L, j), Voice(c, L, last))
    BY <1>6, <1>8, <2>1
  <2>3. ~(j < last)
    BY <1>5, <2>2
  <2>4. j = last
    BY <1>3, <1>4, <2>3 DEF Speaking, n
  <2> QED
    BY <2>1, <2>4
<1>10. top[3] = L[last]
  BY <1>2, <1>4 DEF Voice
<1>11. CASE has_overlays(c)
  <2>1. Desired(c, r) = Merging(L)[n]
    BY <1>11 DEF Desired, Effective, resolve_for_repo, L, n
  <2>2. \A i \in last + 1 .. n : ~Says(L[i], t, f)
    BY <1>3, <1>4 DEF Speaking, n
  <2>3. last \in 1 .. n /\ Says(L[last], t, f)
    BY <1>4 DEF Speaking, n
  <2>4. Says(Merging(L)[n], t, f) /\ Said(Merging(L)[n], t, f) = Said(L[last], t, f)
    BY <1>3, <2>2, <2>3, LastLayerDecides DEF n
  <2> QED
    BY <1>9, <1>10, <2>1, <2>4
<1>12. CASE ~has_overlays(c)
  <2>1. Desired(c, r) = c.base
    BY <1>12 DEF Desired, Effective
  <2>2. c.suborgs = << >> /\ c.repos = << >>
    BY <1>12 DEF has_overlays
  <2>3. n = 1
    <3>1. a = 0 /\ b = 0
      BY <2>2
    <3> QED
      BY <1>2, <3>1 DEF n
  <2>4. last = 1 /\ Says(L[last], t, f)
    BY <1>4, <2>3 DEF Speaking, n
  <2> QED
    BY <1>2, <1>9, <1>10, <2>1, <2>4
<1> QED
  BY <1>11, <1>12

(* So what a write leaves is as declared.                                  *)
LEMMA AppliedIsDeclared ==
    ASSUME NoneByVisibility, NEW c \in Configs, NEW r \in Repos, NEW s
    PROVE  AsDeclared(c, r, MergeLayer(s, Desired(c, r)))
<1> DEFINE want == Desired(c, r)
           m == MergeLayer(s, want)
<1>1. ASSUME NEW t, NEW f, Heard(c, r, t, f) # {}
      PROVE  Said(m, t, f) = Said(Decisive(Heard(c, r, t, f))[3], t, f)
  <2>1. Says(want, t, f) /\ Said(want, t, f) = Said(Decisive(Heard(c, r, t, f))[3], t, f)
    BY <1>1, DecisiveIsEffective
  <2>2. LET k == MergeLayer(s, want) IN
        /\ DOMAIN k = DOMAIN s \cup DOMAIN want
        /\ Says(k, t, f) <=> Says(s, t, f) \/ Says(want, t, f)
        /\ Says(want, t, f) => Said(k, t, f) = Said(want, t, f)
        /\ Says(s, t, f) /\ ~Says(want, t, f) => Said(k, t, f) = Said(s, t, f)
    BY MergeLayerSays
  <2> QED
    BY <2>1, <2>2 DEF m
<1> HIDE DEF m
<1>2. ASSUME NEW t \in DOMAIN m \ {"repository"},
             {a \in Voices(c, r) : t \in DOMAIN a[3]} # {}
      PROVE  m[t] = Decisive({a \in Voices(c, r) : t \in DOMAIN a[3]})[3][t]
  <2>1. {a \in Voices(c, r) : t \in DOMAIN a[3]} = Heard(c, r, t, t)
    BY DEF Says, Heard
  <2>2. Said(m, t, t) = Said(Decisive(Heard(c, r, t, t))[3], t, t)
    BY <1>1, <1>2, <2>1
  <2> QED
    BY <2>1, <2>2 DEF Said
<1>3. ASSUME NEW f,
             {a \in Voices(c, r) : "repository" \in DOMAIN a[3] /\ f \in DOMAIN a[3]["repository"]} # {}
      PROVE  m["repository"][f] =
               Decisive({a \in Voices(c, r) : "repository" \in DOMAIN a[3]
                                              /\ f \in DOMAIN a[3]["repository"]})[3]["repository"][f]
  <2>1. {a \in Voices(c, r) : "repository" \in DOMAIN a[3] /\ f \in DOMAIN a[3]["repository"]}
          = Heard(c, r, "repository", f)
    BY DEF Says, Heard
  <2>2. Said(m, "repository", f) = Said(Decisive(Heard(c, r, "repository", f))[3], "repository", f)
    BY <1>1, <1>3, <2>1
  <2> QED
    BY <2>1, <2>2 DEF Said
<1> QED
  BY <1>2, <1>3 DEF AsDeclared, m

-----------------------------------------------------------------------------
(* A run that applies tiers applies a merged configuration to repositories *)
(* this manages, and a dry run has none to go through: it is for the admin *)
(* repo.                                                                   *)
Merged(w) ==
    slot[w].at = "apply" =>
        /\ slot[w].job # None /\ slot[w].job.name = "reconcile_repo"
        /\ IsDryRun(w) => slot[w].todo = {}
        /\ ~IsDryRun(w) =>
             /\ slot[w].todo \subseteq select_targets(slot[w].cfg, Repos)
             /\ \E i \in DOMAIN history : slot[w].cfg = history[i]

IInv ==
    /\ TypeOK
    /\ DOMAIN live = Repos
    /\ \A w \in Slots : Merged(w)

(* A step that leaves a slot alone, or idle, leaves its run in order.      *)
LEMMA SameSlot ==
    ASSUME NEW w \in Slots, Merged(w), slot'[w] \in {slot[w], Idle},
           \A i \in DOMAIN history : i \in DOMAIN history' /\ history'[i] = history[i]
    PROVE  Merged(w)'
<1>1. CASE slot'[w] = slot[w]
  BY <1>1 DEF Merged, IsDryRun
<1>2. CASE slot'[w] = Idle
  BY <1>2 DEF Merged, Idle
<1> QED
  BY <1>1, <1>2

(* What the step of a run for a repository does.                           *)
LEMMA ApplyIs ==
    ASSUME IInv, NEW w \in Slots, Apply(w)
    PROVE  /\ slot[w].at = "apply" /\ slot[w].cfg \in Configs
           /\ \E r \in slot[w].todo \cap Repos :
                /\ slot'[w].todo = slot[w].todo \ {r}
                /\ slot'[w].job = slot[w].job /\ slot'[w].cfg = slot[w].cfg
                /\ slot'[w].at = slot[w].at
                /\ \A x \in Slots \ {w} : slot'[x] = slot[x]
                /\ DOMAIN live' = DOMAIN live
                /\ \A q \in Repos \ {r} : live'[q] = live[q]
                /\ IsDryRun(w) => live' = live
                /\ ~IsDryRun(w) => live'[r] = MergeLayer(live[r], Desired(slot[w].cfg, r))
<1>1. slot[w].at = "apply"
  BY DEF Apply, IsAt
<1>2. slot[w].cfg \in Configs /\ slot[w].todo \subseteq Repos
  BY <1>1, Types DEF IInv, SlotStates
<1>3. PICK r \in slot[w].todo :
        LET want == MergeLayer(live[r], Desired(slot[w].cfg, r)) IN
        /\ slot' = [slot EXCEPT ![w].todo = @ \ {r}, ![w].changed = @ \/ want # live[r]]
        /\ live' = IF IsDryRun(w) THEN live ELSE [live EXCEPT ![r] = want]
  BY DEF Apply
<1> DEFINE want == MergeLayer(live[r], Desired(slot[w].cfg, r))
           changed == want # live[r]
           new == [slot[w] EXCEPT !.todo = @ \ {r}, !.changed = @ \/ changed]
<1>4. slot' = [slot EXCEPT ![w] = new]
  BY <1>3, Types DEF IInv
<1>5. new.todo = slot[w].todo \ {r} /\ new.job = slot[w].job /\ new.cfg = slot[w].cfg
      /\ new.at = slot[w].at
  BY Types DEF IInv, SlotStates
<1> HIDE DEF new
<1>6. slot'[w] = new /\ \A x \in Slots \ {w} : slot'[x] = slot[x]
  BY <1>4, Types DEF IInv
<1>7. live' = IF IsDryRun(w) THEN live ELSE [live EXCEPT ![r] = want]
  BY <1>3
<1> HIDE DEF want
<1>8. /\ DOMAIN live' = DOMAIN live
      /\ \A q \in Repos \ {r} : live'[q] = live[q]
      /\ IsDryRun(w) => live' = live
      /\ ~IsDryRun(w) => live'[r] = want
  BY <1>2, <1>7 DEF IInv
<1> QED
  BY <1>1, <1>2, <1>5, <1>6, <1>8 DEF want

(* The invariant holds initially.                                          *)
LEMMA InitIInv == Init => IInv
<1> SUFFICES ASSUME Init PROVE IInv
  OBVIOUS
<1>1. \A w \in Slots : slot[w].at = "start"
  BY DEF Init, Idle
<1> QED
  BY <1>1, InitTypeOK DEF Init, IInv, Merged

(* And every step keeps it.                                                *)
LEMMA NextIInv == IInv /\ [Next]_vars => IInv'
<1> SUFFICES ASSUME IInv, [Next]_vars PROVE DOMAIN live' = Repos /\ \A w \in Slots : Merged(w)'
  BY NextTypeOK DEF IInv
<1>0. TypeOK /\ DOMAIN live = Repos /\ \A w \in Slots : Merged(w)
  BY DEF IInv
<1> DEFINE Goal == DOMAIN live' = Repos /\ \A w \in Slots : Merged(w)'
<1>1. ASSUME NEW c \in Configs, Propose(c) PROVE Goal
  BY <1>0, <1>1, SameSlot DEF Propose
<1>2. ASSUME NEW k \in DOMAIN proposed, Merge(k) PROVE Goal
  <2>1. \A i \in DOMAIN history : i \in DOMAIN history' /\ history'[i] = history[i]
    BY <1>0, <1>2, Types DEF Merge
  <2> QED
    BY <1>0, <1>2, <2>1, SameSlot DEF Merge
<1>3. ASSUME NEW r \in Repos, RepositoryEvent(r) PROVE Goal
  <2>1. DOMAIN live' = Repos
    BY <1>0, <1>3 DEF RepositoryEvent
  <2> QED
    BY <1>0, <1>3, <2>1, SameSlot DEF RepositoryEvent
<1>4. ASSUME NEW w \in Slots, NEW j \in queue, Take(w, j) PROVE Goal
  <2>1. slot' = [slot EXCEPT ![w] = [slot[w] EXCEPT !.job = j]] /\ slot[w].job = None
        /\ UNCHANGED << history, live >>
    BY <1>0, <1>4, Types DEF Take
  <2>2. slot[w].at # "apply"
    BY <1>0, <2>1 DEF Merged
  <2>3. slot'[w].at # "apply" /\ \A x \in Slots \ {w} : slot'[x] = slot[x]
    BY <1>0, <2>1, <2>2, Types DEF SlotStates
  <2>4. Merged(w)'
    BY <2>3 DEF Merged
  <2> QED
    BY <1>0, <2>1, <2>3, <2>4, SameSlot
<1>5. ASSUME NEW w \in Slots, End(w), UNCHANGED << history, live >> PROVE Goal
  <2>1. \A x \in Slots : slot'[x] \in {slot[x], Idle}
    BY <1>0, <1>5, Types DEF End
  <2> QED
    BY <1>0, <1>5, <2>1, SameSlot
<1>6. ASSUME NEW w \in Slots, Load(w) PROVE Goal
  <2> DEFINE c == Loaded(w)
             todo == TargetsOf(c, slot[w].job.repo)
  <2>1. IsAt(w, "reconcile_repo", "start") /\ UNCHANGED << history, live >>
    BY <1>6 DEF Load
  <2>2. CASE HasRepoWork(c)
    <3> DEFINE new == [slot[w] EXCEPT !.at = "apply", !.cfg = c, !.todo = todo]
    <3>1. slot' = [slot EXCEPT ![w] = new]
      BY <1>0, <1>6, <2>2, Types DEF Load
    <3>2. new.job = slot[w].job /\ new.cfg = c /\ new.todo = todo
      BY <1>0, Types DEF SlotStates
    <3> HIDE DEF new
    <3>3. slot'[w] = new /\ \A x \in Slots \ {w} : slot'[x] = slot[x]
      BY <1>0, <3>1, Types
    <3>4. slot[w].job \in Jobs(Len(proposed)) /\ slot[w].job.name = "reconcile_repo"
          /\ slot[w].job # None /\ slot[w].job.repo \in Repos
      BY <1>0, <2>1, Types, JobFields DEF IsAt, SlotStates
    <3>5. IsDryRun(w) => todo = {}
      <4>1. IsDryRun(w) => slot[w].job.repo = AdminRepo
        BY <3>4 DEF IsDryRun, Jobs, RepoJob, DryRun, Installation
      <4> QED
        BY <4>1, ReposAssumption DEF TargetsOf, select_targets, is_managed
    <3>6. ~IsDryRun(w) =>
            todo \subseteq select_targets(c, Repos) /\ \E i \in DOMAIN history : c = history[i]
      BY <1>0, <3>4, Types DEF Loaded, TargetsOf, select_targets
    <3>7. Merged(w)'
      <4>1. IsDryRun(w)' <=> IsDryRun(w)
        BY <3>2, <3>3 DEF IsDryRun
      <4> HIDE DEF c, todo
      <4> QED
        BY <2>1, <3>2, <3>3, <3>4, <3>5, <3>6, <4>1 DEF Merged
    <3> QED
      BY <1>0, <2>1, <3>3, <3>7, SameSlot
  <2>3. CASE ~HasRepoWork(c)
    BY <1>5, <1>6, <2>1, <2>3 DEF Load
  <2> QED
    BY <2>2, <2>3
<1>7. ASSUME NEW w \in Slots, Apply(w) PROVE Goal
  <2>1. /\ slot[w].at = "apply" /\ UNCHANGED history
        /\ slot'[w].todo \subseteq slot[w].todo
        /\ slot'[w].job = slot[w].job /\ slot'[w].cfg = slot[w].cfg /\ slot'[w].at = slot[w].at
        /\ \A x \in Slots \ {w} : slot'[x] = slot[x]
        /\ DOMAIN live' = DOMAIN live
    BY <1>7, ApplyIs DEF Apply
  <2>2. Merged(w)'
    <3>1. IsDryRun(w)' <=> IsDryRun(w)
      BY <2>1 DEF IsDryRun
    <3> QED
      BY <1>0, <2>1, <3>1 DEF Merged
  <2> QED
    BY <1>0, <2>1, <2>2, SameSlot
<1>8. ASSUME NEW w \in Slots, FanOut(w) \/ Post(w) \/ Fail(w) PROVE Goal
  BY <1>5, <1>8 DEF FanOut, Post, Fail
<1>9. CASE UNCHANGED vars
  BY <1>0, <1>9, SameSlot DEF vars
<1> QED
  BY <1>1, <1>2, <1>3, <1>4, <1>6, <1>7, <1>8, <1>9 DEF Next

-----------------------------------------------------------------------------
(* The types hold throughout: a run that applies tiers has a configuration *)
(* (runner.py:178-215), and each dry run a commit that is proposed.        *)
THEOREM TypeCorrect == Spec => []TypeOK
<1> QED
  BY InitTypeOK, NextTypeOK, PTL DEF Spec

(* Every proposed commit has its check, or a dry run that will post it     *)
(* (runner.py:232-238), however many other runs, failures, crashes, edits  *)
(* and merges come in between; but for one whose own dry run has ended in  *)
(* a failed call, and one whose file declares no repository tier and no    *)
(* overlay, an organization block or not (runner.py:187-191).              *)
THEOREM ProposalsRemembered == Spec => []NoProposalForgotten
<1>1. Init => NoProposalForgotten
  BY DEF Init, NoProposalForgotten
<1> QED
  BY <1>1, NextRemembers, TypeCorrect, PTL DEF Spec

(* A run writes only what some merged configuration asks for, to a         *)
(* repository this manages (runner.py:177-200): nothing that was only      *)
(* proposed, and nothing at all to the admin repo.                         *)
THEOREM OnlyMergedApplied == NoneByVisibility /\ Spec => OnlyMerged
<1> SUFFICES ASSUME NoneByVisibility PROVE Spec => OnlyMerged
  OBVIOUS
<1>1. IInv /\ [Next]_vars =>
        [\A w \in Slots, r \in Repos : Apply(w) /\ live'[r] # live[r] =>
            \E i \in DOMAIN history :
               r \notin Builtin /\ is_managed(history[i], r)
               /\ AsDeclared(history[i], r, live'[r])]_vars
  <2> SUFFICES ASSUME IInv, NEW w \in Slots, NEW r \in Repos, Apply(w), live'[r] # live[r]
               PROVE  \E i \in DOMAIN history :
                         r \notin Builtin /\ is_managed(history[i], r)
                         /\ AsDeclared(history[i], r, live'[r])
    OBVIOUS
  <2> DEFINE c == slot[w].cfg
  <2>1. /\ slot[w].at = "apply" /\ c \in Configs /\ ~IsDryRun(w) /\ r \in slot[w].todo
        /\ live'[r] = MergeLayer(live[r], Desired(c, r))
    BY ApplyIs
  <2>2. PICK i \in DOMAIN history : c = history[i] /\ r \in select_targets(c, Repos)
    BY <2>1 DEF IInv, Merged
  <2>3. AsDeclared(c, r, live'[r])
    BY <2>1, AppliedIsDeclared
  <2> QED
    BY <2>2, <2>3 DEF select_targets, is_managed
<1> QED
  BY <1>1, InitIInv, NextIInv, PTL DEF Spec, OnlyMerged

(* What a run leaves of a repository is what the base and the overlays ask *)
(* for it, the most specific winning (overlay.py:72-100), for any number   *)
(* of overlays: by induction over the layers.                              *)
THEOREM OverlaysApplied == NoneByVisibility /\ Spec => AppliedAsDeclared
<1> SUFFICES ASSUME NoneByVisibility PROVE Spec => AppliedAsDeclared
  OBVIOUS
<1>1. IInv /\ [Next]_vars =>
        [\A w \in Slots, r \in Repos :
            Apply(w) /\ ~IsDryRun(w) /\ r \in slot[w].todo /\ r \notin slot'[w].todo =>
               AsDeclared(slot[w].cfg, r, live'[r])]_vars
  <2> SUFFICES ASSUME IInv, NEW w \in Slots, NEW r \in Repos, Apply(w), ~IsDryRun(w),
                      r \in slot[w].todo, r \notin slot'[w].todo
               PROVE  AsDeclared(slot[w].cfg, r, live'[r])
    OBVIOUS
  <2>1. slot[w].cfg \in Configs /\ live'[r] = MergeLayer(live[r], Desired(slot[w].cfg, r))
    BY ApplyIs
  <2> QED
    BY <2>1, AppliedIsDeclared
<1> QED
  BY <1>1, InitIInv, NextIInv, PTL DEF Spec, AppliedAsDeclared
=============================================================================
