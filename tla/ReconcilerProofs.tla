-------------------------- MODULE ReconcilerProofs --------------------------
(* Machine-checked proofs about Reconciler.  The argument: a job never     *)
(* holds a version that is not merged, and a job that has got as far as    *)
(* its sections holds a version that selects its target; when it is about  *)
(* to write, that version declares the section (Sanctioned).  What a job   *)
(* knows never goes stale in this respect, whatever is merged meanwhile.   *)
EXTENDS Reconciler, TLAPS, FiniteSetTheorems

(* What the job of slot w may do is sanctioned by the version it loaded.   *)
Sound(w) ==
    /\ loaded[w] <= version
    /\ job[w] = None => step[w] = "load"
    /\ (job[w] \in Targets /\ step[w] \in {"read", "write"})
           => Selected(loaded[w], job[w])
    /\ (job[w] \in Targets /\ step[w] = "write")
           => Section(w) \in Configured(loaded[w], job[w])

Sanctioned == \A w \in Slots : Sound(w)

IInv == TypeOK /\ Sanctioned /\ OnlyDeclared

-----------------------------------------------------------------------------
(* A capped counter stays within its cap.                                  *)
LEMMA CappedType ==
    ASSUME NEW n \in Nat
    PROVE  Capped(n) \in 0 .. MaxCopies
  BY BoundsAssumption DEF Capped

(* Enqueuing keeps the queue within its bound.                             *)
LEMMA EnqueuedType ==
    ASSUME queued \in [JobNames -> 0 .. MaxCopies], NEW j \in JobNames
    PROVE  Enqueued(j) \in [JobNames -> 0 .. MaxCopies]
<1>1. queued[j] + 1 \in Nat
  BY BoundsAssumption
<1>2. Capped(queued[j] + 1) \in 0 .. MaxCopies
  BY <1>1, CappedType
<1> QED
  BY <1>2 DEF Enqueued

(* The sections a target has are sections.                                 *)
LEMMA SectionsOfType ==
    ASSUME NEW t \in Targets
    PROVE  /\ SectionsOf(t) \in Seq(AllSections)
           /\ Len(SectionsOf(t)) \in Nat
           /\ DOMAIN SectionsOf(t) = 1 .. Len(SectionsOf(t))
           /\ \A i \in DOMAIN SectionsOf(t) : SectionsOf(t)[i] \in AllSections
<1>1. SectionsOf(t) \in Seq(AllSections)
  BY SectionsAssumption DEF SectionsOf
<1> QED
  BY <1>1

(* Releasing a slot keeps the types of the slot variables.                 *)
LEMMA ReleaseType ==
    ASSUME TypeOK, NEW w \in Slots, Release(w)
    PROVE  /\ job' \in [Slots -> JobNames \cup {None}]
           /\ step' \in [Slots -> {"load", "org", "list", "fan", "read", "write"}]
           /\ loaded' \in [Slots -> Versions]
           /\ todo' \in [Slots -> SUBSET JobNames]
           /\ at' \in [Slots -> Nat \ {0}]
           /\ \A x \in Slots : job'[x] = None => step'[x] = "load"
  BY BoundsAssumption DEF TypeOK, Release, Versions

(* Going on to the next section keeps the types of the slot variables.     *)
LEMMA NextSectionType ==
    ASSUME TypeOK, NEW w \in Slots, NextSection(w), job[w] \in Targets
    PROVE  /\ job' \in [Slots -> JobNames \cup {None}]
           /\ step' \in [Slots -> {"load", "org", "list", "fan", "read", "write"}]
           /\ loaded' \in [Slots -> Versions]
           /\ todo' \in [Slots -> SUBSET JobNames]
           /\ at' \in [Slots -> Nat \ {0}]
           /\ \A x \in Slots : job'[x] = None => step'[x] = "load"
  BY TargetsAssumption DEF TypeOK, NextSection, GoTo, JobNames

(* The types hold initially.                                               *)
LEMMA InitTypeOK == Init => TypeOK
  BY BoundsAssumption DEF Init, TypeOK, Versions

(* Every step keeps the types.                                             *)
LEMMA NextTypeOK == TypeOK /\ [Next]_vars => TypeOK'
<1>1. ASSUME TypeOK, Merge PROVE TypeOK'
  BY <1>1, BoundsAssumption DEF TypeOK, Merge, Versions, JobNames, slotVars
<1>2. ASSUME TypeOK, NEW t \in Targets, NEW s \in OwnSections(t), Edit(t, s) PROVE TypeOK'
  <2>1. webhooks' \subseteq JobNames
    BY <1>2 DEF TypeOK, Edit, Echo, JobNames
  <2>2. disturbances' \in 0 .. MaxDisturbances
    BY <1>2, BoundsAssumption DEF TypeOK, Edit, Disturb
  <2>3. live' \in [Places -> Versions \cup {Foreign}]
    BY <1>2 DEF TypeOK, Edit
  <2> QED
    BY <1>2, <2>1, <2>2, <2>3 DEF TypeOK, Edit, slotVars
<1>3. ASSUME TypeOK, NEW j \in JobNames, Deliver(j) PROVE TypeOK'
  BY <1>3, EnqueuedType DEF TypeOK, Deliver, slotVars
<1>4. ASSUME TypeOK, NEW j \in JobNames, LoseWebhook(j) PROVE TypeOK'
  BY <1>4, BoundsAssumption DEF TypeOK, LoseWebhook, Disturb, slotVars
<1>5. ASSUME TypeOK, trigger_reconcile PROVE TypeOK'
  <2>1. Installation \in JobNames
    BY DEF JobNames
  <2> QED
    BY <1>5, <2>1, EnqueuedType, BoundsAssumption DEF TypeOK, trigger_reconcile, Disturb, slotVars
<1>6. ASSUME TypeOK, CronTick PROVE TypeOK'
  <2>1. All \in JobNames
    BY DEF JobNames
  <2> QED
    BY <1>6, <2>1, EnqueuedType DEF TypeOK, CronTick, slotVars
<1>7. ASSUME TypeOK, NEW w \in Slots, NEW j \in JobNames, Start(w, j) PROVE TypeOK'
  <2>1. queued[j] - 1 \in 0 .. MaxCopies
    BY <1>7, BoundsAssumption DEF TypeOK, Start
  <2>2. job'[w] # None
    BY <1>7, TargetsAssumption DEF TypeOK, Start
  <2> QED
    BY <1>7, <2>1, <2>2 DEF TypeOK, Start
<1>8. ASSUME TypeOK, NEW w \in Slots, Progress(w) PROVE TypeOK'
  <2>0. None \notin Targets /\ None # Installation /\ None # All
    BY TargetsAssumption DEF JobNames
  <2>1. CASE ListInstallations(w)
    BY <1>8, <2>0, <2>1 DEF TypeOK, ListInstallations, GoTo, JobNames
  <2>2. CASE LoadInstallation(w)
    BY <1>8, <2>0, <2>2 DEF TypeOK, LoadInstallation, GoTo
  <2>3. CASE EnqueueOrg(w)
    <3>1. queued' \in [JobNames -> 0 .. MaxCopies]
      BY <1>8, <2>3, EnqueuedType DEF TypeOK, EnqueueOrg, JobNames, Targets
    <3>2. CASE HasRepoWork(loaded[w])
      BY <1>8, <2>0, <2>3, <3>1, <3>2 DEF TypeOK, EnqueueOrg, GoTo
    <3>3. CASE ~HasRepoWork(loaded[w])
      BY <1>8, <2>3, <3>1, <3>3, ReleaseType DEF TypeOK, EnqueueOrg
    <3> QED
      BY <3>2, <3>3
  <2>4. CASE ListRepos(w)
    BY <1>8, <2>0, <2>4 DEF TypeOK, ListRepos, GoTo, JobNames, Targets
  <2>5. ASSUME NEW j \in JobNames, FanOut(w, j) PROVE TypeOK'
    BY <1>8, <2>5, EnqueuedType DEF TypeOK, FanOut
  <2>6. CASE FanOutDone(w)
    BY <1>8, <2>6, ReleaseType DEF TypeOK, FanOutDone
  <2>7. CASE LoadTarget(w)
    <3>1. CASE Selected(version, job[w])
      BY <1>8, <2>0, <2>7, <3>1 DEF TypeOK, LoadTarget, GoTo
    <3>2. CASE ~Selected(version, job[w])
      BY <1>8, <2>7, <3>2, ReleaseType DEF TypeOK, LoadTarget
    <3> QED
      BY <3>1, <3>2
  <2>8. CASE ReadSection(w)
    <3>1. CASE NextSection(w)
      BY <1>8, <2>0, <2>8, <3>1, NextSectionType DEF TypeOK, ReadSection
    <3>2. CASE GoTo(w, "write") /\ UNCHANGED << job, loaded, todo, at >>
      BY <1>8, <2>0, <2>8, <3>2 DEF TypeOK, ReadSection, GoTo
    <3> QED
      BY <2>8, <3>1, <3>2 DEF ReadSection
  <2>9. CASE WriteSection(w)
    <3>1. loaded[w] \in Versions /\ job[w] \in Targets
      BY <1>8, <2>9 DEF TypeOK, WriteSection
    <3>2. live' \in [Places -> Versions \cup {Foreign}]
      BY <1>8, <2>9, <3>1 DEF TypeOK, WriteSection
    <3>3. webhooks' \subseteq JobNames
      BY <1>8, <2>9, <3>1 DEF TypeOK, WriteSection, Echo, JobNames
    <3> QED
      BY <1>8, <2>9, <3>2, <3>3, NextSectionType DEF TypeOK, WriteSection
  <2>10. CASE WriteRefused(w)
    BY <1>8, <2>10, ReleaseType, NextSectionType DEF TypeOK, WriteRefused, SectionRaises
  <2>11. CASE SectionsDone(w)
    BY <1>8, <2>11, ReleaseType DEF TypeOK, SectionsDone
  <2> QED
    BY <1>8, <2>1, <2>2, <2>3, <2>4, <2>5, <2>6, <2>7, <2>8, <2>9, <2>10, <2>11 DEF Progress
<1>9. ASSUME TypeOK, NEW w \in Slots, SectionFails(w) PROVE TypeOK'
  <2>1. disturbances' \in 0 .. MaxDisturbances
    BY <1>9, BoundsAssumption DEF TypeOK, SectionFails, Disturb
  <2> QED
    BY <1>9, <2>1, ReleaseType, NextSectionType DEF TypeOK, SectionFails, SectionRaises
<1>10. ASSUME TypeOK, NEW w \in Slots, JobFails(w) PROVE TypeOK'
  <2>1. disturbances' \in 0 .. MaxDisturbances
    BY <1>10, BoundsAssumption DEF TypeOK, JobFails, Disturb
  <2> QED
    BY <1>10, <2>1, ReleaseType DEF TypeOK, JobFails
<1>11. ASSUME TypeOK, Crash PROVE TypeOK'
  <2>1. disturbances' \in 0 .. MaxDisturbances
    BY <1>11, BoundsAssumption DEF TypeOK, Crash, Disturb
  <2>2. ASSUME NEW j \in JobNames
        PROVE  Capped(queued[j] + Cardinality({w \in Slots : job[w] = j})) \in 0 .. MaxCopies
    <3>1. Cardinality({w \in Slots : job[w] = j}) \in Nat
      BY BoundsAssumption, FS_Subset, FS_CardinalityType
    <3>2. queued[j] \in Nat
      BY <1>11, BoundsAssumption DEF TypeOK
    <3>3. queued[j] + Cardinality({w \in Slots : job[w] = j}) \in Nat
      BY <3>1, <3>2
    <3> QED
      BY <3>3, CappedType
  <2>3. queued' \in [JobNames -> 0 .. MaxCopies]
    BY <1>11, <2>2 DEF TypeOK, Crash
  <2>4. /\ job' \in [Slots -> JobNames \cup {None}]
        /\ step' \in [Slots -> {"load", "org", "list", "fan", "read", "write"}]
        /\ loaded' \in [Slots -> Versions]
        /\ todo' \in [Slots -> SUBSET JobNames]
        /\ at' \in [Slots -> Nat \ {0}]
        /\ \A x \in Slots : step'[x] = "load"
    BY <1>11, BoundsAssumption DEF Crash, Versions
  <2> QED
    BY <1>11, <2>1, <2>3, <2>4 DEF TypeOK, Crash
<1>12. ASSUME TypeOK, UNCHANGED vars PROVE TypeOK'
  BY <1>12 DEF TypeOK, vars
<1> QED
  BY <1>1, <1>2, <1>3, <1>4, <1>5, <1>6, <1>7, <1>8, <1>9, <1>10, <1>11, <1>12 DEF Next

(* Type correctness: every variable of the reconciler keeps its type.      *)
THEOREM TypeCorrect == Spec => []TypeOK
  BY InitTypeOK, NextTypeOK, PTL DEF Spec

-----------------------------------------------------------------------------
(* A step that leaves a slot as it is leaves its job sound.                *)
Kept(w) ==
    /\ job'[w] = job[w]
    /\ step'[w] = step[w]
    /\ loaded'[w] = loaded[w]
    /\ at'[w] = at[w]

LEMMA KeptSound ==
    ASSUME TypeOK, TypeOK', NEW w \in Slots, Sound(w), Kept(w),
           version' = version \/ version' = version + 1
    PROVE  Sound(w)'
<1>1. loaded'[w] <= version'
  BY DEF TypeOK, Sound, Kept, Versions
<1> QED
  BY <1>1 DEF Sound, Kept, Section

(* Releasing a slot leaves a sound slot, and the others as they are.       *)
LEMMA ReleaseSound ==
    ASSUME TypeOK, NEW w \in Slots, Release(w), version' = version
    PROVE  Sound(w)' /\ \A x \in Slots \ {w} : Kept(x)
<1>1. step'[w] = "load" /\ loaded'[w] = 0
  BY DEF TypeOK, Release
<1>2. loaded'[w] <= version'
  BY <1>1, BoundsAssumption DEF TypeOK, Versions
<1>3. \A x \in Slots \ {w} : Kept(x)
  BY DEF TypeOK, Release, Kept
<1> QED
  BY <1>1, <1>2, <1>3 DEF Sound

(* Going on to the next section keeps the version and the target.          *)
LEMMA NextSectionSound ==
    ASSUME TypeOK, NEW w \in Slots, Sound(w), NextSection(w), version' = version,
           job[w] \in Targets, step[w] \in {"read", "write"}
    PROVE  Sound(w)' /\ \A x \in Slots \ {w} : Kept(x)
<1>1. step'[w] = "read" /\ loaded'[w] = loaded[w] /\ job'[w] = job[w]
  BY DEF TypeOK, NextSection, GoTo
<1>2. \A x \in Slots \ {w} : Kept(x)
  BY DEF TypeOK, NextSection, GoTo, Kept
<1>3. job[w] # None
  BY TargetsAssumption DEF JobNames
<1> QED
  BY <1>1, <1>2, <1>3 DEF Sound

(* A step of slot w that ends sound keeps Sanctioned.                      *)
LEMMA OneSlot ==
    ASSUME TypeOK, TypeOK', Sanctioned, NEW w \in Slots, Sound(w)',
           \A x \in Slots \ {w} : Kept(x), version' = version
    PROVE  Sanctioned'
  BY KeptSound DEF Sanctioned

(* A step that touches no slot keeps Sanctioned.                           *)
LEMMA NoSlot ==
    ASSUME TypeOK, TypeOK', Sanctioned, UNCHANGED slotVars,
           version' = version \/ version' = version + 1
    PROVE  Sanctioned'
<1>1. \A w \in Slots : Kept(w)
  BY DEF Kept, slotVars
<1> QED
  BY <1>1, KeptSound DEF Sanctioned

(* Every step of a running job keeps Sanctioned.                           *)
LEMMA ProgressSanctioned ==
    ASSUME TypeOK, TypeOK', Sanctioned, NEW w \in Slots, Progress(w)
    PROVE  Sanctioned'
<1> SUFFICES Sound(w)' /\ (\A x \in Slots \ {w} : Kept(x)) /\ version' = version
  BY OneSlot
<1>0. Sound(w) /\ loaded[w] \in Versions /\ version \in Versions /\ at[w] \in Nat \ {0}
  BY DEF Sanctioned, TypeOK
<1>a. Installation \notin Targets /\ All \notin Targets /\ None \notin Targets
      /\ Installation # None /\ All # None
  BY TargetsAssumption DEF JobNames
<1>1. CASE ListInstallations(w)
  <2>1. version' = version /\ job'[w] = All /\ step'[w] = "fan" /\ loaded'[w] = loaded[w]
    BY <1>1 DEF TypeOK, ListInstallations, GoTo
  <2>2. \A x \in Slots \ {w} : Kept(x)
    BY <1>1 DEF TypeOK, ListInstallations, GoTo, Kept
  <2> QED
    BY <1>0, <1>a, <2>1, <2>2 DEF Sound
<1>2. CASE LoadInstallation(w)
  <2>1. /\ version' = version /\ job'[w] = Installation
        /\ step'[w] = "org" /\ loaded'[w] = version
    BY <1>2 DEF TypeOK, LoadInstallation, GoTo
  <2>2. \A x \in Slots \ {w} : Kept(x)
    BY <1>2 DEF TypeOK, LoadInstallation, GoTo, Kept
  <2>3. loaded'[w] <= version'
    BY <1>0, <2>1, BoundsAssumption DEF Versions
  <2> QED
    BY <1>a, <2>1, <2>2, <2>3 DEF Sound
<1>3. CASE EnqueueOrg(w)
  <2>1. CASE Release(w)
    BY <1>3, <2>1, ReleaseSound DEF EnqueueOrg
  <2>2. CASE GoTo(w, "list") /\ UNCHANGED << job, loaded, todo, at >>
    <3>1. /\ version' = version /\ job'[w] = Installation
          /\ step'[w] = "list" /\ loaded'[w] = loaded[w]
      BY <1>3, <2>2 DEF TypeOK, EnqueueOrg, GoTo
    <3>2. \A x \in Slots \ {w} : Kept(x)
      BY <2>2 DEF TypeOK, GoTo, Kept
    <3> QED
      BY <1>0, <1>a, <3>1, <3>2 DEF Sound
  <2> QED
    BY <1>3, <2>1, <2>2 DEF EnqueueOrg
<1>4. CASE ListRepos(w)
  <2>1. /\ version' = version /\ job'[w] = Installation
        /\ step'[w] = "fan" /\ loaded'[w] = loaded[w]
    BY <1>4 DEF TypeOK, ListRepos, GoTo
  <2>2. \A x \in Slots \ {w} : Kept(x)
    BY <1>4 DEF TypeOK, ListRepos, GoTo, Kept
  <2> QED
    BY <1>0, <1>a, <2>1, <2>2 DEF Sound
<1>5. ASSUME NEW j \in JobNames, FanOut(w, j)
      PROVE  Sound(w)' /\ (\A x \in Slots \ {w} : Kept(x)) /\ version' = version
  <2>1. version' = version /\ \A x \in Slots : Kept(x)
    BY <1>5 DEF FanOut, Kept
  <2> QED
    BY <1>0, <2>1, KeptSound
<1>6. CASE FanOutDone(w)
  BY <1>6, ReleaseSound DEF FanOutDone
<1>7. CASE LoadTarget(w)
  <2>1. CASE Selected(version, job[w])
    <3>1. /\ version' = version /\ job'[w] = job[w] /\ job[w] \in Targets
          /\ step'[w] = "read" /\ loaded'[w] = version
      BY <1>7, <2>1 DEF TypeOK, LoadTarget, GoTo
    <3>2. \A x \in Slots \ {w} : Kept(x)
      BY <1>7, <2>1 DEF TypeOK, LoadTarget, GoTo, Kept
    <3>3. loaded'[w] <= version'
      BY <1>0, <3>1, BoundsAssumption DEF Versions
    <3> QED
      BY <1>a, <2>1, <3>1, <3>2, <3>3 DEF Sound
  <2>2. CASE ~Selected(version, job[w])
    BY <1>7, <2>2, ReleaseSound DEF LoadTarget
  <2> QED
    BY <2>1, <2>2
<1>8. CASE ReadSection(w)
  <2>1. CASE NextSection(w)
    BY <1>0, <1>8, <2>1, NextSectionSound DEF ReadSection
  <2>2. CASE ~NextSection(w)
    <3>1. /\ version' = version /\ job[w] \in Targets /\ step[w] = "read"
          /\ Section(w) \in Configured(loaded[w], job[w])
          /\ GoTo(w, "write") /\ UNCHANGED << job, loaded, todo, at >>
      BY <1>8, <2>2 DEF ReadSection
    <3>2. /\ step'[w] = "write" /\ job'[w] = job[w] /\ loaded'[w] = loaded[w]
          /\ Section(w)' = Section(w)
          /\ \A x \in Slots \ {w} : Kept(x)
      BY <3>1 DEF TypeOK, GoTo, Kept, Section
    <3> QED
      BY <1>0, <1>a, <3>1, <3>2 DEF Sound
  <2> QED
    BY <2>1, <2>2
<1>9. CASE WriteSection(w)
  BY <1>0, <1>9, NextSectionSound DEF WriteSection
<1>10. CASE WriteRefused(w)
  BY <1>0, <1>10, NextSectionSound, ReleaseSound DEF WriteRefused, SectionRaises
<1>11. CASE SectionsDone(w)
  BY <1>11, ReleaseSound DEF SectionsDone
<1> QED
  BY <1>1, <1>2, <1>3, <1>4, <1>5, <1>6, <1>7, <1>8, <1>9, <1>10, <1>11 DEF Progress

(* Every step keeps Sanctioned.                                            *)
LEMMA NextSanctioned ==
    ASSUME TypeOK, TypeOK', Sanctioned, [Next]_vars
    PROVE  Sanctioned'
<1>1. CASE Merge
  BY <1>1, NoSlot DEF Merge
<1>2. ASSUME NEW t \in Targets, NEW s \in OwnSections(t), Edit(t, s) PROVE Sanctioned'
  BY <1>2, NoSlot DEF Edit
<1>3. ASSUME NEW j \in JobNames, Deliver(j) \/ LoseWebhook(j) PROVE Sanctioned'
  BY <1>3, NoSlot DEF Deliver, LoseWebhook
<1>4. CASE trigger_reconcile \/ CronTick
  BY <1>4, NoSlot DEF trigger_reconcile, CronTick
<1>5. ASSUME NEW w \in Slots, NEW j \in JobNames, Start(w, j) PROVE Sanctioned'
  <2>1. version' = version /\ \A x \in Slots \ {w} : Kept(x)
    BY <1>5 DEF TypeOK, Start, Kept
  <2>2. step'[w] = "load" /\ loaded'[w] = loaded[w]
    BY <1>5 DEF Start, Sanctioned, Sound
  <2>3. Sound(w)'
    BY <2>1, <2>2 DEF Sanctioned, Sound
  <2> QED
    BY <2>1, <2>3, OneSlot
<1>6. ASSUME NEW w \in Slots, Progress(w) PROVE Sanctioned'
  BY <1>6, ProgressSanctioned
<1>7. ASSUME NEW w \in Slots, SectionFails(w) PROVE Sanctioned'
  <2>1. version' = version /\ job[w] \in Targets /\ step[w] \in {"read", "write"} /\ Sound(w)
    BY <1>7 DEF SectionFails, Sanctioned
  <2>2. Release(w) \/ NextSection(w)
    BY <1>7 DEF SectionFails, SectionRaises
  <2>3. Sound(w)' /\ \A x \in Slots \ {w} : Kept(x)
    BY <2>1, <2>2, ReleaseSound, NextSectionSound
  <2> QED
    BY <2>1, <2>3, OneSlot
<1>8. ASSUME NEW w \in Slots, JobFails(w) PROVE Sanctioned'
  BY <1>8, ReleaseSound, OneSlot DEF JobFails
<1>9. CASE Crash
  <2>1. \A w \in Slots : step'[w] = "load" /\ loaded'[w] = 0
    BY <1>9 DEF Crash
  <2>2. 0 <= version'
    BY BoundsAssumption DEF TypeOK, Versions
  <2> QED
    BY <2>1, <2>2 DEF Sanctioned, Sound
<1>10. CASE UNCHANGED vars
  BY <1>10, NoSlot DEF vars, slotVars
<1> QED
  BY <1>1, <1>2, <1>3, <1>4, <1>5, <1>6, <1>7, <1>8, <1>9, <1>10 DEF Next

-----------------------------------------------------------------------------
(* What a step does to the account: nothing, a merge, an edit by hand, or  *)
(* a write that the version the job loaded declares.                       *)
LEMMA StepOnAccount ==
    ASSUME TypeOK, Sanctioned, [Next]_vars
    PROVE  \/ version' = version /\ live' = live
           \/ Merge
           \/ \E p \in Places : version' = version /\ live' = [live EXCEPT ![p] = Foreign]
           \/ \E p \in Places, v \in Versions :
                /\ v <= version
                /\ p[2] \in Declares(v, p[1])
                /\ version' = version
                /\ live' = [live EXCEPT ![p] = v]
<1>1. ASSUME NEW t \in Targets, NEW s \in OwnSections(t), Edit(t, s)
      PROVE  \E p \in Places : version' = version /\ live' = [live EXCEPT ![p] = Foreign]
  <2>1. << t, s >> \in Places
    BY DEF Places, AllSections
  <2> QED
    BY <1>1, <2>1 DEF Edit
<1>2. ASSUME NEW w \in Slots, WriteSection(w)
      PROVE  \E p \in Places, v \in Versions :
                /\ v <= version
                /\ p[2] \in Declares(v, p[1])
                /\ version' = version
                /\ live' = [live EXCEPT ![p] = v]
  <2>1. /\ version' = version
        /\ job[w] \in Targets /\ step[w] = "write"
        /\ live' = [live EXCEPT ![Here(w)] = loaded[w]]
    BY <1>2 DEF WriteSection
  <2>2. /\ loaded[w] \in Versions /\ loaded[w] <= version
        /\ Selected(loaded[w], job[w])
        /\ Section(w) \in Configured(loaded[w], job[w])
    BY <2>1 DEF TypeOK, Sanctioned, Sound
  <2>3. Section(w) \in Declares(loaded[w], job[w])
    BY <2>2 DEF Declares
  <2>4. Section(w) \in AllSections
    BY <2>1, <2>2, SectionsAssumption DEF AllSections
  <2>5. /\ Here(w) \in Places
        /\ Here(w)[1] = job[w] /\ Here(w)[2] = Section(w)
    BY <2>1, <2>4 DEF Here, Places
  <2> QED
    BY <2>1, <2>2, <2>3, <2>5
<1>3. ASSUME NEW w \in Slots, Progress(w), ~WriteSection(w)
      PROVE  version' = version /\ live' = live
  BY <1>3 DEF Progress, ListInstallations, LoadInstallation, EnqueueOrg, ListRepos, FanOut,
     FanOutDone, LoadTarget, ReadSection, WriteRefused, SectionsDone
<1>4. ASSUME NEW j \in JobNames, Deliver(j) \/ LoseWebhook(j)
      PROVE  version' = version /\ live' = live
  BY <1>4 DEF Deliver, LoseWebhook
<1>5. ASSUME trigger_reconcile \/ CronTick \/ Crash PROVE version' = version /\ live' = live
  BY <1>5 DEF trigger_reconcile, CronTick, Crash
<1>6. ASSUME NEW w \in Slots, SectionFails(w) \/ JobFails(w) \/ \E j \in JobNames : Start(w, j)
      PROVE  version' = version /\ live' = live
  BY <1>6 DEF SectionFails, JobFails, Start
<1>7. CASE UNCHANGED vars
  BY <1>7 DEF vars
<1> QED
  BY <1>1, <1>2, <1>3, <1>4, <1>5, <1>6, <1>7 DEF Next

(* A step of that kind keeps OnlyDeclared.                                 *)
LEMMA NextOnlyDeclared ==
    ASSUME TypeOK, TypeOK', Sanctioned, OnlyDeclared, [Next]_vars
    PROVE  OnlyDeclared'
<1>1. version \in Nat /\ version' \in Nat
  BY BoundsAssumption DEF TypeOK, Versions
<1>2. version <= version'
  BY <1>1, StepOnAccount DEF Merge
<1> SUFFICES ASSUME NEW p \in Places, live'[p] # Foreign
             PROVE  live'[p] <= version' /\ p[2] \in Declares(live'[p], p[1])
  BY DEF OnlyDeclared
<1>3. CASE live'[p] = live[p]
  <2>1. live[p] \in Nat
    BY <1>3, BoundsAssumption DEF TypeOK, Versions
  <2> QED
    BY <1>1, <1>2, <1>3, <2>1 DEF OnlyDeclared
<1>4. CASE live'[p] # live[p]
  <2>1. PICK q \in Places, v \in Versions :
           /\ v <= version
           /\ q[2] \in Declares(v, q[1])
           /\ version' = version
           /\ live' = [live EXCEPT ![q] = v]
    BY <1>4, StepOnAccount DEF Merge, TypeOK
  <2>2. p = q /\ live'[p] = v
    BY <1>4, <2>1 DEF TypeOK
  <2> QED
    BY <2>1, <2>2
<1> QED
  BY <1>3, <1>4

(* IInv holds initially and is kept by every step.                         *)
LEMMA SpecIInv == Spec => []IInv
<1>1. Init => IInv
  <2> SUFFICES ASSUME Init PROVE Sanctioned /\ OnlyDeclared
    BY InitTypeOK DEF IInv
  <2>1. \A w \in Slots : step[w] = "load" /\ loaded[w] = 0
    BY DEF Init
  <2>2. \A p \in Places : live[p] = Foreign
    BY DEF Init
  <2>3. version = 0
    BY DEF Init
  <2> QED
    BY <2>1, <2>2, <2>3 DEF Sanctioned, Sound, OnlyDeclared
<1>2. IInv /\ [Next]_vars => IInv'
  BY NextTypeOK, NextSanctioned, NextOnlyDeclared DEF IInv
<1> QED
  BY <1>1, <1>2, PTL DEF Spec

(* However jobs, merges and failures overlap, a value Caldrith has written *)
(* is one that a merged version declares for that section of that target.  *)
THEOREM WritesAreDeclared == Spec => []OnlyDeclared
<1>1. IInv => OnlyDeclared
  BY DEF IInv
<1> QED
  BY <1>1, SpecIInv, PTL

(* The reconciler implements Enforcement: every step of it is a merge, an  *)
(* edit by hand, a sanctioned write or nothing to the account.             *)
THEOREM ReconcilerImplements == Spec => Implements
<1>1. Init => Promise!Init
  BY DEF Init, Promise!Init, Promise!Places, Places
<1>2. IInv /\ [Next]_vars => [Promise!Next]_<< version, live >>
  <2> SUFFICES ASSUME IInv, [Next]_vars PROVE [Promise!Next]_<< version, live >>
    OBVIOUS
  <2>1. CASE version' = version /\ live' = live
    BY <2>1
  <2>2. CASE Merge
    BY <2>2 DEF Merge, Promise!Next, Promise!Merge
  <2>3. ASSUME NEW p \in Places, version' = version, live' = [live EXCEPT ![p] = Foreign]
        PROVE  Promise!Next
    BY <2>3 DEF Promise!Next, Promise!Drift, Promise!Places, Places
  <2>4. ASSUME NEW p \in Places, NEW v \in Versions, v <= version,
               p[2] \in Declares(v, p[1]), version' = version,
               live' = [live EXCEPT ![p] = v]
        PROVE  Promise!Next
    BY <2>4 DEF Promise!Next, Promise!Enforce, Promise!Places, Promise!Versions, Places, Versions
  <2> QED
    BY <2>1, <2>2, <2>3, <2>4, StepOnAccount DEF IInv
<1> QED
  BY <1>1, <1>2, SpecIInv, PTL DEF Spec, Implements, Promise!Spec
=============================================================================
