-------------------------- MODULE CollectionsProofs --------------------------
(* Machine-checked proofs about Collections.  What a run sends is always a *)
(* part of a plan made from one snapshot; the lemmas about plans say that  *)
(* the requests of one plan do not get into each other's way.              *)
EXTENDS Collections, FiniteSetTheorems, TLAPS

-----------------------------------------------------------------------------
(* The plans of the ten tiers in one form.                                 *)

WriteOp(t, d, s) ==
    CASE t = "labels" -> LabelOp(d, s)
      [] t = "milestones" -> MilestoneOp(d, s)
      [] t = "collaborators" -> CollaboratorOp(d, s)
      [] t = "teams" -> TeamOp(d, s)
      [] t = "variables" -> VariableOp(d, s)
      [] t = "autolinks" -> AutolinkOp(d, s)
      [] t = "environments" -> EnvironmentOp(d, s)
      [] t = "secrets" -> SecretOp(d, s)

(* The request for the declaration d, the i-th of its list.                *)
WriteOf(t, i, d, s) == Request(i, WriteOp(t, d, s), d)

DeleteOf(t, D, n, s) ==
    [rank |-> IF t = "autolinks" THEN 0 ELSE Len(D) + 1, op |-> "delete", name |-> n, was |-> s[n]]

IsWrite(r, t, D, s) ==
    \E i \in DOMAIN D : WriteOp(t, D[i], s) # "none" /\ r = WriteOf(t, i, D[i], s)

IsDelete(r, t, D, s) ==
    \E n \in Names :
        /\ s[n] # Absent /\ r = DeleteOf(t, D, n, s)
        /\ n \in Members(D) => t = "autolinks"
        /\ t = "labels" => \A i \in DOMAIN D : Renames(D[i], s) => D[i].oldname # n

Replacing(values) == [rank |-> 1, op |-> "set", values |-> values]

Sets == {"topics", "custom_properties"}

(* A declared list has distinct names and typed members.                   *)
LEMMA DeclaredTypes ==
    ASSUME NEW t \in Tiers, NEW v \in Versions, NEW i \in DOMAIN Declared(t, v)
    PROVE  /\ Declared(t, v)[i] \in Declaration
           /\ i \in Nat \ {0} /\ i <= Len(Declared(t, v)) /\ Len(Declared(t, v)) \in Nat
           /\ \A j \in DOMAIN Declared(t, v) :
                Declared(t, v)[i].name = Declared(t, v)[j].name => i = j
           /\ t = "topics" => Declared(t, v)[i].want = Unset
           /\ t = "custom_properties" => Declared(t, v)[i].want # Unset
           /\ t # "custom_properties" => Declared(t, v)[i].want # Absent
  BY DeclaredAssumption, ValuesAssumption

(* The requests of the tiers that go member by member.                     *)
LEMMA PlanForm ==
    ASSUME NEW t \in Tiers \ Sets, NEW v \in Versions, NEW s \in Collection,
           NEW r \in PlanOf(t, v, s)
    PROVE  IsWrite(r, t, Declared(t, v), s) \/ IsDelete(r, t, Declared(t, v), s)
<1> DEFINE D == Declared(t, v)
<1> USE DEF Writes, Deletions, IsWrite, IsDelete, WriteOf, DeleteOf, WriteOp
<1>1. CASE t = "labels"
  BY <1>1 DEF PlanOf, LabelPlan
<1>2. CASE t = "milestones"
  BY <1>2 DEF PlanOf, MilestonePlan
<1>3. CASE t = "collaborators"
  BY <1>3 DEF PlanOf, CollaboratorPlan
<1>4. CASE t = "teams"
  BY <1>4 DEF PlanOf, TeamPlan
<1>5. CASE t = "variables"
  BY <1>5 DEF PlanOf, VariablePlan
<1>6. CASE t = "autolinks"
  <2>1. \A i \in DOMAIN D : D[i].name \in Names
    BY DeclaredTypes DEF Declaration
  <2>2. r \in Writes(D, LAMBDA d : AutolinkOp(d, s)) =>
          IsWrite(r, t, D, s)
    BY <1>6
  <2>3. ASSUME NEW names \in SUBSET Names, r \in Deletions(0, names, s) PROVE IsDelete(r, t, D, s)
    BY <1>6, <2>3
  <2> DEFINE stale == {D[i].name : i \in {j \in DOMAIN D : Drifted(D[j], s)}}
  <2>4. (Names \ Members(D)) \cup stale \in SUBSET Names
    BY <2>1
  <2>5. PlanOf(t, v, s) = Deletions(0, (Names \ Members(D)) \cup stale, s)
                            \cup Writes(D, LAMBDA d : AutolinkOp(d, s))
    BY <1>6 DEF PlanOf, AutolinkPlan
  <2> QED
    BY <2>2, <2>3, <2>4, <2>5
<1>7. CASE t = "environments"
  BY <1>7 DEF PlanOf, EnvironmentPlan
<1>8. CASE t = "secrets"
  BY <1>8 DEF PlanOf, SecretPlan
<1> QED
  BY <1>1, <1>2, <1>3, <1>4, <1>5, <1>6, <1>7, <1>8, TiersAssumption DEF AllTiers, Sets

(* The tiers that replace a whole set send one request, or none.           *)
LEMMA SetPlanForm ==
    ASSUME NEW t \in Tiers \cap Sets, NEW v \in Versions, NEW s \in Collection,
           NEW r \in PlanOf(t, v, s)
    PROVE  /\ PlanOf(t, v, s) = {r}
           /\ \E values : /\ r = Replacing(values)
                          /\ DOMAIN values \subseteq Names
                          /\ \A n \in DOMAIN values : values[n] \in Values \cup {Absent}
<1> DEFINE D == Declared(t, v)
<1>1. CASE t = "topics"
  BY <1>1, ValuesAssumption DEF PlanOf, TopicPlan, Replacing
<1>2. CASE t = "custom_properties"
  <2> DEFINE drifted == {D[i] : i \in {j \in DOMAIN D : s[D[j].name] # D[j].want}}
             chosen(n) == CHOOSE d \in drifted : d.name = n
             values == [n \in {d.name : d \in drifted} |-> chosen(n).want]
  <2>1. PlanOf(t, v, s) =
          IF drifted = {} THEN {} ELSE {[rank |-> 1, op |-> "set", values |-> values]}
    BY <1>2 DEF PlanOf, CustomPropertyPlan
  <2>2. \A d \in drifted : d \in Declaration /\ d.want # Unset
    BY <1>2, DeclaredTypes
  <2>3. ASSUME NEW n \in {d.name : d \in drifted} PROVE values[n] \in Values \cup {Absent} /\ n \in Names
    <3>1. chosen(n) \in drifted
      BY <2>3
    <3> HIDE DEF chosen
    <3>2. values[n] = chosen(n).want
      BY <2>3
    <3> QED
      BY <2>2, <2>3, <3>1, <3>2 DEF Declaration
  <2>4. DOMAIN values = {d.name : d \in drifted}
    OBVIOUS
  <2> HIDE DEF drifted, values
  <2> QED
    BY <2>1, <2>3, <2>4 DEF Replacing
<1> QED
  BY <1>1, <1>2 DEF Sets

(* What a decision says of the snapshot.                                   *)
LEMMA OpMeans ==
    ASSUME NEW t \in Tiers \ Sets, NEW d \in Declaration, NEW s \in Collection
    PROVE  /\ WriteOp(t, d, s) \in {"create", "update", "rename", "put", "none"}
           /\ WriteOp(t, d, s) = "create" =>
                /\ t \notin {"environments", "secrets"}
                /\ Missing(d, s) \/ (t = "autolinks" /\ Drifted(d, s))
           /\ WriteOp(t, d, s) = "update" =>
                t \notin {"environments", "secrets"} /\ s[d.name] # Absent /\ d.want # Unset
           /\ WriteOp(t, d, s) = "rename" => t = "labels" /\ Renames(d, s)
           /\ t = "labels" /\ WriteOp(t, d, s) # "rename" => ~Renames(d, s)
<1> USE DEF WriteOp, LabelOp, MilestoneOp, CollaboratorOp, TeamOp, VariableOp, AutolinkOp,
            EnvironmentOp, EnvironmentDrifted, SecretOp
<1>1. t \in AllTiers \ Sets
  BY TiersAssumption
<1>2. CASE t = "labels"
  BY <1>2 DEF Drifted, Missing, Renames
<1>3. CASE t # "labels"
  BY <1>1, <1>3 DEF AllTiers, Sets, Drifted, Missing
<1> QED
  BY <1>2, <1>3

(* What has to be deleted before an autolink is created is deleted first.  *)
LEMMA AutolinkDeletedFirst ==
    ASSUME "autolinks" \in Tiers, NEW v \in Versions, NEW s \in Collection,
           NEW i \in DOMAIN Declared("autolinks", v), Drifted(Declared("autolinks", v)[i], s)
    PROVE  \E q \in PlanOf("autolinks", v, s) :
             q.op = "delete" /\ q.name = Declared("autolinks", v)[i].name /\ q.rank = 0
<1> DEFINE D == Declared("autolinks", v)
           stale == {D[j].name : j \in {k \in DOMAIN D : Drifted(D[k], s)}}
           q == [rank |-> 0, op |-> "delete", name |-> D[i].name, was |-> s[D[i].name]]
<1>1. D[i].name \in stale /\ s[D[i].name] # Absent
  BY DEF Drifted, Missing
<1>2. Deletions(0, (Names \ Members(D)) \cup stale, s) \subseteq PlanOf("autolinks", v, s)
  BY DEF PlanOf, AutolinkPlan
<1> HIDE DEF stale
<1>3. q \in Deletions(0, (Names \ Members(D)) \cup stale, s)
  BY <1>1 DEF Deletions
<1> QED
  BY <1>2, <1>3

(* No label is renamed from a name that another entry declares, or that    *)
(* another entry renames.                                                  *)
Untangled ==
    "labels" \in Tiers =>
      \A v \in Versions : \A i, j \in DOMAIN Declared("labels", v) :
         LET d == Declared("labels", v)[i]
             e == Declared("labels", v)[j]
         IN  i # j /\ d.oldname # NoName => d.oldname \notin {e.name, e.oldname}

(* Two requests that touch different members, or one that deletes what the *)
(* other then creates.                                                     *)
Apart(q, r) ==
    /\ q.op # "set" /\ r.op # "set"
    /\ q.name = r.name => \/ q.op = "delete" /\ r.op = "create" /\ q.rank < r.rank
                          \/ r.op = "delete" /\ q.op = "create" /\ r.rank < q.rank
    /\ q.op = "rename" => /\ q.oldname # r.name
                          /\ r.op = "rename" => q.oldname # r.oldname

(* The requests of one plan are apart.                                     *)
LEMMA PlanApart ==
    ASSUME NEW t \in Tiers, NEW v \in Versions, NEW s \in Collection, t = "labels" => Untangled,
           NEW q \in PlanOf(t, v, s), NEW r \in PlanOf(t, v, s), q # r
    PROVE  Apart(q, r)
<1> DEFINE D == Declared(t, v)
<1>1. t \notin Sets
  BY SetPlanForm
<1>2. \A i \in DOMAIN D : D[i] \in Declaration /\ i \in Nat \ {0}
  BY DeclaredTypes
<1>3. \A i, j \in DOMAIN D : D[i].name = D[j].name => i = j
  BY DeclaredTypes
<1>4. IsWrite(q, t, D, s) \/ IsDelete(q, t, D, s)
  BY <1>1, PlanForm
<1>5. IsWrite(r, t, D, s) \/ IsDelete(r, t, D, s)
  BY <1>1, PlanForm
<1>6. \A x : IsDelete(x, t, D, s) => x.op = "delete"
  BY DEF IsDelete, DeleteOf
<1>7. \A x : IsWrite(x, t, D, s) => x.op \in {"create", "update", "rename", "put"}
  BY <1>1, <1>2, OpMeans DEF IsWrite, WriteOf, Request
<1>8. CASE IsWrite(q, t, D, s) /\ IsWrite(r, t, D, s)
  <2>1. PICK i \in DOMAIN D : q = WriteOf(t, i, D[i], s)
    BY <1>8 DEF IsWrite
  <2>2. PICK j \in DOMAIN D : r = WriteOf(t, j, D[j], s)
    BY <1>8 DEF IsWrite
  <2>3. i # j /\ D[i].name # D[j].name
    BY <1>3, <2>1, <2>2
  <2>4. q.op = "rename" => t = "labels" /\ D[i].oldname # NoName
    BY <1>1, <1>2, <2>1, OpMeans DEF WriteOf, Request, Renames
  <2>5. q.op = "rename" => D[i].oldname \notin {D[j].name, D[j].oldname}
    BY <2>3, <2>4 DEF Untangled
  <2>6. /\ q.name = D[i].name /\ q.oldname = D[i].oldname
        /\ r.name = D[j].name /\ r.oldname = D[j].oldname
    BY <2>1, <2>2 DEF WriteOf, Request
  <2> QED
    BY <1>7, <1>8, <2>3, <2>5, <2>6 DEF Apart
<1>9. ASSUME NEW x, NEW y, IsWrite(x, t, D, s), IsDelete(y, t, D, s)
      PROVE  /\ x.name = y.name => x.op = "create" /\ y.rank < x.rank
             /\ x.op = "rename" => x.oldname # y.name
  <2>1. PICK i \in DOMAIN D : WriteOp(t, D[i], s) # "none" /\ x = WriteOf(t, i, D[i], s)
    BY <1>9 DEF IsWrite
  <2>2. PICK n \in Names : /\ s[n] # Absent /\ y = DeleteOf(t, D, n, s)
                           /\ n \in Members(D) => t = "autolinks"
                           /\ t = "labels" =>
                                \A k \in DOMAIN D : Renames(D[k], s) => D[k].oldname # n
    BY <1>9 DEF IsDelete
  <2>3. /\ x.name = D[i].name /\ x.oldname = D[i].oldname /\ x.rank = i
        /\ x.op = WriteOp(t, D[i], s) /\ y.name = n
        /\ y.rank = IF t = "autolinks" THEN 0 ELSE Len(D) + 1
    BY <2>1, <2>2 DEF WriteOf, DeleteOf, Request
  <2>4. x.name = y.name => t = "autolinks"
    BY <2>2, <2>3 DEF Members
  <2>5. t = "autolinks" => x.op = "create" /\ y.rank < x.rank
    BY <1>2, <2>1, <2>3 DEF WriteOp, AutolinkOp
  <2>6. x.op = "rename" => t = "labels" /\ Renames(D[i], s)
    <3>1. D[i] \in Declaration /\ t \in Tiers \ Sets /\ s \in Collection
      BY <1>1, <1>2
    <3>2. WriteOp(t, D[i], s) = "rename" => t = "labels" /\ Renames(D[i], s)
      BY ONLY <3>1, OpMeans
    <3> QED
      BY <2>3, <3>2
  <2>7. x.op = "rename" => x.oldname # y.name
    BY <2>2, <2>3, <2>6
  <2> QED
    BY <2>4, <2>5, <2>7
<1>10. CASE IsDelete(q, t, D, s) /\ IsDelete(r, t, D, s)
  <2>1. q.name # r.name
    BY <1>10 DEF IsDelete, DeleteOf
  <2> QED
    BY <1>6, <1>10, <2>1 DEF Apart
<1> QED
  BY <1>4, <1>5, <1>6, <1>7, <1>8, <1>9, <1>10 DEF Apart

(* What GitHub can be asked, for a version of the file.                    *)
Proper(r, t, v) ==
    /\ r.rank \in Nat
    /\ r.op \in {"create", "put", "update", "rename", "delete", "set"}
    /\ r.op \in {"create", "put", "update", "rename"} =>
         /\ r.name \in Members(Declared(t, v)) /\ r.name \in Names
         /\ r.want \in Values \cup {Unset, Absent}
    /\ r.op = "update" => r.want # Unset
    /\ r.op = "rename" => r.oldname \in Names /\ r.oldname # r.name
    /\ r.op = "delete" => r.name \in Names
    /\ r.op = "set" => /\ DOMAIN r.values \subseteq Names
                      /\ \A n \in DOMAIN r.values : r.values[n] \in Values \cup {Absent}

(* A plan asks nothing else.                                               *)
LEMMA PlanProper ==
    ASSUME NEW t \in Tiers, NEW v \in Versions, NEW s \in Collection, NEW r \in PlanOf(t, v, s)
    PROVE  Proper(r, t, v)
<1> DEFINE D == Declared(t, v)
<1>1. CASE t \in Sets
  <2>1. PICK values : /\ r = Replacing(values)
                      /\ DOMAIN values \subseteq Names
                      /\ \A n \in DOMAIN values : values[n] \in Values \cup {Absent}
    BY <1>1, SetPlanForm
  <2> QED
    BY <2>1 DEF Replacing, Proper
<1>2. CASE t \notin Sets
  <2>1. CASE IsWrite(r, t, D, s)
    <3>1. PICK i \in DOMAIN D : WriteOp(t, D[i], s) # "none" /\ r = WriteOf(t, i, D[i], s)
      BY <2>1 DEF IsWrite
    <3>2. D[i] \in Declaration /\ i \in Nat /\ D[i].name \in Members(D)
      BY DeclaredTypes DEF Members
    <3>3. WriteOp(t, D[i], s) \in {"create", "update", "rename", "put"}
          /\ (WriteOp(t, D[i], s) = "update" => D[i].want # Unset)
          /\ (WriteOp(t, D[i], s) = "rename" => D[i].oldname \notin {NoName, D[i].name})
      BY <1>2, <3>1, <3>2, OpMeans DEF Renames
    <3> QED
      BY <3>1, <3>2, <3>3 DEF WriteOf, Request, Declaration, Proper
  <2>2. CASE IsDelete(r, t, D, s)
    <3>1. Len(D) \in Nat
      BY DeclaredAssumption
    <3> QED
      BY <2>2, <3>1 DEF IsDelete, DeleteOf, Proper
  <2> QED
    BY <1>2, <2>1, <2>2, PlanForm
<1> QED
  BY <1>1, <1>2

-----------------------------------------------------------------------------
(* Types.                                                                  *)

(* What a run has still to send is part of a plan for the version it has   *)
(* loaded.                                                                 *)
Planned(w) == \E s \in Collection : plan[w] \subseteq PlanOf(tier, cfg[w], s)

IInv ==
    /\ TypeOK
    /\ plan = [w \in Workers |-> plan[w]]
    /\ \A w \in Workers : Planned(w)

(* A snapshot shows members as they are, or not at all.                    *)
LEMMA SnapshotTypes ==
    ASSUME TypeOK, NEW s \in Snapshots(tier)
    PROVE  /\ s \in Collection
           /\ \A n \in Names : s[n] \in {live[n], Absent}
           /\ tier \notin {"environments", "secrets"} => s = live
<1>1. CASE s = live
  BY <1>1 DEF TypeOK, Collection
<1>2. CASE s # live
  <2>1. tier \in {"environments", "secrets"}
    BY <1>2 DEF Snapshots
  <2>2. PICK page : s = [n \in Names |-> IF n \in page THEN live[n] ELSE Absent]
    BY <1>2 DEF Snapshots
  <2> QED
    BY <2>1, <2>2 DEF TypeOK, Collection
<1> QED
  BY <1>1, <1>2

(* A proper request leaves a collection.                                   *)
LEMMA OutcomeType ==
    ASSUME TypeOK, NEW v \in Versions, NEW r, Proper(r, tier, v), Accepts(r)
    PROVE  Outcome(r) \in Collection
<1> USE ValuesAssumption DEF TypeOK, Collection, Proper
<1>1. CASE r.op \in {"create", "put"}
  BY <1>1 DEF Outcome, Given
<1>2. CASE r.op = "update"
  BY <1>2 DEF Outcome, Given
<1>3. CASE r.op = "rename"
  BY <1>3 DEF Outcome, Given
<1>4. CASE r.op = "delete"
  BY <1>4 DEF Outcome
<1>5. CASE r.op = "set"
  BY <1>5 DEF Outcome
<1> QED
  BY <1>1, <1>2, <1>3, <1>4, <1>5

(* What the requests of a plan must be for the types to hold.              *)
LEMMA PlannedTypes ==
    ASSUME NEW t \in Tiers, NEW v \in Versions, NEW s \in Collection, NEW r \in PlanOf(t, v, s)
    PROVE  /\ r.rank \in Nat
           /\ r.op \in {"create", "put"} => r.name \in Members(Declared(t, v))
           /\ r.op = "update" => r.want # Unset
  BY PlanProper DEF Proper

(* The invariant for types holds initially.                                *)
LEMMA InitIInv == Init => IInv
<1> SUFFICES ASSUME Init PROVE IInv
  OBVIOUS
<1>1. 0 \in Versions /\ 0 \in 0 .. MaxDisturbances
  BY BoundsAssumption DEF Versions
<1>2. TypeOK
  BY <1>1, LiveAssumption DEF Init, TypeOK
<1>3. \A w \in Workers : plan[w] = {} /\ live \in Collection
  BY <1>2 DEF Init, TypeOK
<1> QED
  BY <1>2, <1>3 DEF IInv, Planned, Init

(* Every step keeps it.                                                    *)
LEMMA NextIInv == IInv /\ [Next]_vars => IInv'
<1> SUFFICES ASSUME IInv, [Next]_vars PROVE IInv'
  OBVIOUS
<1> USE DEF IInv
<1>1. CASE ChangeConfig
  <2>1. version' \in Versions
    BY <1>1, BoundsAssumption DEF ChangeConfig, TypeOK, Versions
  <2>2. quiet' \in [Workers -> BOOLEAN]
    BY <1>1 DEF ChangeConfig, NobodyQuiet
  <2> QED
    BY <1>1, <2>1, <2>2 DEF ChangeConfig, TypeOK, Planned
<1>2. ASSUME NEW n \in Names, NEW x \in Values \cup {Absent}, Edit(n, x) PROVE IInv'
  <2>1. live' \in Collection
    BY <1>2 DEF Edit, TypeOK, Collection
  <2>2. quiet' \in [Workers -> BOOLEAN] /\ disturbances' \in 0 .. MaxDisturbances
    BY <1>2, BoundsAssumption DEF Edit, NobodyQuiet, Disturb, TypeOK
  <2> QED
    BY <1>2, <2>1, <2>2 DEF Edit, TypeOK, Planned
<1>3. ASSUME NEW w \in Workers, List(w) PROVE IInv'
  <2>1. PICK s \in Snapshots(tier) :
           /\ plan' = [plan EXCEPT ![w] = PlanOf(tier, version, s)]
           /\ pc' = [pc EXCEPT ![w] = IF PlanOf(tier, version, s) = {} THEN "done" ELSE "send"]
    BY <1>3 DEF List
  <2>2. s \in Collection
    BY SnapshotTypes
  <2>3. /\ cfg' = [cfg EXCEPT ![w] = version] /\ quiet' = [quiet EXCEPT ![w] = TRUE]
        /\ UNCHANGED << tier, version, live, disturbances >>
    BY <1>3 DEF List
  <2>4. /\ plan'[w] = PlanOf(tier, version, s) /\ cfg'[w] = version
        /\ pc'[w] = IF PlanOf(tier, version, s) = {} THEN "done" ELSE "send"
        /\ \A x \in Workers \ {w} : plan'[x] = plan[x] /\ cfg'[x] = cfg[x] /\ pc'[x] = pc[x]
        /\ plan' = [x \in Workers |-> plan'[x]]
    BY <2>1, <2>3 DEF TypeOK
  <2>5. \A x \in Workers : Planned(x)'
    BY <2>2, <2>3, <2>4 DEF Planned
  <2>6. \A x \in Workers :
          /\ \A r \in plan'[x] : /\ r.rank \in Nat
                                 /\ r.op \in {"create", "put"} =>
                                      r.name \in Members(Declared(tier', cfg'[x]))
                                 /\ r.op = "update" => r.want # Unset
          /\ pc'[x] # "send" => plan'[x] = {}
    BY <2>2, <2>3, <2>4, PlannedTypes DEF TypeOK
  <2>7. /\ pc' \in [Workers -> {"idle", "send", "done", "failed"}]
        /\ cfg' \in [Workers -> Versions] /\ quiet' \in [Workers -> BOOLEAN]
    BY <2>1, <2>3 DEF TypeOK
  <2> QED
    BY <2>3, <2>4, <2>5, <2>6, <2>7 DEF TypeOK
<1>4. ASSUME NEW w \in Workers, Send(w) PROVE IInv'
  <2>1. PICK r \in plan[w] :
           /\ Accepts(r) /\ live' = Outcome(r)
           /\ plan' = [plan EXCEPT ![w] = @ \ {r}]
           /\ pc' = [pc EXCEPT ![w] = IF plan[w] = {r} THEN "done" ELSE @]
    BY <1>4 DEF Send
  <2>2. Proper(r, tier, cfg[w])
    BY PlanProper DEF Planned, TypeOK
  <2>3. live' \in Collection
    BY <2>1, <2>2, OutcomeType DEF TypeOK
  <2>4. /\ quiet' = [x \in Workers |-> x = w /\ quiet[x]]
        /\ UNCHANGED << tier, version, cfg, disturbances >>
    BY <1>4 DEF Send
  <2>5. quiet' \in [Workers -> BOOLEAN]
    <3>1. \A x \in Workers : (x = w /\ quiet[x]) \in BOOLEAN
      OBVIOUS
    <3> QED
      BY <2>4, <3>1
  <2>6. /\ plan'[w] = plan[w] \ {r} /\ \A x \in Workers \ {w} : plan'[x] = plan[x] /\ pc'[x] = pc[x]
        /\ pc'[w] = IF plan[w] = {r} THEN "done" ELSE pc[w]
        /\ plan' = [x \in Workers |-> plan'[x]]
        /\ pc' \in [Workers -> {"idle", "send", "done", "failed"}]
    BY <2>1 DEF TypeOK
  <2>7. pc[w] = "send"
    BY <1>4 DEF Send
  <2>8. \A x \in Workers : plan'[x] \subseteq plan[x] /\ (pc'[x] # "send" => plan'[x] = {})
    BY <2>6, <2>7 DEF TypeOK
  <2>9. \A x \in Workers : Planned(x)'
    BY <2>4, <2>8 DEF Planned
  <2> QED
    BY <2>3, <2>4, <2>5, <2>6, <2>8, <2>9 DEF TypeOK
<1>5. ASSUME NEW w \in Workers, Refused(w) \/ Fail(w) PROVE IInv'
  <2>1. /\ plan' = [plan EXCEPT ![w] = {}]
        /\ pc' = [pc EXCEPT ![w] = "failed"] \/ pc' = [pc EXCEPT ![w] = "idle"]
        /\ UNCHANGED << tier, version, live, cfg, quiet >>
    BY <1>5 DEF Refused, Fail
  <2>2. disturbances' \in 0 .. MaxDisturbances
    BY <1>5, BoundsAssumption DEF Refused, Fail, Disturb, TypeOK
  <2>3. /\ plan'[w] = {} /\ \A x \in Workers \ {w} : plan'[x] = plan[x] /\ pc'[x] = pc[x]
        /\ plan' = [x \in Workers |-> plan'[x]]
        /\ pc' \in [Workers -> {"idle", "send", "done", "failed"}]
    BY <2>1 DEF TypeOK
  <2>4. \A x \in Workers : plan'[x] \subseteq plan[x] /\ (pc'[x] # "send" => plan'[x] = {})
    BY <2>3 DEF TypeOK
  <2>5. \A x \in Workers : Planned(x)'
    BY <2>1, <2>4 DEF Planned
  <2> QED
    BY <2>1, <2>2, <2>3, <2>4, <2>5 DEF TypeOK
<1>6. CASE UNCHANGED vars
  BY <1>6 DEF vars, TypeOK, Planned
<1> QED
  BY <1>1, <1>2, <1>3, <1>4, <1>5, <1>6 DEF Next

(* In every reachable state what runs have to send is part of their plans. *)
LEMMA Inductive == Spec => []IInv
  BY InitIInv, NextIInv, PTL DEF Spec

(* Every variable keeps its type.                                          *)
THEOREM TypeCorrect == Spec => []TypeOK
<1>1. IInv => TypeOK
  BY DEF IInv
<1> QED
  BY <1>1, Inductive, PTL

-----------------------------------------------------------------------------
(* A run that finds no drift.                                              *)

(* A member that is there as declared is left alone, unless it is an       *)
(* environment with a rule declared off.                                   *)
LEMMA AsDeclaredNoWrite ==
    ASSUME NEW t \in AllTiers \ Sets, t # "secrets", NEW d, NEW s,
           ~Missing(d, s), ~Drifted(d, s), ~(t = "environments" /\ d.want \in Hidden)
    PROVE  WriteOp(t, d, s) = "none"
<1>1. ~Renames(d, s)
  BY DEF Renames
<1>2. CASE t = "labels"
  BY <1>1, <1>2 DEF WriteOp, LabelOp
<1>3. CASE t = "environments"
  BY <1>3 DEF WriteOp, EnvironmentOp, EnvironmentDrifted, Shown, Drifted
<1>4. CASE t \notin {"labels", "environments"}
  BY <1>4 DEF AllTiers, Sets, WriteOp, MilestoneOp, CollaboratorOp, TeamOp, VariableOp, AutolinkOp
<1> QED
  BY <1>2, <1>3, <1>4

(* Where there is nothing to do, each member is left alone but for that.   *)
LEMMA NoDriftNoWrite ==
    ASSUME TypeOK, Matches(version), tier \notin Sets, NEW i \in DOMAIN Declared(tier, version),
           ~(tier = "environments" /\ Declared(tier, version)[i].want \in Hidden)
    PROVE  WriteOp(tier, Declared(tier, version)[i], live) = "none"
<1> DEFINE d == Declared(tier, version)[i]
<1>1. tier \in AllTiers \ Sets
  BY TiersAssumption DEF TypeOK
<1>2. CASE tier = "secrets"
  <2>1. d.name \in Supplied => ~Missing(d, live)
    BY <1>2 DEF Matches, Missing
  <2> QED
    BY <1>2, <2>1 DEF WriteOp, SecretOp
<1>3. CASE tier # "secrets"
  <2>1. d.want # Absent
    BY DeclaredTypes DEF TypeOK, Sets
  <2>2. ~Missing(d, live) /\ ~Drifted(d, live)
    BY <1>3, <2>1 DEF Matches, AsDeclared, Missing, Drifted
  <2> QED
    BY <1>1, <1>3, <2>2, AsDeclaredNoWrite
<1> QED
  BY <1>2, <1>3

(* Only tiers that prune delete, and an autolink only if it is not as      *)
(* declared.                                                               *)
LEMMA DeleteMeans ==
    ASSUME NEW v \in Versions, tier \in Tiers \ Sets, NEW s \in Collection,
           NEW r \in PlanOf(tier, v, s), r.op = "delete"
    PROVE  /\ Prunes(v) /\ r.name \in Names /\ s[r.name] # Absent
           /\ r.name \in Members(Declared(tier, v)) =>
                \E i \in DOMAIN Declared(tier, v) :
                  /\ Declared(tier, v)[i].name = r.name
                  /\ Drifted(Declared(tier, v)[i], s)
                  /\ tier = "autolinks"
<1> DEFINE D == Declared(tier, v)
<1>1. tier \in AllTiers \ Sets
  BY TiersAssumption
<1>2. \A i \in DOMAIN D : D[i] \in Declaration
  BY DeclaredTypes
<1>3. \A i \in DOMAIN D : WriteOp(tier, D[i], s) # "delete"
  BY <1>2, OpMeans
<1>4. ~IsWrite(r, tier, D, s)
  BY <1>3 DEF IsWrite, WriteOf, Request
<1>5. IsDelete(r, tier, D, s)
  BY <1>4, PlanForm
<1>6. r.name \in Names /\ s[r.name] # Absent /\ (r.name \in Members(D) => tier = "autolinks")
  BY <1>5 DEF IsDelete, DeleteOf
<1>7. Prunes(v)
  <2>1. \/ tier \in {"labels", "collaborators", "teams", "variables", "autolinks"}
        \/ tier \in {"milestones", "environments", "secrets"}
    BY <1>1 DEF AllTiers, Sets
  <2>2. tier \notin {"milestones", "environments"}
    BY <1>2, <1>3 DEF PlanOf, MilestonePlan, EnvironmentPlan, Writes, Request, WriteOp
  <2>3. tier = "secrets" => PruneSecrets(v) /\ D # << >>
    BY <1>3 DEF PlanOf, SecretPlan, Writes, Request, WriteOp
  <2> QED
    BY <2>1, <2>2, <2>3 DEF Prunes
<1>8. ASSUME tier = "autolinks", r.name \in Members(D)
      PROVE  \E i \in DOMAIN D : D[i].name = r.name /\ Drifted(D[i], s)
  <2> DEFINE stale == {D[i].name : i \in {j \in DOMAIN D : Drifted(D[j], s)}}
  <2>1. r \in Deletions(0, (Names \ Members(D)) \cup stale, s)
               \cup Writes(D, LAMBDA d : AutolinkOp(d, s))
    BY <1>8 DEF PlanOf, AutolinkPlan
  <2>2. r \notin Writes(D, LAMBDA d : AutolinkOp(d, s))
    BY <1>3, <1>8 DEF Writes, Request, WriteOp
  <2>3. r.name \in (Names \ Members(D)) \cup stale
    BY <2>1, <2>2 DEF Deletions
  <2> QED
    BY <1>8, <2>3
<1> QED
  BY <1>6, <1>7, <1>8

(* What is as declared gets no request, for every tier, every declaration  *)
(* and every collection, with the one exception of PutAgain: an            *)
(* environment that declares a rule off (environments.py:34-69) is put     *)
(* again as it is, against architecture.md: "applying the same config      *)
(* twice yields one mutation".                                             *)
THEOREM NoDriftQuiet == Spec => []NoDriftNoRequest
<1>1. TypeOK => NoDriftNoRequest
  <2> SUFFICES ASSUME TypeOK, Matches(version), NEW r \in PlanOf(tier, version, live)
               PROVE  PutAgain(r)
    BY DEF NoDriftNoRequest
  <2> DEFINE D == Declared(tier, version)
  <2>1. tier \in Tiers /\ version \in Versions /\ live \in Collection
    BY DEF TypeOK
  <2>2. CASE tier = "topics"
    <3>1. Members(D) = {n \in Names : live[n] # Absent}
      <4>1. \A i \in DOMAIN D : D[i].name \in Names /\ live[D[i].name] # Absent
        BY <2>1, <2>2, DeclaredTypes DEF Matches, AsDeclared, Declaration
      <4>2. \A n \in Names \ Members(D) : live[n] = Absent
        BY <2>2 DEF Matches, Prunes
      <4> QED
        BY <4>1, <4>2 DEF Members
    <3> QED
      BY <2>2, <3>1 DEF PlanOf, TopicPlan
  <2>3. CASE tier = "custom_properties"
    <3>1. \A i \in DOMAIN D : live[D[i].name] = D[i].want
      BY <2>1, <2>3, DeclaredTypes DEF Matches, AsDeclared
    <3>2. {D[i] : i \in {j \in DOMAIN D : live[D[j].name] # D[j].want}} = {}
      BY <3>1
    <3> HIDE DEF D
    <3>3. PlanOf(tier, version, live) = CustomPropertyPlan(D, live)
      BY <2>3 DEF PlanOf, D
    <3> QED
      BY <3>2, <3>3 DEF CustomPropertyPlan
  <2>4. CASE tier \notin Sets /\ IsWrite(r, tier, D, live)
    <3>1. PICK i \in DOMAIN D : WriteOp(tier, D[i], live) # "none" /\ r = WriteOf(tier, i, D[i], live)
      BY <2>4 DEF IsWrite
    <3>2. tier = "environments" /\ D[i].want \in Hidden
      BY <2>4, <3>1, NoDriftNoWrite
    <3>3. r.op = "put" /\ r.want = D[i].want /\ r.name = D[i].name
      BY <3>1, <3>2 DEF WriteOf, Request, WriteOp, EnvironmentOp
    <3>4. D[i].want # Unset /\ D[i].name \in Names
      BY <2>1, <3>2, DeclaredTypes, ValuesAssumption DEF Declaration
    <3>5. live[D[i].name] = D[i].want
      BY <3>2, <3>4 DEF Matches, AsDeclared
    <3>6. Outcome(r) = [live EXCEPT ![r.name] = r.want]
      BY <3>3, <3>4 DEF Outcome, Given
    <3>7. Outcome(r) = live
      BY <2>1, <3>3, <3>5, <3>6 DEF Collection
    <3> QED
      BY <3>2, <3>3, <3>7 DEF PutAgain
  <2>5. CASE tier \notin Sets /\ IsDelete(r, tier, D, live)
    <3>1. r.op = "delete"
      BY <2>5 DEF IsDelete, DeleteOf
    <3>2. Prunes(version) /\ r.name \in Names /\ live[r.name] # Absent
      BY <2>1, <2>5, <3>1, DeleteMeans
    <3>3. r.name \in Members(D)
      BY <3>2 DEF Matches
    <3>4. PICK i \in DOMAIN D : D[i].name = r.name /\ Drifted(D[i], live) /\ tier = "autolinks"
      BY <2>1, <2>5, <3>1, <3>3, DeleteMeans
    <3> QED
      BY <3>4 DEF Matches, AsDeclared, Drifted
  <2> QED
    BY <2>1, <2>2, <2>3, <2>4, <2>5, PlanForm DEF Sets
<1> QED
  BY <1>1, TypeCorrect, PTL

-----------------------------------------------------------------------------
(* A run that nobody disturbs.                                             *)

(* GitHub accepts r once the requests of P before it have been sent.       *)
Fits(r, P) ==
    \/ r.op \in {"put", "set"}
    \/ r.op = "update" /\ live[r.name] # Absent
    \/ r.op = "rename" /\ live[r.oldname] # Absent /\ live[r.name] = Absent
    \/ r.op = "delete" /\ live[r.name] = r.was /\ r.was # Absent
    \/ /\ r.op = "create"
       /\ \/ live[r.name] = Absent
          \/ \E q \in P : q.op = "delete" /\ q.name = r.name /\ q.rank < r.rank

AllFit(w) == \A r \in plan[w] : Fits(r, plan[w])

Unrefused(w) == quiet[w] => pc[w] # "failed" /\ AllFit(w)

QInv == IInv /\ \A w \in Workers : Unrefused(w)

(* A plan fits the collection it was made from.                            *)
LEMMA PlanFits ==
    ASSUME TypeOK, NEW s \in Snapshots(tier), NEW r \in PlanOf(tier, version, s)
    PROVE  Fits(r, PlanOf(tier, version, s))
<1> DEFINE D == Declared(tier, version)
           P == PlanOf(tier, version, s)
<1>1. /\ tier \in Tiers /\ version \in Versions /\ s \in Collection
      /\ \A n \in Names : s[n] \in {live[n], Absent}
      /\ tier \notin {"environments", "secrets"} => s = live
  BY SnapshotTypes DEF TypeOK
<1>2. CASE tier \in Sets
  BY <1>1, <1>2, SetPlanForm DEF Replacing, Fits
<1>3. CASE tier \notin Sets /\ IsWrite(r, tier, D, s)
  <2>1. PICK i \in DOMAIN D : WriteOp(tier, D[i], s) # "none" /\ r = WriteOf(tier, i, D[i], s)
    BY <1>3 DEF IsWrite
  <2>2. D[i] \in Declaration /\ i \in Nat \ {0}
    BY <1>1, DeclaredTypes
  <2>3. /\ r.op = WriteOp(tier, D[i], s) /\ r.rank = i
        /\ r.name = D[i].name /\ r.oldname = D[i].oldname
    BY <2>1 DEF WriteOf, Request
  <2>4. /\ r.op \in {"create", "update", "rename", "put"}
        /\ r.op = "create" => Missing(D[i], s) \/ (tier = "autolinks" /\ Drifted(D[i], s))
        /\ r.op \in {"create", "update"} => tier \notin {"environments", "secrets"}
        /\ r.op = "update" => s[D[i].name] # Absent
        /\ r.op = "rename" => tier = "labels" /\ Renames(D[i], s)
    <3>1. tier \in Tiers \ Sets /\ s \in Collection
      BY <1>1, <1>3
    <3> QED
      BY ONLY <2>1, <2>2, <2>3, <3>1, OpMeans
  <2>5. CASE r.op = "create" /\ Missing(D[i], s)
    BY <1>1, <2>3, <2>4, <2>5 DEF Missing, Fits
  <2>6. CASE r.op = "create" /\ tier = "autolinks" /\ Drifted(D[i], s)
    <3>1. \E q \in P : q.op = "delete" /\ q.name = D[i].name /\ q.rank = 0
      BY <1>1, <2>6, AutolinkDeletedFirst
    <3> HIDE DEF P
    <3> QED
      BY <2>2, <2>3, <2>6, <3>1 DEF Fits, P
  <2>7. CASE r.op = "update"
    BY <1>1, <2>3, <2>4, <2>7 DEF Fits
  <2>8. CASE r.op = "rename"
    BY <1>1, <2>3, <2>4, <2>8 DEF Renames, Missing, Fits
  <2>9. CASE r.op = "put"
    BY <2>9 DEF Fits
  <2> QED
    BY <2>4, <2>5, <2>6, <2>7, <2>8, <2>9
<1>4. CASE tier \notin Sets /\ IsDelete(r, tier, D, s)
  BY <1>1, <1>4 DEF IsDelete, DeleteOf, Fits
<1> QED
  BY <1>1, <1>2, <1>3, <1>4, PlanForm

(* The next request of a run that fits is accepted.                        *)
LEMMA NextAccepted ==
    ASSUME TypeOK, NEW w \in Workers, AllFit(w), NEW r \in plan[w], IsNext(w, r)
    PROVE  Accepts(r)
<1>1. Fits(r, plan[w])
  BY DEF AllFit
<1>2. \A q \in plan[w] : ~(q.rank < r.rank)
  BY DEF IsNext, TypeOK
<1> QED
  BY <1>1, <1>2 DEF Fits, Accepts

(* What is left of a plan still fits after its next request.               *)
LEMMA RestFits ==
    ASSUME Untangled, IInv, NEW w \in Workers, AllFit(w), NEW q \in plan[w], IsNext(w, q),
           live' = Outcome(q), NEW r \in plan[w], r # q, plan'[w] = plan[w] \ {q}
    PROVE  Fits(r, plan[w])'
<1>1. PICK s \in Collection : plan[w] \subseteq PlanOf(tier, cfg[w], s)
  BY DEF IInv, Planned
<1>2. tier \in Tiers /\ cfg[w] \in Versions /\ live \in Collection
  BY DEF IInv, TypeOK
<1>3. Apart(q, r) /\ Apart(r, q)
  BY <1>1, <1>2, PlanApart
<1>4. Proper(q, tier, cfg[w]) /\ Proper(r, tier, cfg[w])
  BY <1>1, <1>2, PlanProper
<1>5. q.rank <= r.rank /\ q.rank \in Nat /\ r.rank \in Nat
  BY <1>4 DEF IsNext, Proper
<1>6. q.op \in {"create", "put", "update", "rename", "delete"}
  BY <1>3, <1>4 DEF Apart, Proper
<1>7. \A n \in Names : n # q.name /\ (q.op = "rename" => n # q.oldname) => live'[n] = live[n]
  BY <1>2, <1>6 DEF Outcome, Collection
<1>8. q.op = "delete" => live'[q.name] = Absent
  BY <1>2, <1>4 DEF Outcome, Collection, Proper
<1>9. Fits(r, plan[w])
  BY DEF AllFit
<1>10. CASE r.op \in {"put", "set"}
  BY <1>10 DEF Fits
<1>11. CASE r.op \in {"update", "rename", "delete"}
  <2>1. r.name # q.name /\ (q.op = "rename" => r.name # q.oldname)
    BY <1>3, <1>5, <1>11 DEF Apart
  <2>2. r.op = "rename" => r.oldname # q.name /\ (q.op = "rename" => r.oldname # q.oldname)
    BY <1>3 DEF Apart
  <2>3. live'[r.name] = live[r.name] /\ (r.op = "rename" => live'[r.oldname] = live[r.oldname])
    BY <1>4, <1>7, <1>11, <2>1, <2>2 DEF Proper
  <2> QED
    BY <1>9, <1>11, <2>3 DEF Fits
<1>12. CASE r.op = "create"
  <2>1. q.op = "rename" => r.name # q.oldname
    BY <1>3 DEF Apart
  <2>2. CASE r.name = q.name
    <3>1. q.op = "delete"
      BY <1>3, <1>5, <2>2 DEF Apart
    <3> QED
      BY <1>8, <1>12, <2>2, <3>1 DEF Fits
  <2>3. CASE r.name # q.name
    <3>1. live'[r.name] = live[r.name]
      BY <1>4, <1>7, <1>12, <2>1, <2>3 DEF Proper
    <3>2. CASE live[r.name] = Absent
      BY <1>12, <3>1, <3>2 DEF Fits
    <3>3. CASE \E p \in plan[w] : p.op = "delete" /\ p.name = r.name /\ p.rank < r.rank
      <4>1. \E p \in plan'[w] : p.op = "delete" /\ p.name = r.name /\ p.rank < r.rank
        BY <2>3, <3>3
      <4> QED
        BY <1>12, <4>1 DEF Fits
    <3> QED
      BY <1>9, <1>12, <3>2, <3>3 DEF Fits
  <2> QED
    BY <2>2, <2>3
<1> QED
  BY <1>4, <1>10, <1>11, <1>12 DEF Proper

(* Initially no run has begun.                                             *)
LEMMA InitQInv == Init => QInv
  BY InitIInv DEF Init, QInv, Unrefused

(* A run that nobody disturbs goes on without being refused anything.      *)
LEMMA NextQInv ==
    ASSUME Untangled
    PROVE  QInv /\ [Next]_vars => QInv'
<1> SUFFICES ASSUME QInv, [Next]_vars PROVE QInv'
  OBVIOUS
<1>1. IInv /\ TypeOK /\ IInv'
  BY NextIInv DEF QInv, IInv
<1>2. CASE \/ ChangeConfig
           \/ \E n \in Names, x \in Values \cup {Absent} : Edit(n, x)
  <2>1. NobodyQuiet
    BY <1>2 DEF ChangeConfig, Edit
  <2> QED
    BY <1>1, <2>1 DEF NobodyQuiet, QInv, Unrefused
<1>3. ASSUME NEW w \in Workers, List(w) PROVE QInv'
  <2>1. PICK s \in Snapshots(tier) :
           /\ plan' = [plan EXCEPT ![w] = PlanOf(tier, version, s)]
           /\ pc' = [pc EXCEPT ![w] = IF PlanOf(tier, version, s) = {} THEN "done" ELSE "send"]
    BY <1>3 DEF List
  <2>2. /\ plan'[w] = PlanOf(tier, version, s) /\ pc'[w] \in {"done", "send"} /\ live' = live
        /\ \A x \in Workers \ {w} : plan'[x] = plan[x] /\ pc'[x] = pc[x] /\ quiet'[x] = quiet[x]
    BY <1>1, <1>3, <2>1 DEF List, IInv, TypeOK
  <2>3. Unrefused(w)'
    BY <1>1, <2>2, PlanFits DEF Unrefused, AllFit, Fits
  <2>4. \A x \in Workers \ {w} : Unrefused(x)'
    BY <2>2 DEF QInv, Unrefused, AllFit, Fits
  <2> QED
    BY <1>1, <2>3, <2>4 DEF QInv
<1>4. ASSUME NEW w \in Workers, Send(w) PROVE QInv'
  <2>1. PICK q \in plan[w] :
           /\ IsNext(w, q) /\ live' = Outcome(q)
           /\ plan' = [plan EXCEPT ![w] = @ \ {q}]
           /\ pc' = [pc EXCEPT ![w] = IF plan[w] = {q} THEN "done" ELSE @]
    BY <1>4 DEF Send
  <2>2. /\ plan'[w] = plan[w] \ {q} /\ pc'[w] \in {"done", "send"}
        /\ \A x \in Workers : quiet'[x] <=> x = w /\ quiet[x]
    BY <1>1, <1>4, <2>1 DEF Send, IInv, TypeOK
  <2>3. quiet[w] => AllFit(w)'
    BY <1>1, <2>1, <2>2, RestFits DEF QInv, Unrefused, AllFit
  <2> QED
    BY <1>1, <2>2, <2>3 DEF QInv, Unrefused
<1>5. ASSUME NEW w \in Workers, Refused(w) PROVE QInv'
  <2>1. ~quiet[w]
    BY <1>1, <1>5, NextAccepted DEF Refused, QInv, Unrefused
  <2>2. /\ \A x \in Workers \ {w} : plan'[x] = plan[x] /\ pc'[x] = pc[x]
        /\ live' = live /\ quiet' = quiet
    BY <1>1, <1>5 DEF Refused, IInv, TypeOK
  <2> QED
    BY <1>1, <2>1, <2>2 DEF QInv, Unrefused, AllFit, Fits
<1>6. ASSUME NEW w \in Workers, Fail(w) PROVE QInv'
  <2>1. /\ plan'[w] = {} /\ pc'[w] = "idle"
        /\ \A x \in Workers \ {w} : plan'[x] = plan[x] /\ pc'[x] = pc[x]
        /\ live' = live /\ quiet' = quiet
    BY <1>1, <1>6 DEF Fail, IInv, TypeOK
  <2> QED
    BY <1>1, <2>1 DEF QInv, Unrefused, AllFit, Fits
<1>7. CASE UNCHANGED vars
  BY <1>1, <1>7 DEF vars, QInv, Unrefused, AllFit, Fits
<1> QED
  BY <1>2, <1>3, <1>4, <1>5, <1>6, <1>7 DEF Next

(* A run that nobody disturbs is never refused anything, for every tier,   *)
(* declaration and collection, as long as no label is renamed from a name  *)
(* that another entry declares or renames: its requests come in an order   *)
(* in which each finds what it needs.                                      *)
THEOREM QuietRunsSucceed ==
    ASSUME Untangled
    PROVE  Spec => []QuietRunSucceeds
<1>1. QInv => QuietRunSucceeds
  BY DEF QInv, Unrefused, QuietRunSucceeds
<1>2. QInv /\ [Next]_vars => QInv'
  BY NextQInv
<1> QED
  BY <1>1, <1>2, InitQInv, PTL DEF Spec

-----------------------------------------------------------------------------
(* What an undisturbed run leaves.                                         *)

(* No listing is longer than a page.                                       *)
AllSeen == IsFiniteSet(Names) /\ Cardinality(Names) <= PageSize

(* Then a snapshot is the collection.                                      *)
LEMMA WholeSnapshot ==
    ASSUME AllSeen, NEW s \in Snapshots(tier)
    PROVE  s = live
<1> DEFINE present == {n \in Names : live[n] # Absent}
<1>1. IsFiniteSet(present) /\ Cardinality(present) <= Cardinality(Names)
  BY FS_Subset DEF AllSeen
<1>2. Cardinality(present) \in Nat /\ Cardinality(Names) \in Nat /\ PageSize \in Nat
  BY <1>1, FS_CardinalityType, BoundsAssumption DEF AllSeen
<1>3. ~(Cardinality(present) > PageSize)
  BY <1>1, <1>2 DEF AllSeen
<1> QED
  BY <1>3 DEF Snapshots

(* A declaration is met.                                                   *)
Met(d) ==
    IF tier = "secrets" THEN d.name \in Supplied => live[d.name] # Absent
    ELSE AsDeclared(d, live[d.name])

(* The request changes the member n.                                       *)
Touches(r, n) ==
    IF r.op = "set" THEN n \in DOMAIN r.values
    ELSE n = r.name \/ (r.op = "rename" /\ n = r.oldname)

(* The request will meet the declaration d.                                *)
Brings(r, d) ==
    IF r.op = "set"
    THEN d.name \in DOMAIN r.values /\ AsDeclared(d, r.values[d.name])
    ELSE r.op # "delete" /\ r.name = d.name /\ r.want = d.want

(* The request will remove the member n.                                   *)
Clears(r, n) ==
    IF r.op = "set" THEN n \in DOMAIN r.values /\ r.values[n] = Absent
    ELSE (r.op = "delete" /\ n = r.name) \/ (r.op = "rename" /\ n = r.oldname)

(* Every declaration is met or will be, and every other member is gone or  *)
(* will be; what is as it should be is not touched any more.               *)
Owed(v, P) ==
    /\ \A i \in DOMAIN Declared(tier, v) :
         LET d == Declared(tier, v)[i] IN
         \/ \E r \in P : Brings(r, d)
         \/ Met(d) /\ \A r \in P : ~Touches(r, d.name)
    /\ Prunes(v) => \A n \in Names \ Members(Declared(tier, v)) :
                      \/ \E r \in P : Clears(r, n)
                      \/ live[n] = Absent /\ \A r \in P : ~Touches(r, n)

(* The plan of a tier has every write that is decided on.                  *)
LEMMA PlanHasWrites ==
    ASSUME NEW t \in Tiers \ Sets, NEW v \in Versions, NEW s \in Collection,
           NEW i \in DOMAIN Declared(t, v), WriteOp(t, Declared(t, v)[i], s) # "none"
    PROVE  WriteOf(t, i, Declared(t, v)[i], s) \in PlanOf(t, v, s)
<1> DEFINE D == Declared(t, v)
<1> USE DEF Writes, WriteOf, WriteOp
<1>1. CASE t = "labels"
  BY <1>1 DEF PlanOf, LabelPlan
<1>2. CASE t = "milestones"
  BY <1>2 DEF PlanOf, MilestonePlan
<1>3. CASE t = "collaborators"
  BY <1>3 DEF PlanOf, CollaboratorPlan
<1>4. CASE t = "teams"
  BY <1>4 DEF PlanOf, TeamPlan
<1>5. CASE t = "variables"
  BY <1>5 DEF PlanOf, VariablePlan
<1>6. CASE t = "autolinks"
  BY <1>6 DEF PlanOf, AutolinkPlan
<1>7. CASE t = "environments"
  BY <1>7 DEF PlanOf, EnvironmentPlan
<1>8. CASE t = "secrets"
  <2>1. D # << >>
    OBVIOUS
  <2> QED
    BY <1>8, <2>1 DEF PlanOf, SecretPlan
<1> QED
  BY <1>1, <1>2, <1>3, <1>4, <1>5, <1>6, <1>7, <1>8, TiersAssumption DEF AllTiers, Sets

(* A declaration for which nothing is written is met.                      *)
LEMMA NoWriteMet ==
    ASSUME TypeOK, tier \notin Sets, NEW d \in Declaration, d.want # Absent,
           WriteOp(tier, d, live) = "none"
    PROVE  Met(d) /\ ~(tier = "autolinks" /\ Drifted(d, live))
<1>1. tier \in AllTiers \ Sets
  BY TiersAssumption DEF TypeOK
<1> QED
  BY <1>1 DEF AllTiers, Sets, WriteOp, LabelOp, MilestoneOp, CollaboratorOp, TeamOp, VariableOp,
     AutolinkOp, EnvironmentOp, EnvironmentDrifted, Shown, SecretOp, Missing, Drifted, Renames,
     Met, AsDeclared

(* Where a tier prunes, what is not declared is deleted or renamed.        *)
LEMMA PlanClears ==
    ASSUME TypeOK, NEW v \in Versions, tier \notin Sets, Prunes(v),
           NEW n \in Names \ Members(Declared(tier, v)), live[n] # Absent
    PROVE  \E r \in PlanOf(tier, v, live) : Clears(r, n)
<1> DEFINE D == Declared(tier, v)
           P == PlanOf(tier, v, live)
<1>1. tier \in Tiers /\ live \in Collection
  BY DEF TypeOK
<1>2. CASE tier = "labels" /\ \E i \in DOMAIN D : Renames(D[i], live) /\ D[i].oldname = n
  <2>1. PICK i \in DOMAIN D : Renames(D[i], live) /\ D[i].oldname = n
    BY <1>2
  <2>2. WriteOp(tier, D[i], live) = "rename"
    BY <1>2, <2>1 DEF WriteOp, LabelOp, Renames, Missing, Drifted
  <2>3. WriteOf(tier, i, D[i], live) \in P
    BY <1>1, <2>2, PlanHasWrites
  <2> QED
    BY <2>1, <2>2, <2>3 DEF WriteOf, Request, Clears
<1>3. CASE ~(tier = "labels" /\ \E i \in DOMAIN D : Renames(D[i], live) /\ D[i].oldname = n)
  <2>1. \E k : [rank |-> k, op |-> "delete", name |-> n, was |-> live[n]] \in P
    <3>1. CASE tier = "labels"
      BY <1>3, <3>1 DEF PlanOf, LabelPlan, Deletions
    <3>2. CASE tier = "collaborators"
      BY <3>2 DEF PlanOf, CollaboratorPlan, Deletions
    <3>3. CASE tier = "teams"
      BY <3>3 DEF PlanOf, TeamPlan, Deletions
    <3>4. CASE tier = "variables"
      BY <3>4 DEF PlanOf, VariablePlan, Deletions
    <3>5. CASE tier = "autolinks"
      BY <3>5 DEF PlanOf, AutolinkPlan, Deletions
    <3>6. CASE tier = "secrets"
      BY <3>6 DEF PlanOf, SecretPlan, Deletions, Prunes
    <3> QED
      BY <3>1, <3>2, <3>3, <3>4, <3>5, <3>6 DEF Prunes, Sets
  <2> HIDE DEF P
  <2> QED
    BY <2>1 DEF Clears, P
<1> QED
  BY <1>2, <1>3

(* The request is the write for the declaration d.                         *)
Writing(r, d) ==
    /\ WriteOp(tier, d, live) # "none" /\ r.op # "set"
    /\ r.name = d.name /\ r.oldname = d.oldname
    /\ r.op = "rename" => /\ tier = "labels" /\ d.oldname # NoName
                          /\ live[d.oldname] # Absent

(* A plan made from the whole collection owes nothing more.                *)
LEMMA PlanOwed ==
    ASSUME Untangled, TypeOK, tier \notin Sets
    PROVE  Owed(version, PlanOf(tier, version, live))
<1> DEFINE D == Declared(tier, version)
           P == PlanOf(tier, version, live)
<1>1. tier \in Tiers \ Sets /\ version \in Versions /\ live \in Collection
  BY DEF TypeOK
<1>2. \A i \in DOMAIN D : D[i] \in Declaration
  BY <1>1, DeclaredTypes
<1>3. \A i, j \in DOMAIN D : D[i].name = D[j].name => i = j
  BY <1>1, DeclaredTypes
<1>4. ASSUME NEW i \in DOMAIN D, WriteOp(tier, D[i], live) # "none"
      PROVE  \E r \in P : Brings(r, D[i])
  <2>1. WriteOf(tier, i, D[i], live) \in P
    BY <1>1, <1>4, PlanHasWrites
  <2>2. WriteOp(tier, D[i], live) \in {"create", "update", "rename", "put"}
    BY ONLY <1>1, <1>2, <1>4, OpMeans
  <2>3. Brings(WriteOf(tier, i, D[i], live), D[i])
    BY <2>2 DEF WriteOf, Request, Brings
  <2> QED
    BY <2>1, <2>3
<1>5. ASSUME NEW r \in P
      PROVE  (\E j \in DOMAIN D : Writing(r, D[j])) \/ r.op = "delete"
  <2>1. CASE IsWrite(r, tier, D, live)
    <3>1. PICK j \in DOMAIN D : /\ WriteOp(tier, D[j], live) # "none"
                                /\ r = WriteOf(tier, j, D[j], live)
      BY <2>1 DEF IsWrite
    <3>2. /\ WriteOp(tier, D[j], live) # "set"
          /\ WriteOp(tier, D[j], live) = "rename" => tier = "labels" /\ Renames(D[j], live)
      BY ONLY <1>1, <1>2, <3>1, OpMeans
    <3> QED
      BY <3>1, <3>2 DEF WriteOf, Request, Writing, Renames
  <2>2. CASE IsDelete(r, tier, D, live)
    BY <2>2 DEF IsDelete, DeleteOf
  <2> QED
    BY <1>1, <2>1, <2>2, PlanForm
<1>6. ASSUME NEW i \in DOMAIN D, WriteOp(tier, D[i], live) = "none"
      PROVE  Met(D[i]) /\ \A r \in P : ~Touches(r, D[i].name)
  <2>1. Met(D[i]) /\ ~(tier = "autolinks" /\ Drifted(D[i], live))
    BY <1>1, <1>2, <1>6, NoWriteMet, DeclaredTypes DEF Sets
  <2>2. ASSUME NEW r \in P, r.op = "delete" PROVE r.name # D[i].name
    <3>1. SUFFICES ASSUME r.name = D[i].name PROVE FALSE
      OBVIOUS
    <3>2. r.name \in Members(D)
      BY <3>1 DEF Members
    <3>3. PICK k \in DOMAIN D : D[k].name = r.name /\ Drifted(D[k], live) /\ tier = "autolinks"
      BY <1>1, <2>2, <3>2, DeleteMeans
    <3>4. k = i
      BY <1>3, <3>1, <3>3
    <3> QED
      BY <2>1, <3>3, <3>4
  <2>3. ASSUME NEW j \in DOMAIN D, j # i PROVE D[j].name # D[i].name
    BY <1>3, <2>3
  <2>4. ASSUME NEW j \in DOMAIN D, j # i, tier = "labels", D[j].oldname # NoName
        PROVE  D[j].oldname # D[i].name
    BY <1>1, <2>4 DEF Untangled
  <2>5. ASSUME NEW r \in P, Touches(r, D[i].name) PROVE FALSE
    <3>1. CASE r.op = "delete"
      BY <2>2, <2>5, <3>1 DEF Touches
    <3>2. CASE r.op # "delete"
      <4>1. PICK j \in DOMAIN D : Writing(r, D[j])
        BY <1>5, <3>2
      <4>2. j # i
        BY <1>6, <4>1 DEF Writing
      <4> QED
        BY <2>3, <2>4, <2>5, <4>1, <4>2 DEF Touches, Writing
    <3> QED
      BY <3>1, <3>2
  <2> QED
    BY <2>1, <2>5
<1>7. ASSUME NEW n \in Names \ Members(D), live[n] = Absent, NEW r \in P, Touches(r, n)
      PROVE  FALSE
  <2>1. CASE r.op = "delete"
    BY <1>1, <1>7, <2>1, DeleteMeans DEF Touches
  <2>2. CASE r.op # "delete"
    <3>1. PICK j \in DOMAIN D : Writing(r, D[j])
      BY <1>5, <2>2
    <3>2. D[j].name \in Members(D)
      BY DEF Members
    <3> QED
      BY <1>7, <3>1, <3>2 DEF Touches, Writing
  <2> QED
    BY <2>1, <2>2
<1>8. ASSUME NEW n \in Names \ Members(D), Prunes(version), live[n] # Absent
      PROVE  \E r \in P : Clears(r, n)
  BY <1>1, <1>8, PlanClears
<1> HIDE DEF P
<1> QED
  BY <1>4, <1>6, <1>7, <1>8 DEF Owed, P

(* Nor does the one request that replaces a set.                           *)
LEMMA SetPlanOwed ==
    ASSUME TypeOK, tier \in Sets
    PROVE  Owed(version, PlanOf(tier, version, live))
<1> DEFINE D == Declared(tier, version)
           P == PlanOf(tier, version, live)
<1>1. tier \in Tiers /\ version \in Versions /\ live \in Collection
  BY DEF TypeOK
<1>2. \A i \in DOMAIN D : D[i] \in Declaration
  BY <1>1, DeclaredTypes
<1>3. \A i, j \in DOMAIN D : D[i].name = D[j].name => i = j
  BY <1>1, DeclaredTypes
<1>4. CASE tier = "topics"
  <2>1. \A i \in DOMAIN D : D[i].want = Unset /\ D[i].name \in Names /\ D[i].name \in Members(D)
    BY <1>1, <1>2, <1>4, DeclaredTypes DEF Declaration, Members
  <2>2. P = TopicPlan(D, live)
    BY <1>4 DEF PlanOf
  <2> HIDE DEF D, P
  <2>3. CASE Members(D) = {n \in Names : live[n] # Absent}
    <3>1. P = {}
      BY <2>2, <2>3 DEF TopicPlan
    <3>2. \A i \in DOMAIN D : Met(D[i])
      BY <1>4, <2>1, <2>3 DEF Met, AsDeclared
    <3>3. \A n \in Names \ Members(D) : live[n] = Absent
      BY <2>3
    <3> QED
      BY <3>1, <3>2, <3>3 DEF Owed, D, P
  <2>4. CASE Members(D) # {n \in Names : live[n] # Absent}
    <3> DEFINE values == [n \in Names |-> IF n \in Members(D) THEN Default ELSE Absent]
    <3>1. P = {Replacing(values)}
      BY <2>2, <2>4 DEF TopicPlan, Replacing
    <3>2. \A i \in DOMAIN D : Brings(Replacing(values), D[i])
      BY <2>1, ValuesAssumption DEF Brings, AsDeclared, Replacing
    <3>3. \A n \in Names \ Members(D) : Clears(Replacing(values), n)
      BY DEF Clears, Replacing
    <3> HIDE DEF values
    <3> QED
      BY <3>1, <3>2, <3>3 DEF Owed, D, P
  <2> QED
    BY <2>3, <2>4
<1>5. CASE tier = "custom_properties"
  <2>1. ~Prunes(version)
    BY <1>5 DEF Prunes
  <2>2. \A i \in DOMAIN D : D[i].want # Unset
    BY <1>1, <1>2, <1>5, DeclaredTypes DEF Declaration
  <2> DEFINE differs(d) == live[d.name] # d.want
             drifted == {D[i] : i \in {j \in DOMAIN D : differs(D[j])}}
             chosen(n) == CHOOSE d \in drifted : d.name = n
             values == [n \in {d.name : d \in drifted} |-> chosen(n).want]
  <2>3. P = IF drifted = {} THEN {} ELSE {Replacing(values)}
    BY <1>5 DEF PlanOf, CustomPropertyPlan, Replacing
  <2>4. ASSUME NEW i \in DOMAIN D, differs(D[i])
        PROVE  P = {Replacing(values)} /\ Brings(Replacing(values), D[i])
    <3>1. D[i] \in drifted
      BY <2>4
    <3>2. chosen(D[i].name) \in drifted /\ chosen(D[i].name).name = D[i].name
      BY <3>1
    <3>3. chosen(D[i].name) = D[i]
      BY <1>3, <3>2
    <3>4. D[i].name \in DOMAIN values /\ values[D[i].name] = D[i].want
      BY <3>1, <3>3
    <3> HIDE DEF drifted, values
    <3> QED
      BY <2>2, <2>3, <3>1, <3>4 DEF Brings, AsDeclared, Replacing
  <2>5. ASSUME NEW i \in DOMAIN D, ~differs(D[i])
        PROVE  Met(D[i]) /\ \A r \in P : ~Touches(r, D[i].name)
    <3>1. Met(D[i])
      BY <1>5, <2>2, <2>5 DEF Met, AsDeclared
    <3>2. D[i].name \notin {d.name : d \in drifted}
      BY <1>3, <2>5
    <3>3. DOMAIN values = {d.name : d \in drifted}
      OBVIOUS
    <3> HIDE DEF drifted, values
    <3> QED
      BY <2>3, <3>1, <3>2, <3>3 DEF Touches, Replacing
  <2> HIDE DEF P, differs, values, drifted
  <2> QED
    BY <2>1, <2>4, <2>5 DEF Owed, P
<1> QED
  BY <1>4, <1>5 DEF Sets

(* Sending the next request of a plan leaves the rest of what was owed.    *)
LEMMA RestOwed ==
    ASSUME Untangled, IInv, NEW w \in Workers, Owed(cfg[w], plan[w]),
           NEW q \in plan[w], IsNext(w, q), Accepts(q), live' = Outcome(q),
           plan'[w] = plan[w] \ {q}, UNCHANGED << tier, cfg >>
    PROVE  Owed(cfg[w], plan[w])'
<1> DEFINE D == Declared(tier, cfg[w])
<1>1. PICK s \in Collection : plan[w] \subseteq PlanOf(tier, cfg[w], s)
  BY DEF IInv, Planned
<1>2. tier \in Tiers /\ cfg[w] \in Versions /\ live \in Collection
  BY DEF IInv, TypeOK
<1>3. \A r \in plan[w] \ {q} : Apart(q, r) /\ Apart(r, q)
  BY <1>1, <1>2, PlanApart
<1>4. \A r \in plan[w] : Proper(r, tier, cfg[w])
  BY <1>1, <1>2, PlanProper
<1>5. \A r \in plan[w] : q.rank <= r.rank /\ ~(r.rank < q.rank)
  BY <1>4 DEF IsNext, Proper
<1>6. Proper(q, tier, cfg[w])
  BY <1>4
<1>7. \A i \in DOMAIN D : D[i] \in Declaration /\ D[i].name \in Names /\ D[i].name \in Members(D)
  BY <1>2, DeclaredTypes DEF Declaration, Members
<1>8. \A n \in Names : ~Touches(q, n) => live'[n] = live[n]
  BY <1>2, <1>6 DEF Touches, Outcome, Collection, Proper
<1>9. ASSUME NEW i \in DOMAIN D, Brings(q, D[i]) PROVE Met(D[i])'
  <2>0. tier = "secrets" => D[i].want # Absent
    BY <1>2, DeclaredTypes
  <2> SUFFICES /\ D[i].want = Unset => live'[D[i].name] # Absent
               /\ D[i].want # Unset => live'[D[i].name] = D[i].want
    BY <2>0 DEF Met, AsDeclared
  <2>1. CASE q.op = "set"
    BY <1>2, <1>7, <1>9, <2>1 DEF Brings, AsDeclared, Outcome
  <2>2. CASE q.op \in {"create", "put"}
    BY <1>2, <1>7, <1>9, <2>2, ValuesAssumption DEF Brings, Outcome, Given, Declaration, Collection
  <2>3. CASE q.op = "update"
    BY <1>2, <1>7, <1>9, <2>3, ValuesAssumption
       DEF Brings, Outcome, Given, Declaration, Collection, Accepts
  <2>4. CASE q.op = "rename"
    BY <1>2, <1>6, <1>7, <1>9, <2>4, ValuesAssumption
       DEF Brings, Outcome, Given, Declaration, Collection, Accepts, Proper
  <2> QED
    BY <1>6, <1>9, <2>1, <2>2, <2>3, <2>4 DEF Proper, Brings
<1>10. ASSUME NEW i \in DOMAIN D, Brings(q, D[i]), NEW r \in plan[w] \ {q}
       PROVE  ~Touches(r, D[i].name)
  <2>1. Apart(q, r) /\ Apart(r, q) /\ ~(r.rank < q.rank)
    BY <1>3, <1>5
  <2>2. q.op # "set" /\ r.op # "set" /\ q.op # "delete" /\ q.name = D[i].name
    BY <1>10, <2>1 DEF Apart, Brings
  <2>3. r.name # q.name
    BY <2>1, <2>2 DEF Apart
  <2>4. r.op = "rename" => r.oldname # q.name
    BY <2>1 DEF Apart
  <2> QED
    BY <2>2, <2>3, <2>4 DEF Touches
<1>11. ASSUME NEW n \in Names \ Members(D), Clears(q, n) PROVE live'[n] = Absent
  <2>1. CASE q.op = "set"
    BY <1>2, <1>11, <2>1 DEF Clears, Outcome
  <2>2. CASE q.op = "delete"
    BY <1>2, <1>11, <2>2 DEF Clears, Outcome, Collection
  <2>3. CASE q.op = "rename"
    BY <1>2, <1>6, <1>11, <2>3 DEF Clears, Outcome, Collection, Proper
  <2> QED
    BY <1>11, <2>1, <2>2, <2>3 DEF Clears
<1>12. ASSUME NEW n \in Names \ Members(D), Clears(q, n), NEW r \in plan[w] \ {q}
       PROVE  ~Touches(r, n)
  <2>1. Apart(q, r) /\ Apart(r, q) /\ Proper(r, tier, cfg[w])
    BY <1>3, <1>4
  <2>2. /\ q.op # "set" /\ r.op # "set"
        /\ (q.op = "delete" /\ n = q.name) \/ (q.op = "rename" /\ n = q.oldname)
    BY <1>12, <2>1 DEF Apart, Clears
  <2>3. r.op = "create" => r.name # n
    BY <1>12, <2>1 DEF Proper
  <2> QED
    BY <2>1, <2>2, <2>3 DEF Apart, Touches
<1>13. plan'[w] \subseteq plan[w]
  OBVIOUS
<1>14. ASSUME NEW i \in DOMAIN D
       PROVE  \/ \E r \in plan'[w] : Brings(r, D[i])
              \/ Met(D[i])' /\ \A r \in plan'[w] : ~Touches(r, D[i].name)
  <2>1. CASE Brings(q, D[i])
    BY <1>9, <1>10, <2>1
  <2>2. CASE \E r \in plan[w] \ {q} : Brings(r, D[i])
    BY <2>2
  <2>3. CASE Met(D[i]) /\ \A r \in plan[w] : ~Touches(r, D[i].name)
    <3>1. live'[D[i].name] = live[D[i].name]
      BY <1>7, <1>8, <2>3
    <3>2. Met(D[i])'
      BY <2>3, <3>1 DEF Met
    <3> QED
      BY <1>13, <2>3, <3>2
  <2> QED
    BY <2>1, <2>2, <2>3 DEF Owed
<1>15. ASSUME Prunes(cfg[w])', NEW n \in Names \ Members(D)
       PROVE  \/ \E r \in plan'[w] : Clears(r, n)
              \/ live'[n] = Absent /\ \A r \in plan'[w] : ~Touches(r, n)
  <2>1. CASE Clears(q, n)
    BY <1>11, <1>12, <2>1
  <2>2. CASE \E r \in plan[w] \ {q} : Clears(r, n)
    BY <2>2
  <2>3. CASE live[n] = Absent /\ \A r \in plan[w] : ~Touches(r, n)
    BY <1>8, <1>13, <2>3
  <2>4. Prunes(cfg[w])
    BY <1>15 DEF Prunes
  <2> QED
    BY <2>1, <2>2, <2>3, <2>4 DEF Owed
<1> QED
  BY <1>14, <1>15 DEF Owed

(* What an undisturbed run owes it still has to send.                      *)
Honest(w) == quiet[w] /\ pc[w] \in {"send", "done"} => Owed(cfg[w], plan[w])

MInv == IInv /\ \A w \in Workers : Honest(w)

(* Initially nobody owes anything.                                         *)
LEMMA InitMInv == Init => MInv
  BY InitIInv DEF Init, MInv, Honest

(* A run goes on owing no more than it still has to send.                  *)
LEMMA NextMInv ==
    ASSUME Untangled, AllSeen
    PROVE  MInv /\ [Next]_vars => MInv'
<1> SUFFICES ASSUME MInv, [Next]_vars PROVE MInv'
  OBVIOUS
<1>1. IInv /\ TypeOK /\ IInv'
  BY NextIInv DEF MInv, IInv
<1>2. CASE \/ ChangeConfig
           \/ \E n \in Names, x \in Values \cup {Absent} : Edit(n, x)
  <2>1. NobodyQuiet
    BY <1>2 DEF ChangeConfig, Edit
  <2> QED
    BY <1>1, <2>1 DEF NobodyQuiet, MInv, Honest
<1>3. ASSUME NEW x \in Workers, Honest(x), quiet'[x] => quiet[x], live' = live, tier' = tier,
             pc'[x] = pc[x], cfg'[x] = cfg[x], plan'[x] = plan[x]
      PROVE  Honest(x)'
  BY <1>3 DEF Honest, Owed, Prunes, Met
<1>4. ASSUME NEW w \in Workers, List(w) PROVE MInv'
  <2>1. PICK s \in Snapshots(tier) :
           /\ plan' = [plan EXCEPT ![w] = PlanOf(tier, version, s)]
           /\ pc' = [pc EXCEPT ![w] = IF PlanOf(tier, version, s) = {} THEN "done" ELSE "send"]
    BY <1>4 DEF List
  <2>2. s = live
    BY WholeSnapshot
  <2>3. /\ plan'[w] = PlanOf(tier, version, live) /\ cfg'[w] = version
        /\ live' = live /\ tier' = tier
        /\ \A x \in Workers \ {w} : /\ plan'[x] = plan[x] /\ pc'[x] = pc[x]
                                    /\ quiet'[x] = quiet[x] /\ cfg'[x] = cfg[x]
    BY <1>1, <1>4, <2>1, <2>2 DEF List, IInv, TypeOK
  <2>4. Owed(version, PlanOf(tier, version, live))
    BY <1>1, PlanOwed, SetPlanOwed
  <2>5. Honest(w)'
    BY <2>3, <2>4 DEF Honest, Owed, Prunes, Met
  <2>6. \A x \in Workers \ {w} : Honest(x)'
    BY <1>3, <2>3 DEF MInv
  <2> QED
    BY <1>1, <2>5, <2>6 DEF MInv
<1>5. ASSUME NEW w \in Workers, Send(w) PROVE MInv'
  <2>1. PICK q \in plan[w] :
           /\ IsNext(w, q) /\ Accepts(q) /\ live' = Outcome(q)
           /\ plan' = [plan EXCEPT ![w] = @ \ {q}]
    BY <1>5 DEF Send
  <2>2. /\ plan'[w] = plan[w] \ {q} /\ pc[w] = "send" /\ UNCHANGED << tier, cfg >>
        /\ \A x \in Workers : quiet'[x] <=> x = w /\ quiet[x]
    BY <1>1, <1>5, <2>1 DEF Send, IInv, TypeOK
  <2>3. quiet[w] => Owed(cfg[w], plan[w])'
    BY <1>1, <2>1, <2>2, RestOwed DEF MInv, Honest
  <2> QED
    BY <1>1, <2>2, <2>3 DEF MInv, Honest
<1>6. ASSUME NEW w \in Workers, Refused(w) \/ Fail(w) PROVE MInv'
  <2>1. /\ pc'[w] \in {"failed", "idle"}
        /\ \A x \in Workers \ {w} : plan'[x] = plan[x] /\ pc'[x] = pc[x]
        /\ live' = live /\ quiet' = quiet /\ tier' = tier /\ cfg' = cfg
    BY <1>1, <1>6 DEF Refused, Fail, IInv, TypeOK
  <2>2. Honest(w)'
    BY <2>1 DEF Honest
  <2>3. \A x \in Workers \ {w} : Honest(x)'
    BY <1>3, <2>1 DEF MInv
  <2> QED
    BY <1>1, <2>2, <2>3 DEF MInv
<1>7. CASE UNCHANGED vars
  BY <1>1, <1>3, <1>7 DEF vars, MInv
<1> QED
  BY <1>2, <1>4, <1>5, <1>6, <1>7 DEF Next

(* A run that nobody disturbs leaves the collection as declared (docs,     *)
(* configuration.md: "applying the same file twice produces exactly one    *)
(* mutation"), for every tier, declaration and collection, as long as no   *)
(* label is renamed from a name that another entry declares or renames and *)
(* no listing is longer than a page.                                       *)
THEOREM QuietRunsMatch ==
    ASSUME Untangled, AllSeen
    PROVE  Spec => []QuietRunMatches
<1>1. MInv => QuietRunMatches
  <2> SUFFICES ASSUME MInv, NEW w \in Workers, quiet[w], pc[w] = "done" PROVE Matches(cfg[w])
    BY DEF QuietRunMatches
  <2>1. plan[w] = {}
    BY DEF MInv, IInv, TypeOK
  <2>2. Owed(cfg[w], plan[w])
    BY DEF MInv, Honest
  <2> QED
    BY <2>1, <2>2 DEF Owed, Met, Matches
<1>2. MInv /\ [Next]_vars => MInv'
  BY NextMInv
<1> QED
  BY <1>1, <1>2, InitMInv, PTL DEF Spec

-----------------------------------------------------------------------------
(* Secrets.                                                                *)

(* What an undisturbed run puts is not there yet.                          *)
PutsMissing(w) ==
    quiet[w] /\ tier = "secrets" => \A r \in plan[w] : r.op = "put" => live[r.name] = Absent

RInv == IInv /\ \A w \in Workers : PutsMissing(w)

(* The requests for secrets.                                               *)
LEMMA SecretRequests ==
    ASSUME "secrets" \in Tiers, NEW v \in Versions, NEW s \in Collection,
           NEW r \in PlanOf("secrets", v, s)
    PROVE  /\ r.op \in {"put", "delete"} /\ r.name \in Names
           /\ r.op = "put" => s[r.name] = Absent
<1> DEFINE D == Declared("secrets", v)
<1>1. Proper(r, "secrets", v)
  BY PlanProper
<1>2. CASE IsWrite(r, "secrets", D, s)
  BY <1>1, <1>2 DEF IsWrite, WriteOf, Request, WriteOp, SecretOp, Missing, Proper
<1>3. CASE IsDelete(r, "secrets", D, s)
  BY <1>3 DEF IsDelete, DeleteOf
<1> QED
  BY <1>2, <1>3, PlanForm DEF Sets

(* Initially nothing is put.                                               *)
LEMMA InitRInv == Init => RInv
  BY InitIInv DEF Init, RInv, PutsMissing

(* No step of an undisturbed run makes a secret it has yet to put appear.  *)
LEMMA NextRInv ==
    ASSUME AllSeen
    PROVE  RInv /\ [Next]_vars => RInv'
<1> SUFFICES ASSUME RInv, [Next]_vars PROVE RInv'
  OBVIOUS
<1>1. IInv /\ TypeOK /\ IInv'
  BY NextIInv DEF RInv, IInv
<1>2. CASE \/ ChangeConfig
           \/ \E n \in Names, x \in Values \cup {Absent} : Edit(n, x)
  <2>1. NobodyQuiet
    BY <1>2 DEF ChangeConfig, Edit
  <2> QED
    BY <1>1, <2>1 DEF NobodyQuiet, RInv, PutsMissing
<1>3. ASSUME NEW w \in Workers, List(w) PROVE RInv'
  <2>1. PICK s \in Snapshots(tier) : plan' = [plan EXCEPT ![w] = PlanOf(tier, version, s)]
    BY <1>3 DEF List
  <2>2. s = live /\ live \in Collection /\ tier \in Tiers /\ version \in Versions
    BY <1>1, WholeSnapshot DEF TypeOK
  <2>3. /\ plan'[w] = PlanOf(tier, version, live) /\ live' = live /\ tier' = tier
        /\ \A x \in Workers \ {w} : plan'[x] = plan[x] /\ quiet'[x] = quiet[x]
    BY <1>1, <1>3, <2>1, <2>2 DEF List, IInv, TypeOK
  <2>4. PutsMissing(w)'
    BY <2>2, <2>3, SecretRequests DEF PutsMissing
  <2> QED
    BY <1>1, <2>3, <2>4 DEF RInv, PutsMissing
<1>4. ASSUME NEW w \in Workers, Send(w) PROVE RInv'
  <2>1. PICK q \in plan[w] : live' = Outcome(q) /\ plan' = [plan EXCEPT ![w] = @ \ {q}]
    BY <1>4 DEF Send
  <2>2. /\ plan'[w] = plan[w] \ {q} /\ tier' = tier
        /\ \A x \in Workers : quiet'[x] <=> x = w /\ quiet[x]
    BY <1>1, <1>4, <2>1 DEF Send, IInv, TypeOK
  <2>3. ASSUME quiet[w], tier = "secrets", NEW r \in plan'[w], r.op = "put"
        PROVE  live'[r.name] = Absent
    <3>1. PICK s \in Collection : plan[w] \subseteq PlanOf(tier, cfg[w], s)
      BY <1>1 DEF IInv, Planned
    <3>2. tier \in Tiers /\ cfg[w] \in Versions /\ live \in Collection
      BY <1>1 DEF TypeOK
    <3>3. q.op \in {"put", "delete"} /\ r.name \in Names
      BY <2>2, <2>3, <3>1, <3>2, SecretRequests
    <3>4. Apart(q, r)
      BY <2>2, <2>3, <3>1, <3>2, PlanApart
    <3>5. q.name # r.name
      BY <2>3, <3>4 DEF Apart
    <3>6. live[r.name] = Absent
      BY <2>2, <2>3 DEF RInv, PutsMissing
    <3> QED
      BY <2>1, <3>2, <3>3, <3>5, <3>6 DEF Outcome, Collection
  <2> QED
    BY <1>1, <2>2, <2>3 DEF RInv, PutsMissing
<1>5. ASSUME NEW w \in Workers, Refused(w) \/ Fail(w) PROVE RInv'
  <2>1. /\ plan'[w] = {} /\ \A x \in Workers \ {w} : plan'[x] = plan[x]
        /\ live' = live /\ quiet' = quiet /\ tier' = tier
    BY <1>1, <1>5 DEF Refused, Fail, IInv, TypeOK
  <2> QED
    BY <1>1, <2>1 DEF RInv, PutsMissing
<1>6. CASE UNCHANGED vars
  BY <1>1, <1>6 DEF vars, RInv, PutsMissing
<1> QED
  BY <1>2, <1>3, <1>4, <1>5, <1>6 DEF Next

(* "A declared secret that already exists is left untouched (no rotation)" *)
(* (secrets.py:6), for any secrets and declarations, as long as no listing *)
(* is longer than a page.                                                  *)
THEOREM NothingRotated ==
    ASSUME AllSeen
    PROVE  Spec => QuietRunRotatesNothing
<1> DEFINE Keeps(w) == Send(w) /\ tier = "secrets" /\ quiet[w] =>
                         \A n \in Names : live[n] # Absent => live'[n] \in {live[n], Absent}
<1>1. ASSUME RInv, NEW w \in Workers, Send(w), tier = "secrets", quiet[w],
             NEW n \in Names, live[n] # Absent
      PROVE  live'[n] \in {live[n], Absent}
  <2>1. PICK q \in plan[w] : live' = Outcome(q)
    BY <1>1 DEF Send
  <2>2. PICK s \in Collection : plan[w] \subseteq PlanOf(tier, cfg[w], s)
    BY <1>1 DEF RInv, IInv, Planned
  <2>3. tier \in Tiers /\ cfg[w] \in Versions /\ live \in Collection
    BY <1>1 DEF RInv, IInv, TypeOK
  <2>4. q.op \in {"put", "delete"}
    BY <1>1, <2>2, <2>3, SecretRequests
  <2>5. q.op = "put" => q.name # n
    BY <1>1 DEF RInv, PutsMissing
  <2> QED
    BY <1>1, <2>1, <2>3, <2>4, <2>5 DEF Outcome, Collection
<1>2. RInv /\ [Next]_vars => [\A w \in Workers : Keeps(w)]_vars
  BY <1>1
<1>3. RInv /\ [Next]_vars => RInv'
  BY NextRInv
<1> QED
  BY <1>2, <1>3, InitRInv, PTL DEF Spec, QuietRunRotatesNothing
=============================================================================
