----------------------------- MODULE Collections -----------------------------
(***************************************************************************)
(* The tiers that keep a named collection of one repository as declared:   *)
(* labels, milestones, collaborators, teams, variables, autolinks, topics, *)
(* custom properties, environments and secrets (reconcile/*.py).           *)
(*                                                                         *)
(* A run lists the collection, decides from that one snapshot what to send *)
(* and sends it request by request; other runs, people and failures come   *)
(* in between.  The first request GitHub refuses ends the run.             *)
(*                                                                         *)
(* A member is a name with the value of its managed field; of secrets the  *)
(* value says who set it.  The two secret stores have separate calls and   *)
(* share nothing, and one is modelled.  GitHub is external: the account is *)
(* an organization (on a personal one the listing of teams is refused, and *)
(* that tier ends there); a collaborator accepts at once; names that       *)
(* GitHub folds together are one name; the pages of one listing agree with *)
(* each other.                                                             *)
(***************************************************************************)
EXTENDS Naturals, Sequences, FiniteSets

CONSTANTS
    Tiers,            \* the tiers looked at, one per behaviour
    Names,            \* what a member may be called
    Values,           \* what the managed field may hold
    Default,          \* what it holds when a member is created without it
    Absent,           \* there is no such member
    NoName,
    Unset,            \* the declaration leaves the field alone
    Hidden,           \* what GitHub keeps of an environment without a protection rule:
                      \* no wait (0), self-review not prevented
    MaxVersion,       \* bound: the last version of the settings file
    Declared(_, _),   \* Declared(t, v): the members version v declares for tier t
    PruneSecrets(_),  \* PruneSecrets(v): version v sets secrets.prune
    Supplied,         \* secrets with a value in the environment
    PageSize,         \* what a list call that asks for no page size returns at most
    InitialLive,      \* what the collection may hold at first
    Workers,          \* runs of the tier that may overlap
    MaxDisturbances   \* bound: edits by hand and failures in one behaviour

AllTiers == {"labels", "milestones", "collaborators", "teams", "variables", "autolinks",
             "topics", "custom_properties", "environments", "secrets"}

Versions == 0 .. MaxVersion

Collection == [Names -> Values \cup {Absent}]

Declaration == [name: Names, oldname: Names \cup {NoName}, want: Values \cup {Unset, Absent}]

ASSUME TiersAssumption == Tiers \subseteq AllTiers
ASSUME ValuesAssumption ==
    /\ Default \in Values /\ Hidden \subseteq Values
    /\ Absent \notin Values /\ Unset \notin Values \cup {Absent} /\ NoName \notin Names
ASSUME DeclaredAssumption ==
    \A t \in Tiers, v \in Versions :
        /\ Declared(t, v) \in Seq(Declaration)
        /\ \A i, j \in DOMAIN Declared(t, v) :
              Declared(t, v)[i].name = Declared(t, v)[j].name => i = j
        /\ \A i \in DOMAIN Declared(t, v) :
              CASE t = "topics" -> Declared(t, v)[i].want = Unset
                [] t = "custom_properties" -> Declared(t, v)[i].want # Unset  \* null: Absent
                [] OTHER -> Declared(t, v)[i].want # Absent
ASSUME LiveAssumption == InitialLive \subseteq Collection
ASSUME BoundsAssumption == {MaxVersion, PageSize, MaxDisturbances} \subseteq Nat

VARIABLES
    tier,          \* the tier of this behaviour
    version,       \* version of the settings file
    live,          \* the collection on GitHub
    pc,            \* where each run is
    cfg,           \* the version each run has loaded
    plan,          \* the requests each run has still to send
    quiet,         \* history: nobody but the run has done anything since it began
    disturbances   \* disturbances so far

vars == << tier, version, live, pc, cfg, plan, quiet, disturbances >>

-----------------------------------------------------------------------------
(* What each tier decides about a declared member d, from the snapshot s.  *)

Missing(d, s) == s[d.name] = Absent

(* Mutant: a field the declaration leaves alone counts as different.       *)
DriftedUnset(d, s) == ~Missing(d, s) /\ d.want # s[d.name]

Drifted(d, s) == ~Missing(d, s) /\ d.want \notin {Unset, s[d.name]}

(* The old name is there and the new one is free.                          *)
Renames(d, s) ==
    d.oldname \notin {NoName, d.name} /\ s[d.oldname] # Absent /\ Missing(d, s)

LabelOp(d, s) ==
    CASE Renames(d, s) -> "rename"
      [] Missing(d, s) /\ ~Renames(d, s) -> "create"
      [] Drifted(d, s) -> "update"
      [] OTHER -> "none"

MilestoneOp(d, s) ==
    CASE Missing(d, s) -> "create" [] Drifted(d, s) -> "update" [] OTHER -> "none"

VariableOp(d, s) ==
    CASE Missing(d, s) -> "create" [] Drifted(d, s) -> "update" [] OTHER -> "none"

CollaboratorOp(d, s) == IF Missing(d, s) \/ Drifted(d, s) THEN "put" ELSE "none"

TeamOp(d, s) == IF Missing(d, s) \/ Drifted(d, s) THEN "put" ELSE "none"

(* What is read of an environment: without its rule a field is None.       *)
Shown(x) == IF x \in Hidden THEN Absent ELSE x

(* So a declared 0 or false is never what is read.                         *)
EnvironmentDrifted(d, s) == ~Missing(d, s) /\ d.want \notin {Unset, Shown(s[d.name])}

EnvironmentOp(d, s) == IF Missing(d, s) \/ EnvironmentDrifted(d, s) THEN "put" ELSE "none"

(* Mutant: a stale autolink is deleted, and only a missing one created.    *)
AutolinkOpByPrefix(d, s) == IF Missing(d, s) THEN "create" ELSE "none"

AutolinkOp(d, s) == IF Missing(d, s) \/ Drifted(d, s) THEN "create" ELSE "none"

(* Mutant: every secret that has a value is written, there or not.         *)
SecretOpRotating(d, s) == IF d.name \in Supplied THEN "put" ELSE "none"

SecretOp(d, s) == IF Missing(d, s) /\ d.name \in Supplied THEN "put" ELSE "none"

-----------------------------------------------------------------------------
(* The requests of a run, each with its place in the order they are sent:  *)
(* declarations in the order of the file, deletions in any order.          *)

Members(D) == {D[i].name : i \in DOMAIN D}

Request(rank, op, d) ==
    [rank |-> rank, op |-> op, name |-> d.name, oldname |-> d.oldname, want |-> d.want]

Writes(D, Op(_)) == {Request(i, Op(D[i]), D[i]) : i \in {j \in DOMAIN D : Op(D[j]) # "none"}}

Deletions(rank, names, s) ==
    {[rank |-> rank, op |-> "delete", name |-> n, was |-> s[n]] :
        n \in {m \in names : s[m] # Absent}}

(* Mutant: the old name of a rename is not kept, and pruned after it.      *)
LabelPlanForgetful(D, s) ==
    Writes(D, LAMBDA d : LabelOp(d, s)) \cup Deletions(Len(D) + 1, Names \ Members(D), s)

LabelPlan(D, s) ==
    LET keep == Members(D) \cup {D[i].oldname : i \in {j \in DOMAIN D : Renames(D[j], s)}}
    IN  Writes(D, LAMBDA d : LabelOp(d, s)) \cup Deletions(Len(D) + 1, Names \ keep, s)

MilestonePlan(D, s) == Writes(D, LAMBDA d : MilestoneOp(d, s))

VariablePlan(D, s) ==
    Writes(D, LAMBDA d : VariableOp(d, s)) \cup Deletions(Len(D) + 1, Names \ Members(D), s)

CollaboratorPlan(D, s) ==
    Writes(D, LAMBDA d : CollaboratorOp(d, s)) \cup Deletions(Len(D) + 1, Names \ Members(D), s)

TeamPlan(D, s) ==
    Writes(D, LAMBDA d : TeamOp(d, s)) \cup Deletions(Len(D) + 1, Names \ Members(D), s)

EnvironmentPlan(D, s) == Writes(D, LAMBDA d : EnvironmentOp(d, s))

(* Mutant: the new autolinks are created before the old ones are deleted.  *)
AutolinkPlanCreatesFirst(D, s) ==
    LET stale == {D[i].name : i \in {j \in DOMAIN D : Drifted(D[j], s)}}
    IN  Writes(D, LAMBDA d : AutolinkOp(d, s))
          \cup Deletions(Len(D) + 1, (Names \ Members(D)) \cup stale, s)

(* There is no update: a changed autolink is deleted, then created.        *)
AutolinkPlan(D, s) ==
    LET stale == {D[i].name : i \in {j \in DOMAIN D : Drifted(D[j], s)}}
    IN  Deletions(0, (Names \ Members(D)) \cup stale, s)
          \cup Writes(D, LAMBDA d : AutolinkOp(d, s))

(* A store in which nothing is declared is left alone, pruned or not.      *)
SecretPlan(D, s, prune) ==
    IF D = << >> THEN {}
    ELSE Writes(D, LAMBDA d : SecretOp(d, s))
           \cup IF prune THEN Deletions(Len(D) + 1, Names \ Members(D), s) ELSE {}

(* One request that replaces the whole set.                                *)
TopicPlan(D, s) ==
    IF Members(D) = {n \in Names : s[n] # Absent} THEN {}
    ELSE {[rank |-> 1, op |-> "set",
           values |-> [n \in Names |-> IF n \in Members(D) THEN Default ELSE Absent]]}

(* One request with the properties that differ.                            *)
CustomPropertyPlan(D, s) ==
    LET drifted == {D[i] : i \in {j \in DOMAIN D : s[D[j].name] # D[j].want}}
    IN  IF drifted = {} THEN {}
        ELSE {[rank |-> 1, op |-> "set",
               values |-> [n \in {d.name : d \in drifted} |->
                             (CHOOSE d \in drifted : d.name = n).want]]}

PlanOf(t, v, s) ==
    LET D == Declared(t, v) IN
    CASE t = "labels" -> LabelPlan(D, s)
      [] t = "milestones" -> MilestonePlan(D, s)
      [] t = "collaborators" -> CollaboratorPlan(D, s)
      [] t = "teams" -> TeamPlan(D, s)
      [] t = "variables" -> VariablePlan(D, s)
      [] t = "autolinks" -> AutolinkPlan(D, s)
      [] t = "topics" -> TopicPlan(D, s)
      [] t = "custom_properties" -> CustomPropertyPlan(D, s)
      [] t = "environments" -> EnvironmentPlan(D, s)
      [] t = "secrets" -> SecretPlan(D, s, PruneSecrets(v))

(* The snapshots a list call may return: everything, page by page, or the  *)
(* first page where the code asks for one.                                 *)
Snapshots(t) ==
    LET present == {n \in Names : live[n] # Absent}
        Seen(page) == [n \in Names |-> IF n \in page THEN live[n] ELSE Absent]
    IN  IF t \in {"environments", "secrets"} /\ Cardinality(present) > PageSize
        THEN {Seen(page) : page \in {p \in SUBSET present : Cardinality(p) = PageSize}}
        ELSE {live}

-----------------------------------------------------------------------------
(* What GitHub makes of a request.                                         *)

Accepts(r) ==
    CASE r.op = "create" -> live[r.name] = Absent
      [] r.op = "update" -> live[r.name] # Absent
      [] r.op = "rename" -> live[r.oldname] # Absent /\ live[r.name] = Absent
      [] r.op = "delete" ->
            CASE tier \in {"collaborators", "teams"} -> TRUE
              [] tier = "autolinks" -> live[r.name] = r.was    \* deleted by its id
              [] OTHER -> live[r.name] # Absent
      [] r.op \in {"put", "set"} -> TRUE

Given(r, otherwise) == IF r.want = Unset THEN otherwise ELSE r.want

Outcome(r) ==
    CASE r.op \in {"create", "put"} -> [live EXCEPT ![r.name] = Given(r, Default)]
      [] r.op = "update" -> [live EXCEPT ![r.name] = Given(r, @)]
      [] r.op = "rename" -> [live EXCEPT ![r.name] = Given(r, live[r.oldname]),
                                         ![r.oldname] = Absent]
      [] r.op = "delete" -> [live EXCEPT ![r.name] = Absent]
      [] r.op = "set"    -> [n \in Names |-> IF n \in DOMAIN r.values THEN r.values[n] ELSE live[n]]

-----------------------------------------------------------------------------
TypeOK ==
    /\ tier \in Tiers
    /\ version \in Versions
    /\ live \in Collection
    /\ pc \in [Workers -> {"idle", "send", "done", "failed"}]
    /\ cfg \in [Workers -> Versions]
    /\ \A w \in Workers :
         /\ \A r \in plan[w] :
              /\ r.rank \in Nat
              /\ r.op \in {"create", "put"} => r.name \in Members(Declared(tier, cfg[w]))
              /\ r.op = "update" => r.want # Unset
         /\ pc[w] # "send" => plan[w] = {}
    /\ quiet \in [Workers -> BOOLEAN]
    /\ disturbances \in 0 .. MaxDisturbances

Init ==
    /\ tier \in Tiers
    /\ version = 0
    /\ live \in InitialLive
    /\ pc = [w \in Workers |-> "idle"]
    /\ cfg = [w \in Workers |-> 0]
    /\ plan = [w \in Workers |-> {}]
    /\ quiet = [w \in Workers |-> FALSE]
    /\ disturbances = 0

Disturb ==
    /\ disturbances < MaxDisturbances
    /\ disturbances' = disturbances + 1

NobodyQuiet == quiet' = [w \in Workers |-> FALSE]

(* A new version of the settings file is merged.                           *)
ChangeConfig ==
    /\ version < MaxVersion
    /\ version' = version + 1
    /\ NobodyQuiet
    /\ UNCHANGED << tier, live, pc, cfg, plan, disturbances >>

(* Somebody adds, changes or removes a member by hand.                     *)
Edit(n, x) ==
    /\ Disturb
    /\ live[n] # x
    /\ live' = [live EXCEPT ![n] = x]
    /\ NobodyQuiet
    /\ UNCHANGED << tier, version, pc, cfg, plan >>

(* The run comes to the tier: it lists the collection and compares.        *)
List(w) ==
    /\ pc[w] # "send"
    /\ \E s \in Snapshots(tier) :
         LET requests == PlanOf(tier, version, s) IN
         /\ plan' = [plan EXCEPT ![w] = requests]
         /\ pc' = [pc EXCEPT ![w] = IF requests = {} THEN "done" ELSE "send"]
    /\ cfg' = [cfg EXCEPT ![w] = version]
    /\ quiet' = [quiet EXCEPT ![w] = TRUE]
    /\ UNCHANGED << tier, version, live, disturbances >>

IsNext(w, r) == r \in plan[w] /\ \A q \in plan[w] : r.rank <= q.rank

(* The next request is accepted.                                           *)
Send(w) ==
    /\ pc[w] = "send"
    /\ \E r \in plan[w] :
         /\ IsNext(w, r)
         /\ Accepts(r)
         /\ live' = Outcome(r)
         /\ plan' = [plan EXCEPT ![w] = @ \ {r}]
         /\ pc' = [pc EXCEPT ![w] = IF plan[w] = {r} THEN "done" ELSE @]
    /\ quiet' = [x \in Workers |-> x = w /\ quiet[x]]
    /\ UNCHANGED << tier, version, cfg, disturbances >>

(* Mutant: what the failed run had still to send is not dropped.           *)
RefusedKeepsPlan(w) ==
    /\ pc[w] = "send"
    /\ \E r \in plan[w] : IsNext(w, r) /\ ~Accepts(r)
    /\ pc' = [pc EXCEPT ![w] = "failed"]
    /\ UNCHANGED << tier, version, live, cfg, plan, quiet, disturbances >>

(* It is refused (404 or 422), and the tier raises.                        *)
Refused(w) ==
    /\ pc[w] = "send"
    /\ \E r \in plan[w] : IsNext(w, r) /\ ~Accepts(r)
    /\ plan' = [plan EXCEPT ![w] = {}]
    /\ pc' = [pc EXCEPT ![w] = "failed"]
    /\ UNCHANGED << tier, version, live, cfg, quiet, disturbances >>

(* A call fails for another reason, or the worker dies.                    *)
Fail(w) ==
    /\ pc[w] = "send"
    /\ Disturb
    /\ plan' = [plan EXCEPT ![w] = {}]
    /\ pc' = [pc EXCEPT ![w] = "idle"]
    /\ UNCHANGED << tier, version, live, cfg, quiet >>

Next ==
    \/ ChangeConfig
    \/ \E n \in Names, x \in Values \cup {Absent} : Edit(n, x)
    \/ \E w \in Workers : List(w) \/ Send(w) \/ Refused(w) \/ Fail(w)

Spec == Init /\ [][Next]_vars

(* The cron brings the tier on again and again, and a run that has begun   *)
(* goes on.                                                                *)
FairSpec == Spec /\ \A w \in Workers : WF_vars(List(w)) /\ WF_vars(Send(w) \/ Refused(w))

-----------------------------------------------------------------------------
(* Properties.                                                             *)

(* What a declaration asks for (docs, configuration.md:42-49): every       *)
(* declared member is there with its declared value (a property declared   *)
(* null is not there), and where the tier prunes there is no other.        *)
AsDeclared(d, x) == IF d.want = Unset THEN x # Absent ELSE x = d.want

Prunes(v) ==
    \/ tier \in {"labels", "collaborators", "teams", "variables", "autolinks", "topics"}
    \/ tier = "secrets" /\ PruneSecrets(v) /\ Declared(tier, v) # << >>

Matches(v) ==
    LET D == Declared(tier, v) IN
    /\ \A i \in DOMAIN D :
         IF tier = "secrets" THEN D[i].name \in Supplied => live[D[i].name] # Absent
         ELSE AsDeclared(D[i], live[D[i].name])
    /\ Prunes(v) => \A n \in Names \ Members(D) : live[n] = Absent

(* A run that nobody disturbs is never refused anything: its own requests  *)
(* do not get into each other's way, whatever the collection was.          *)
QuietRunSucceeds == \A w \in Workers : quiet[w] => pc[w] # "failed"

(* A run that nobody disturbs leaves the collection as declared, so that   *)
(* "applying the same file twice produces exactly one mutation"            *)
(* (configuration.md:31-32).                                               *)
QuietRunMatches == \A w \in Workers : quiet[w] /\ pc[w] = "done" => Matches(cfg[w])

(* An environment that declares a rule off is put again, as it is.         *)
PutAgain(r) == tier = "environments" /\ r.want \in Hidden /\ Outcome(r) = live

(* A collection that is as declared gets no request: a run of the cron     *)
(* that finds no drift writes nothing.  There is one exception, which the  *)
(* docs do not make ("Reconcile is idempotent", configuration.md:31-32):   *)
(* an environment declared with wait_timer 0 or prevent_self_review false  *)
(* gets its put on every run (environments.py:34-69), and is left as it is.*)
NoDriftNoRequest ==
    Matches(version) => \A r \in PlanOf(tier, version, live) : PutAgain(r)

(* Whatever versions, edits, refusals and failures overlap, the collection *)
(* ends up as the last merged version declares and stays so.               *)
Converges == <>[]Matches(version)

(* "A declared secret that already exists is left untouched (no rotation)" *)
(* (secrets.py:6): a run that nobody disturbs, and that has seen every     *)
(* secret, never changes the value of one that is there, so that nothing   *)
(* written by hand is lost.                                                *)
QuietRunRotatesNothing ==
    [][\A w \in Workers : Send(w) /\ tier = "secrets" /\ quiet[w] =>
         \A n \in Names : live[n] # Absent => live'[n] \in {live[n], Absent}]_vars
=============================================================================
