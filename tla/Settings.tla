------------------------------ MODULE Settings ------------------------------
(***************************************************************************)
(* The tiers that keep settings, branch protection and rulesets as         *)
(* declared, of a repository or of the organization.                       *)
(*                                                                         *)
(* A run goes through its tier in steps: an endpoint, a branch or a        *)
(* ruleset each.  A step reads, decides from what it read (SettingsTiers,  *)
(* BranchProtection, Rulesets) and sends its requests one by one; the next *)
(* step reads anew.  Other runs, people and failures come in between.  The *)
(* first request that GitHub refuses ends the run.                         *)
(*                                                                         *)
(* GitHub is external.  Disabling alerts disables the fixes that need      *)
(* them; a policy says which actions are allowed only while actions are    *)
(* enabled; an archived repository refuses every change; branches and the  *)
(* repository itself exist; a listing of rulesets returns all of them.     *)
(* Only the repository and the branches tier ask whether the repository is *)
(* archived; the others would send and be refused, and their repositories  *)
(* are taken not to be archived here.                                      *)
(***************************************************************************)
EXTENDS Naturals, Sequences, FiniteSets

CONSTANTS
    Absent, Off, On, AllOff, Unrestricted, Unset,     \* see the modules of the tiers
    AllActions,              \* which actions are allowed when nobody has said
    Tiers,            \* the tiers looked at
    Names(_),         \* Names(t): the branches, rulesets or properties there may be; of
                      \* the repository, the keys of security_and_analysis
    DefaultBranches,  \* the branches that may be the default branch
    MaxVersion,       \* bound: the last version of the settings file
    Declared(_, _),   \* Declared(t, v): what version v declares for tier t
    States(_),        \* States(t): what GitHub may hold at first, or by hand
    Workers,          \* runs of the tier that may overlap
    MaxDisturbances   \* bound: edits by hand and failures in one behaviour

INSTANCE SettingsTiers
INSTANCE BranchProtection
INSTANCE Rulesets

Toggles == << "alerts", "fixes", "reporting" >>

ActionsTiers == {"actions", "org_actions"}
LimitTiers == {"interaction_limits", "org_interaction_limits"}
RulesetTiers == {"rulesets", "org_rulesets"}

AllTiers ==
    {"repository", "security", "pages", "code_scanning", "branches", "organization",
     "org_custom_properties", "org_code_security"}
      \cup ActionsTiers \cup LimitTiers \cup RulesetTiers

Versions == 0 .. MaxVersion

(* The settings of a tier.  What is not there is Absent.                   *)
Keys(t) ==
    CASE t = "repository" -> {"archived", "merge", "security_and_analysis"}
      [] t = "security" -> {"alerts", "fixes", "reporting"}
      [] t \in ActionsTiers -> {"enabled", "allowed_actions", "workflow_permissions", "can_approve"}
      [] t \in LimitTiers -> {"limit"}
      [] t = "pages" -> {"site", "build_type", "source", "cname"}
      [] t = "code_scanning" -> {"state", "suite"}
      [] t = "organization" -> {"privileges", "profile"}
      [] t = "org_code_security" -> {"config", "attached", "default"}
      [] t = "branches" -> {"archived", "default_branch"} \cup Names(t)
      [] OTHER -> Names(t)

(* What GitHub may hold of a tier.                                         *)
Holdable(t, s) ==
    /\ DOMAIN s = Keys(t)
    /\ CASE t = "repository" ->
              LET nested == s["security_and_analysis"] IN nested = [k \in Names(t) |-> nested[k]]
         [] t = "pages" -> s["site"] \in {On, Absent}
         [] t = "branches" ->
              /\ s["default_branch"] \in DefaultBranches
              /\ \A b \in Names(t) : s[b] # Absent =>
                    /\ DOMAIN s[b] = {"rules", "restrictions", "signatures"}
                    /\ s[b].signatures \in BOOLEAN
         [] OTHER -> TRUE

ASSUME TiersAssumption == Tiers \subseteq AllTiers
ASSUME ValuesAssumption == On # Off /\ Absent \notin {On, Off}
ASSUME NamesAssumption ==     \* fields and names are keys of one function, and kept apart
    \A t \in Tiers : Names(t) \cap {"archived", "default_branch", "security_and_analysis"} = {}
ASSUME DefaultBranchesAssumption ==
    "branches" \in Tiers => DefaultBranches \subseteq Names("branches")
ASSUME StatesAssumption == \A t \in Tiers : \A s \in States(t) : Holdable(t, s)

(* A tier with an empty list is not run.                                   *)
IsList(D) == D \in Seq({D[i] : i \in DOMAIN D}) /\ Len(D) > 0

(* The schema refuses every other declaration, before a run begins.        *)
Declarable(t, D) ==
    CASE t = "repository" ->
            /\ RepositorySettings(D)
            /\ "security_and_analysis" \in DOMAIN D =>
                 DOMAIN D["security_and_analysis"] \subseteq Names(t)
      [] t = "security" -> RepositorySecurity(D)
      [] t \in ActionsTiers -> ActionsSettings(D)
      [] t \in LimitTiers -> InteractionLimits(D)
      [] t = "pages" -> PagesConfig(D)
      [] t = "code_scanning" -> CodeScanningDefaultSetup(D)
      [] t = "organization" -> OrganizationSettings(D)
      [] t = "org_code_security" -> CodeSecurityConfiguration(D)
      [] t = "org_custom_properties" -> DOMAIN D \subseteq Names(t)
      [] t = "branches" ->
            /\ IsList(D)
            /\ \A i \in DOMAIN D : BranchConfig(D[i]) /\ D[i].name \in Names(t) \cup {"default"}
      [] t \in RulesetTiers ->
            IsList(D) /\ \A i \in DOMAIN D : Ruleset(D[i]) /\ D[i].name \in Names(t)

ASSUME DeclaredAssumption == \A t \in Tiers, v \in Versions : Declarable(t, Declared(t, v))
ASSUME BoundsAssumption == {MaxVersion, MaxDisturbances} \subseteq Nat

VARIABLES
    tier,          \* the tier of this behaviour
    version,       \* version of the settings file
    live,          \* the settings on GitHub
    pc,            \* where each run is
    cfg,           \* the version each run has loaded
    step,          \* the step each run is at
    listed,        \* the names of the rulesets each run has found
    plan,          \* the requests each run has still to send in its step
    quiet,         \* history: nobody but the run has done anything since it began
    disturbances   \* disturbances so far

vars == << tier, version, live, pc, cfg, step, listed, plan, quiet, disturbances >>

-----------------------------------------------------------------------------
Steps(t, D) ==
    CASE t = "security" -> Len(Toggles)
      [] t \in ActionsTiers -> 2
      [] t \in RulesetTiers \cup {"branches"} -> Len(D)
      [] OTHER -> 1

(* What step i sends if it reads s.                                        *)
PlanOf(t, D, i, names, s) ==
    CASE t = "repository" -> RepositoryPlan(D, s)
      [] t = "security" -> SecurityPlan(Toggles[i], D, s)
      [] t = "actions" -> ActionsPlan(i, D, s)
      [] t = "pages" -> PagesPlan(D, s)
      [] t = "code_scanning" -> CodeScanningPlan(D, s)
      [] t = "interaction_limits" -> InteractionLimitsPlan(D, s)
      [] t = "organization" -> OrganizationPlan(D, s)
      [] t = "org_actions" -> OrgActionsPlan(i, D, s)
      [] t = "org_interaction_limits" -> OrgInteractionLimitsPlan(D, s)
      [] t = "org_custom_properties" -> DefinitionsPlan(D, s)
      [] t = "org_code_security" -> CodeSecurityPlan(D, s)
      [] t = "rulesets" -> RulesetPlan(D[i], names, s[D[i].name])
      [] t = "org_rulesets" -> OrgRulesetPlan(D[i], names, s[D[i].name])
      [] t = "branches" -> 
            LET b == ResolveBranch(D[i].name, s["default_branch"]) IN
            IF s["archived"] = On THEN << >> ELSE BranchPlan(b, D[i].protection, s[b])

(* The names of the rulesets there are.                                    *)
Listing == IF tier \in RulesetTiers THEN {n \in DOMAIN live : live[n] # Absent} ELSE {}

(* A ruleset of the listing may be gone when it is read by its id.         *)
Readable(w) ==
    tier \in RulesetTiers =>
        LET n == Declared(tier, cfg[w])[step[w]].name IN n \in listed[w] => live[n] # Absent

-----------------------------------------------------------------------------
(* What GitHub makes of a request.                                         *)

Archived == tier \in {"repository", "branches"} /\ live["archived"] = On

Accepts(r) ==
    /\ ~Archived
    /\ CASE tier = "security" -> r.set = [fixes |-> On] => live["alerts"] = On
         [] tier = "pages" -> (live["site"] = Absent) <=> (r.op = "create")
         [] tier = "code_scanning" -> live["state"] # Absent
         [] tier = "org_code_security" -> (live["config"] = Absent) <=> (r.op = "create")
         [] tier \in RulesetTiers -> (live[r.ruleset.name] = Absent) <=> (r.op = "create")
         [] tier = "branches" -> r.op # "put" => live[r.branch] # Absent
         [] OTHER -> TRUE

(* A nested object keeps the keys the request leaves out.                  *)
Merged(f, old, new) ==
    IF f # "security_and_analysis" THEN new
    ELSE [k \in DOMAIN old |-> IF k \in DOMAIN new THEN new[k] ELSE old[k]]

Patched(r) ==
    [f \in DOMAIN live |-> IF f \in DOMAIN r.set THEN Merged(f, live[f], r.set[f]) ELSE live[f]]

(* What follows from another setting.                                      *)
Settled(s) ==
    CASE tier = "security" /\ s["alerts"] = Off -> [s EXCEPT !["fixes"] = Off]
      [] tier \in ActionsTiers /\ s["enabled"] = Off -> [s EXCEPT !["allowed_actions"] = Absent]
      [] tier \in ActionsTiers /\ s["enabled"] # Off /\ s["allowed_actions"] = Absent ->
            [s EXCEPT !["allowed_actions"] = AllActions]
      [] OTHER -> s

(* The rules of a request, each with a parameter of the server's own.      *)
Echo(rules) ==
    [t \in DOMAIN rules |->
        [k \in DOMAIN rules[t] \cup {"added"} |->
            IF k \in DOMAIN rules[t] THEN rules[t][k] ELSE Off]]

RulesetWritten(r) ==
    [rules |-> Echo(r.ruleset.rules),
     bypass |-> CASE r.ruleset.bypass # Unset -> r.ruleset.bypass
                  [] r.ruleset.bypass = Unset /\ r.op = "create" -> << >>
                  [] OTHER -> live[r.ruleset.name].bypass]

BranchWritten(r) ==
    CASE r.op = "put" -> [rules |-> r.set.rules, restrictions |-> r.set.restrictions,
                          signatures |-> live[r.branch] # Absent /\ live[r.branch].signatures]
      [] r.op = "unprotect" -> Absent
      [] r.op \in {"sign", "unsign"} -> [live[r.branch] EXCEPT !.signatures = (r.op = "sign")]

Outcome(r) ==
    CASE tier \in RulesetTiers -> [live EXCEPT ![r.ruleset.name] = RulesetWritten(r)]
      [] tier = "branches" -> [live EXCEPT ![r.branch] = BranchWritten(r)]
      [] tier = "pages" /\ r.op = "create" -> [Patched(r) EXCEPT !["site"] = On]
      [] OTHER -> Settled(Patched(r))

-----------------------------------------------------------------------------
(* What a run may still have to send (the proofs build on it).             *)
Proper(r) ==
    CASE tier = "branches" ->
            r.op \in {"put", "unprotect", "sign", "unsign"} /\ r.branch \in Names(tier)
      [] tier = "pages" -> "site" \notin DOMAIN r.set
      [] OTHER -> TRUE

TypeOK ==
    /\ tier \in Tiers
    /\ version \in Versions
    /\ Holdable(tier, live)
    /\ pc \in [Workers -> {"idle", "read", "send", "done", "failed"}]
    /\ cfg \in [Workers -> Versions]
    /\ step \in [Workers -> Nat]
    /\ listed \in [Workers -> SUBSET Keys(tier)]
    /\ DOMAIN plan = Workers
    /\ \A w \in Workers :
         /\ pc[w] \in {"read", "send"} => step[w] \in 1 .. Steps(tier, Declared(tier, cfg[w]))
         /\ plan[w] \in Seq({plan[w][k] : k \in DOMAIN plan[w]}) /\ Len(plan[w]) <= 3
         /\ \A k \in DOMAIN plan[w] : Proper(plan[w][k])
         /\ pc[w] = "send" <=> plan[w] # << >>
    /\ quiet \in [Workers -> BOOLEAN]
    /\ disturbances \in 0 .. MaxDisturbances

Init ==
    /\ tier \in Tiers
    /\ version = 0
    /\ live \in States(tier)
    /\ pc = [w \in Workers |-> "idle"]
    /\ cfg = [w \in Workers |-> 0]
    /\ step = [w \in Workers |-> 0]
    /\ listed = [w \in Workers |-> {}]
    /\ plan = [w \in Workers |-> << >>]
    /\ quiet = [w \in Workers |-> FALSE]
    /\ disturbances = 0

Disturb ==
    /\ disturbances < MaxDisturbances
    /\ disturbances' = disturbances + 1

NobodyQuiet == quiet' = [w \in Workers |-> FALSE]

(* A new version of the settings file is merged.                           *)
ChangeConfig ==
    /\ version < MaxVersion
    /\ version' = version + 1
    /\ NobodyQuiet
    /\ UNCHANGED << tier, live, pc, cfg, step, listed, plan, disturbances >>

(* Somebody changes the settings by hand, archives, unarchives.            *)
Edit(s) ==
    /\ Disturb
    /\ live # s
    /\ live' = s
    /\ NobodyQuiet
    /\ UNCHANGED << tier, version, pc, cfg, step, listed, plan >>

(* The run comes to the tier; rulesets are listed first.                   *)
Start(w) ==
    /\ pc[w] \notin {"read", "send"}
    /\ pc' = [pc EXCEPT ![w] = "read"]
    /\ cfg' = [cfg EXCEPT ![w] = version]
    /\ step' = [step EXCEPT ![w] = 1]
    /\ listed' = [listed EXCEPT ![w] = Listing]
    /\ quiet' = [quiet EXCEPT ![w] = TRUE]
    /\ UNCHANGED << tier, version, live, plan, disturbances >>

(* The run w has nothing more to send in its step.                         *)
Advance(w) ==
    IF step[w] < Steps(tier, Declared(tier, cfg[w]))
    THEN pc' = [pc EXCEPT ![w] = "read"] /\ step' = [step EXCEPT ![w] = @ + 1]
    ELSE pc' = [pc EXCEPT ![w] = "done"] /\ UNCHANGED step

(* The run reads and decides.  What a step reads by several GETs (of a     *)
(* branch the repository, the protection and the signatures) it reads at   *)
(* once here.                                                              *)
Read(w) ==
    /\ pc[w] = "read"
    /\ Readable(w)
    /\ LET requests == PlanOf(tier, Declared(tier, cfg[w]), step[w], listed[w], live) IN
       /\ plan' = [plan EXCEPT ![w] = requests]
       /\ IF requests = << >> THEN Advance(w)
          ELSE pc' = [pc EXCEPT ![w] = "send"] /\ UNCHANGED step
    /\ UNCHANGED << tier, version, live, cfg, listed, quiet, disturbances >>

(* The next request is accepted.                                           *)
Send(w) ==
    /\ pc[w] = "send"
    /\ Accepts(Head(plan[w]))
    /\ live' = Outcome(Head(plan[w]))
    /\ plan' = [plan EXCEPT ![w] = Tail(@)]
    /\ IF Len(plan[w]) = 1 THEN Advance(w) ELSE UNCHANGED << pc, step >>
    /\ quiet' = [x \in Workers |-> x = w /\ quiet[x]]
    /\ UNCHANGED << tier, version, cfg, listed, disturbances >>

(* Mutant: what the failed run had still to send is not dropped.           *)
RefusedKeepsPlan(w) ==
    /\ \/ pc[w] = "read" /\ ~Readable(w)
       \/ pc[w] = "send" /\ ~Accepts(Head(plan[w]))
    /\ pc' = [pc EXCEPT ![w] = "failed"]
    /\ UNCHANGED << tier, version, live, cfg, step, listed, plan, quiet, disturbances >>

(* A read or a request is refused, and the tier raises.                    *)
Refused(w) ==
    /\ \/ pc[w] = "read" /\ ~Readable(w)
       \/ pc[w] = "send" /\ ~Accepts(Head(plan[w]))
    /\ pc' = [pc EXCEPT ![w] = "failed"]
    /\ plan' = [plan EXCEPT ![w] = << >>]
    /\ UNCHANGED << tier, version, live, cfg, step, listed, quiet, disturbances >>

(* A call fails for another reason, or the worker dies.                    *)
Fail(w) ==
    /\ pc[w] \in {"read", "send"}
    /\ Disturb
    /\ pc' = [pc EXCEPT ![w] = "idle"]
    /\ plan' = [plan EXCEPT ![w] = << >>]
    /\ UNCHANGED << tier, version, live, cfg, step, listed, quiet >>

Next ==
    \/ ChangeConfig
    \/ \E s \in States(tier) : Edit(s)
    \/ \E w \in Workers : Start(w) \/ Read(w) \/ Send(w) \/ Refused(w) \/ Fail(w)

Spec == Init /\ [][Next]_vars

(* The cron brings the tier on again and again, and a run that has begun   *)
(* goes on.                                                                *)
FairSpec ==
    Spec /\ \A w \in Workers : WF_vars(Start(w)) /\ WF_vars(Read(w) \/ Send(w) \/ Refused(w))

-----------------------------------------------------------------------------
(* Preconditions of the properties.                                        *)

(* A declaration whose steps do not work against each other, or against    *)
(* what GitHub makes of them.  The schema accepts others as well.          *)
Coherent(t, D) ==
    CASE t = "security" ->
            "fixes" \in DOMAIN D /\ D["fixes"] = On => "alerts" \in DOMAIN D /\ D["alerts"] = On
      [] t \in ActionsTiers ->
            "allowed_actions" \in DOMAIN D =>
                D["allowed_actions"] # Absent /\ "enabled" \in DOMAIN D /\ D["enabled"] # Off
      [] t = "branches" ->
            \A i, j \in DOMAIN D, b \in DefaultBranches :
                ResolveBranch(D[i].name, b) = ResolveBranch(D[j].name, b) => i = j
      [] t \in RulesetTiers -> \A i, j \in DOMAIN D : D[i].name = D[j].name => i = j
      [] OTHER -> TRUE

(* A declaration that leaves nothing half managed: nested objects with all *)
(* their keys, and who may push.                                           *)
Whole(t, D) ==
    CASE t = "repository" ->
            "security_and_analysis" \in DOMAIN D =>
                LET nested == D["security_and_analysis"] IN nested = [k \in Names(t) |-> nested[k]]
      [] t = "branches" ->
            \A i \in DOMAIN D : D[i].protection # Absent => D[i].protection.restrictions # Unset
      [] OTHER -> TRUE

-----------------------------------------------------------------------------
(* Properties.                                                             *)

(* A field is as declared; of a nested object the declared keys are.       *)
FieldMatches(f, want, have) ==
    IF f = "security_and_analysis" THEN \A k \in DOMAIN want : have[k] = want[k]
    ELSE have = want

(* What a declaration asks for, tier by tier (docs, configuration.md).     *)
FlatMatches(D, s) == \A f \in DOMAIN D : FieldMatches(f, D[f], s[f])

BranchMatches(p, actual) ==
    IF p = Absent THEN actual = Absent
    ELSE /\ actual # Absent \/ (p.rules = AllOff /\ ~p.signatures)
         /\ CanonicalActual(actual).rules = p.rules
         /\ p.restrictions \in {Unset, CanonicalActual(actual).restrictions}
         /\ p.signatures = (actual # Absent /\ actual.signatures)

RulesetMatches(d, actual) ==
    /\ actual # Absent
    /\ \A t \in DOMAIN d.rules :
         /\ t \in DOMAIN actual.rules
         /\ \A k \in DOMAIN d.rules[t] :
              k \in DOMAIN actual.rules[t] /\ actual.rules[t][k] = d.rules[t][k]
    /\ d.bypass # Unset =>
         /\ DOMAIN actual.bypass = DOMAIN d.bypass
         /\ \A a \in DOMAIN d.bypass :
              "mode" \in DOMAIN actual.bypass[a] /\ actual.bypass[a].mode = d.bypass[a].mode

Matches(v) ==
    LET D == Declared(tier, v) IN
    CASE tier = "branches" ->
            \A i \in DOMAIN D :
                BranchMatches(D[i].protection, live[ResolveBranch(D[i].name, live["default_branch"])])
      [] tier \in RulesetTiers -> \A i \in DOMAIN D : RulesetMatches(D[i], live[D[i].name])
      [] tier = "code_scanning" -> 
            D["state"] = live["state"] /\ (D["state"] = On => FlatMatches(D, live))
      [] tier = "pages" -> live["site"] = On /\ FlatMatches(D, live)
      [] tier = "org_code_security" -> D["config"] = live["config"]
      [] OTHER -> FlatMatches(D, live)

(* GitHub answers 404 or 403: the repository has no code that default      *)
(* setup could scan, or no licence for it.                                 *)
NoDefaultSetup == tier = "code_scanning" /\ live["state"] = Absent

(* Nothing can be applied to an archived repository.                       *)
Applicable == ~Archived /\ ~NoDefaultSetup

(* A run that nobody disturbs is refused nothing, since its requests come  *)
(* in an order GitHub accepts: but for one tier.  Where there can be no    *)
(* default setup, code scanning sends its PATCH and is refused on every    *)
(* run.  Of a declared state: not-configured too: code_scanning.py:9-11    *)
(* and 44 have a 404 count as not configured, and line 48 compares what is *)
(* no state at all with the one declared.                                  *)
QuietRunSucceeds ==
    \A w \in Workers : quiet[w] /\ pc[w] = "failed" => NoDefaultSetup

(* A run that nobody disturbs leaves the settings as declared.             *)
QuietRunMatches ==
    \A w \in Workers : quiet[w] /\ pc[w] = "done" => Matches(cfg[w]) \/ Archived

(* "applying a diff and re-diffing yields has_changes == False"            *)
(* (diff.py:6): settings that are as declared get no request.              *)
NoDriftNoRequest ==
    Matches(version) =>
        LET D == Declared(tier, version) IN
        \A i \in 1 .. Steps(tier, D) : PlanOf(tier, D, i, Listing, live) = << >>

(* What GitHub changes of itself along with another setting.               *)
Follows(f, old, new) ==
    \/ tier \in ActionsTiers /\ f = "allowed_actions" /\ Absent \in {old[f], new[f]}
    \/ tier = "security" /\ f = "fixes" /\ new["alerts"] = Off /\ new[f] = Off

(* What the declaration does not mention is left as it is                  *)
(* (configuration.md:31-49) by a run that nobody disturbs, though many an  *)
(* endpoint takes all its fields at once.                                  *)
UndeclaredKept(v, old, new) ==
    LET D == Declared(tier, v)
        Rest == CASE tier \in RulesetTiers -> DOMAIN old \ {D[i].name : i \in DOMAIN D}
                  [] tier = "branches" ->
                        DOMAIN old \ {ResolveBranch(D[i].name, old["default_branch"]) : i \in DOMAIN D}
                  [] tier = "pages" -> DOMAIN old \ (DOMAIN D \cup {"site"})
                  [] OTHER -> DOMAIN old \ DOMAIN D
    IN  /\ \A f \in Rest : new[f] = old[f] \/ Follows(f, old, new)
        /\ tier \in RulesetTiers =>
             \A i \in DOMAIN D : LET n == D[i].name IN
               D[i].bypass = Unset /\ old[n] # Absent => new[n].bypass = old[n].bypass
        /\ tier = "branches" =>
             \A i \in DOMAIN D : LET b == ResolveBranch(D[i].name, old["default_branch"]) IN
               /\ D[i].protection # Absent
               /\ D[i].protection.restrictions = Unset
               => CanonicalActual(new[b]).restrictions = CanonicalActual(old[b]).restrictions

KeepsUndeclared ==
    [][\A w \in Workers : Send(w) /\ quiet[w] => UndeclaredKept(cfg[w], live, live')]_vars

(* A configuration that a run wrote is attached and made the default as    *)
(* declared when the run is over (configuration.md:1201-1205): a later run *)
(* would not do it.                                                        *)
WrittenIsAttached ==
    [][\A w \in Workers :
         tier = "org_code_security" /\ Send(w) /\ quiet[w] /\ pc'[w] = "done" =>
            FlatMatches(Declared(tier, cfg[w]), live')]_vars

(* Whatever versions, edits, refusals and failures overlap, the settings   *)
(* end up as the last merged version declares and stay so.                 *)
Converges == <>[](Matches(version) \/ ~Applicable)
=============================================================================
