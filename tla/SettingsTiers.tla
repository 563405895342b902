---------------------------- MODULE SettingsTiers ----------------------------
(***************************************************************************)
(* What the tiers without a collection decide: the repository block,       *)
(* security, actions, pages, code scanning, interaction limits, and their  *)
(* counterparts in the organization block (reconcile/org.py).              *)
(*                                                                         *)
(* s is what a read of one endpoint returned and D what is declared, both  *)
(* functions of fields: a field outside DOMAIN D is left undeclared.  A    *)
(* plan is the sequence of requests the tier sends next.  A field stands   *)
(* for all fields the code treats alike; a nested object                   *)
(* (security_and_analysis) is a function of its keys.                      *)
(***************************************************************************)
EXTENDS Naturals, Sequences, FiniteSets

CONSTANTS
    Absent,       \* there is no such thing, or the answer leaves it out
    Off,          \* "disabled", "none", "not-configured", false
    On            \* their opposite

(* What the schema lets a file declare (config/schema.py): the fields it   *)
(* has, those without a default, and the values that are checked.          *)
Fields(D, required, optional) ==
    required \subseteq DOMAIN D /\ DOMAIN D \subseteq required \cup optional

RepositorySettings(D) ==
    /\ Fields(D, {}, {"archived", "merge", "security_and_analysis"})
    /\ "archived" \in DOMAIN D => D["archived"] \in {On, Off}

RepositorySecurity(D) ==
    Fields(D, {}, {"alerts", "fixes", "reporting"}) /\ \A f \in DOMAIN D : D[f] \in {On, Off}

ActionsSettings(D) ==
    Fields(D, {}, {"enabled", "allowed_actions", "workflow_permissions", "can_approve"})

(* A limit that is left out is null.                                       *)
InteractionLimits(D) == Fields(D, {"limit"}, {})

PagesConfig(D) == Fields(D, {}, {"build_type", "source", "cname"})

CodeScanningDefaultSetup(D) == Fields(D, {"state"}, {"suite"}) /\ D["state"] \in {On, Off}

OrganizationSettings(D) == Fields(D, {}, {"privileges", "profile"})

CodeSecurityConfiguration(D) ==
    /\ Fields(D, {"config"}, {"attached", "default"})
    /\ D["config"] # Absent
    /\ "attached" \in DOMAIN D => D["attached"] = On

-----------------------------------------------------------------------------
Request(op, values) == [op |-> op, set |-> values]

Only(D, fields) == [f \in fields \cap DOMAIN D |-> D[f]]

(* The declared fields among these whose value is not the declared one.    *)
Drift(D, s, fields) == {f \in fields \cap DOMAIN D : D[f] # s[f]}

(* compare_deep: the fields to send.  Two nested objects are equal if they *)
(* agree on the keys of both, declared or not.                             *)
CompareDeep(D, s) == Only(D, Drift(D, s, DOMAIN D))

(* One request with the fields that differ, if any.                        *)
PatchPlan(D, s) ==
    LET changed == CompareDeep(D, s) IN
    IF DOMAIN changed = {} THEN << >> ELSE << Request("patch", changed) >>

(* Mutant: an archived repository is patched like any other.               *)
RepositoryPlanArchived(D, s) == PatchPlan(D, s)

(* An archived repository is left alone, if archived: false is declared as *)
(* well.                                                                   *)
RepositoryPlan(D, s) == IF s["archived"] = On THEN << >> ELSE PatchPlan(D, s)

OrganizationPlan(D, s) == PatchPlan(D, s)

DefinitionsPlan(D, s) == PatchPlan(D, s)

(* Each toggle has an endpoint of its own.                                 *)
SecurityPlan(toggle, D, s) ==
    IF Drift(D, s, {toggle}) = {} THEN << >> ELSE << Request("patch", Only(D, {toggle})) >>

(* Mutant: what is not declared is sent as off.                            *)
FilledOff(D, s, f) == IF f \in DOMAIN D THEN D[f] ELSE Off

(* An endpoint that takes all its fields at once gets the value just read  *)
(* where none is declared.                                                 *)
Filled(D, s, f) == IF f \in DOMAIN D THEN D[f] ELSE s[f]

(* Which actions are allowed is sent only while actions are enabled.       *)
PermissionsPlan(D, s) ==
    LET enabled == Filled(D, s, "enabled")
        allowed == Filled(D, s, "allowed_actions")
        sent == IF enabled # Off /\ allowed # Absent THEN {"enabled", "allowed_actions"}
                ELSE {"enabled"}
    IN  IF Drift(D, s, {"enabled", "allowed_actions"}) = {} THEN << >>
        ELSE << Request("patch", [f \in sent |-> Filled(D, s, f)]) >>

WorkflowPlan(D, s) ==
    LET fields == {"workflow_permissions", "can_approve"} IN
    IF Drift(D, s, fields) = {} THEN << >>
    ELSE << Request("patch", [f \in fields |-> Filled(D, s, f)]) >>

(* Permissions first, then the workflow token.                             *)
ActionsPlan(endpoint, D, s) ==
    IF endpoint = 1 THEN PermissionsPlan(D, s) ELSE WorkflowPlan(D, s)

OrgActionsPlan(endpoint, D, s) == ActionsPlan(endpoint, D, s)

(* A declared limit of null removes the one there is.                      *)
InteractionLimitsPlan(D, s) ==
    IF D["limit"] = s["limit"] THEN << >>
    ELSE << Request(IF D["limit"] = Absent THEN "remove" ELSE "patch", Only(D, {"limit"})) >>

OrgInteractionLimitsPlan(D, s) == InteractionLimitsPlan(D, s)

(* Mutant: the domain is only looked after when the site is created.       *)
PagesPlanForgetful(D, s) ==
    LET extras == Only(D, {"cname"}) IN
    IF s["site"] = Absent
    THEN << Request("create", Only(D, {"build_type", "source"})) >>
           \o IF DOMAIN extras = {} THEN << >> ELSE << Request("update", extras) >>
    ELSE IF Drift(D, s, {"build_type", "source"}) = {} THEN << >>
    ELSE << Request("update", D) >>

(* A site is created with its source; domain and https need an update.     *)
PagesPlan(D, s) ==
    LET extras == Only(D, {"cname"}) IN
    IF s["site"] = Absent
    THEN << Request("create", Only(D, {"build_type", "source"})) >>
           \o IF DOMAIN extras = {} THEN << >> ELSE << Request("update", extras) >>
    ELSE IF Drift(D, s, DOMAIN D) = {} THEN << >>
    ELSE << Request("update", D) >>

(* The refinements count, and are sent, only when it is to be configured.  *)
CodeScanningPlan(D, s) ==
    LET compared == IF D["state"] = On THEN DOMAIN D ELSE {"state"} IN
    IF Drift(D, s, compared) = {} THEN << >> ELSE << Request("patch", Only(D, compared)) >>

(* Mutant: an updated configuration is not attached, only a new one.       *)
CodeSecurityPlanCreateOnly(D, s) ==
    IF s["config"] = Absent
    THEN << Request("create", Only(D, {"config"})), Request("attach", Only(D, {"attached"})) >>
    ELSE IF D["config"] = s["config"] THEN << >> ELSE << Request("update", Only(D, {"config"})) >>

(* A configuration is attached, and made the default for new repositories, *)
(* only after it was created or updated.                                   *)
CodeSecurityPlan(D, s) ==
    LET write == IF s["config"] = Absent THEN "create" ELSE "update"
        Then(op, field) == IF field \in DOMAIN D THEN << Request(op, Only(D, {field})) >> ELSE << >>
    IN  IF D["config"] = s["config"] THEN << >>
        ELSE << Request(write, Only(D, {"config"})) >>
               \o Then("attach", "attached") \o Then("default", "default")
=============================================================================
