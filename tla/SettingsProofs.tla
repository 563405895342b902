--------------------------- MODULE SettingsProofs ---------------------------
(* Machine-checked proofs about Settings.  A run that nobody disturbs has  *)
(* at each step a plan that is right for the settings as they are, and     *)
(* what its earlier steps have set right stays right.                      *)
EXTENDS Settings, SequenceTheorems, TLAPS

-----------------------------------------------------------------------------
(* What step i of declaration D is there to bring about in the settings s. *)
StepMatches(t, D, i, s) ==
    CASE t = "security" -> Toggles[i] \in DOMAIN D => s[Toggles[i]] = D[Toggles[i]]
      [] t \in ActionsTiers ->
            Drift(D, s, IF i = 1 THEN {"enabled", "allowed_actions"}
                        ELSE {"workflow_permissions", "can_approve"}) = {}
      [] t = "branches" ->
            BranchMatches(D[i].protection, s[ResolveBranch(D[i].name, s["default_branch"])])
      [] t \in RulesetTiers -> RulesetMatches(D[i], s[D[i].name])
      [] t = "code_scanning" -> D["state"] = s["state"] /\ (D["state"] = On => FlatMatches(D, s))
      [] t = "pages" -> s["site"] = On /\ FlatMatches(D, s)
      [] t = "org_code_security" -> D["config"] = s["config"]
      [] OTHER -> FlatMatches(D, s)

-----------------------------------------------------------------------------
(* The invariant of runs that nobody disturbs.                             *)

Desired(w) == Declared(tier, cfg[w])

(* The rest of the requests for pages, once the site is created, and for a *)
(* code security configuration, once it is written.                        *)
SiteCreated(w) ==
    /\ tier = "pages"
    /\ live["site"] = On
    /\ Drift(Desired(w), live, {"build_type", "source"}) = {}
    /\ plan[w] = << Request("update", Only(Desired(w), {"cname"})) >>

Written(w) ==
    /\ tier = "org_code_security"
    /\ live["config"] = Desired(w)["config"]
    /\ LET attach == Request("attach", Only(Desired(w), {"attached"}))
           default == Request("default", Only(Desired(w), {"default"}))
       IN  \/ /\ {"attached", "default"} \subseteq DOMAIN Desired(w)
              /\ plan[w] = << attach, default >>
           \/ /\ "attached" \in DOMAIN Desired(w) /\ "default" \notin DOMAIN Desired(w)
              /\ plan[w] = << attach >>
           \/ /\ "default" \in DOMAIN Desired(w)
              /\ Drift(Desired(w), live, {"attached"}) = {}
              /\ plan[w] = << default >>

(* What the run has still to send is what it would decide now, or the rest *)
(* of what it has decided.                                                 *)
Pending(w) ==
    \/ plan[w] = PlanOf(tier, Desired(w), step[w], listed[w], live)
    \/ SiteCreated(w)
    \/ Written(w)

PlanIsRight == \A w \in Workers : quiet[w] /\ pc[w] = "send" => Pending(w)

(* The listing is right about the rulesets that are still to be looked at. *)
ListingIsRight ==
    \A w \in Workers :
        /\ quiet[w] /\ pc[w] \in {"read", "send"}
        /\ tier \in RulesetTiers /\ Coherent(tier, Desired(w))
        => \A i \in step[w] .. Steps(tier, Desired(w)) :
                Desired(w)[i].name \in listed[w] <=> live[Desired(w)[i].name] # Absent

(* The steps a run has behind it.                                          *)
Behind(w) ==
    CASE pc[w] \in {"read", "send"} -> 1 .. step[w] - 1
      [] pc[w] = "done" -> 1 .. Steps(tier, Desired(w))
      [] OTHER -> {}

Progress ==
    \A w \in Workers :
        quiet[w] /\ Coherent(tier, Desired(w)) =>
            Archived \/ \A i \in Behind(w) : StepMatches(tier, Desired(w), i, live)

IInv == TypeOK /\ PlanIsRight /\ ListingIsRight /\ Progress

-----------------------------------------------------------------------------
(* Short sequences.                                                        *)

Short(p) == p \in Seq({p[k] : k \in DOMAIN p}) /\ Len(p) <= 3

LEMMA ShortSequences ==
    /\ Short(<< >>)
    /\ \A a : Short(<< a >>)
    /\ \A a, b : Short(<< a, b >>)
    /\ \A a, b, c : Short(<< a, b, c >>)
  BY DEF Short

(* The tail of a short sequence.                                           *)
LEMMA ShortTail ==
    ASSUME NEW p, Short(p), p # << >>
    PROVE  /\ Short(Tail(p))
           /\ DOMAIN Tail(p) = 1 .. Len(p) - 1
           /\ \A k \in DOMAIN Tail(p) : k + 1 \in DOMAIN p /\ Tail(p)[k] = p[k + 1]
           /\ Len(p) \in Nat \ {0} /\ 1 \in DOMAIN p /\ Head(p) = p[1]
           /\ Tail(p) = << >> <=> Len(p) = 1
<1>1. Len(p) \in {1, 2, 3}
  <2> DEFINE S == {p[k] : k \in DOMAIN p}
  <2>1. p \in Seq(S) /\ Len(p) <= 3
    BY DEF Short
  <2> HIDE DEF S
  <2>2. Len(p) \in Nat /\ (Len(p) = 0 => p = << >>)
    BY <2>1
  <2>3. Len(p) \in Nat /\ Len(p) # 0 /\ Len(p) <= 3
    BY <2>1, <2>2
  <2>4. \A n \in Nat : n # 0 /\ n <= 3 => n \in {1, 2, 3}
    OBVIOUS
  <2> QED
    BY <2>3, <2>4
<1>2. CASE Len(p) = 1
  <2>1. PICK a : p = << a >>
    BY <1>2 DEF Short
  <2>2. Tail(p) = << >>
    BY <2>1
  <2> QED
    BY <2>1, <2>2, ShortSequences
<1>3. CASE Len(p) = 2
  <2>1. PICK a, b : p = << a, b >>
    BY <1>3 DEF Short
  <2>2. Tail(p) = << b >>
    BY <2>1
  <2> QED
    BY <2>1, <2>2, ShortSequences
<1>4. CASE Len(p) = 3
  <2>1. PICK a, b, c : p = << a, b, c >>
    <3>1. p = << p[1], p[2], p[3] >>
      BY <1>4 DEF Short
    <3> QED
      BY <3>1
  <2>2. Tail(p) = << b, c >>
    BY <2>1
  <2> QED
    BY <2>1, <2>2, ShortSequences
<1> QED
  BY <1>1, <1>2, <1>3, <1>4

(* Concatenation of what the plans are made of.                            *)
LEMMA JoinNone ==
    ASSUME NEW a, NEW b
    PROVE  << >> \o << >> = << >> /\ << >> \o << a >> = << a >> /\ << a >> \o << >> = << a >>
           /\ << a, b >> \o << >> = << a, b >>
<1>1. /\ << a >> \in Seq({a}) /\ << >> \in Seq({a})
      /\ << a, b >> \in Seq({a, b}) /\ << >> \in Seq({a, b})
  OBVIOUS
<1> QED
  BY <1>1, ConcatEmptySeq

LEMMA JoinOne == ASSUME NEW a, NEW b PROVE << a >> \o << b >> = << a, b >>
<1> DEFINE p == << a >> \o << b >>
<1>1. << a >> \in Seq({a, b}) /\ << b >> \in Seq({a, b})
  OBVIOUS
<1>2. p \in Seq({a, b}) /\ Len(p) = 2 /\ p[1] = a /\ p[2] = b
  BY <1>1, ConcatProperties
<1> HIDE DEF p
<1>3. p = << p[1], p[2] >>
  BY <1>2
<1> QED
  BY <1>2, <1>3 DEF p

LEMMA JoinTwo == ASSUME NEW a, NEW b, NEW c PROVE << a, b >> \o << c >> = << a, b, c >>
<1> DEFINE p == << a, b >> \o << c >>
<1>1. << a, b >> \in Seq({a, b, c}) /\ << c >> \in Seq({a, b, c})
  OBVIOUS
<1>2. p \in Seq({a, b, c}) /\ Len(p) = 3 /\ p[1] = a /\ p[2] = b /\ p[3] = c
  BY <1>1, ConcatProperties
<1> HIDE DEF p
<1>3. p = << p[1], p[2], p[3] >>
  BY <1>2
<1> QED
  BY <1>2, <1>3 DEF p

-----------------------------------------------------------------------------
(* Declarations and steps.                                                 *)

LEMMA TierIsKnown == \A t \in Tiers : t \in AllTiers
  BY TiersAssumption

(* What is assumed of the declarations of each tier.                       *)
LEMMA DeclaredAs ==
    ASSUME NEW t \in Tiers, NEW v \in Versions
    PROVE  LET D == Declared(t, v) IN
           /\ t = "repository" => RepositorySettings(D) /\ ("security_and_analysis" \in DOMAIN D =>
                DOMAIN D["security_and_analysis"] \subseteq Names(t))
           /\ t = "security" => RepositorySecurity(D)
           /\ t \in ActionsTiers => ActionsSettings(D)
           /\ t \in LimitTiers => InteractionLimits(D)
           /\ t = "pages" => PagesConfig(D)
           /\ t = "code_scanning" => CodeScanningDefaultSetup(D)
           /\ t = "organization" => OrganizationSettings(D)
           /\ t = "org_code_security" => CodeSecurityConfiguration(D)
           /\ t = "org_custom_properties" => DOMAIN D \subseteq Names(t)
           /\ t = "branches" => IsList(D) /\ \A i \in DOMAIN D :
                BranchConfig(D[i]) /\ D[i].name \in Names(t) \cup {"default"}
           /\ t \in RulesetTiers => IsList(D) /\ \A i \in DOMAIN D :
                Ruleset(D[i]) /\ D[i].name \in Names(t)
<1> DEFINE D == Declared(t, v)
<1>1. Declarable(t, D)
  BY DeclaredAssumption
<1> HIDE DEF D
<1> USE DEF ActionsTiers, LimitTiers, RulesetTiers
<1>2. ASSUME t = "repository"
      PROVE  RepositorySettings(D) /\ ("security_and_analysis" \in DOMAIN D =>
        DOMAIN D["security_and_analysis"] \subseteq Names(t))
  BY <1>1, <1>2 DEF Declarable
<1>3. ASSUME t = "security" PROVE RepositorySecurity(D)
  BY <1>1, <1>3 DEF Declarable
<1>4. ASSUME t \in ActionsTiers PROVE ActionsSettings(D)
  BY <1>1, <1>4 DEF Declarable
<1>5. ASSUME t \in LimitTiers PROVE InteractionLimits(D)
  BY <1>1, <1>5 DEF Declarable
<1>6. ASSUME t = "pages" PROVE PagesConfig(D)
  BY <1>1, <1>6 DEF Declarable
<1>7. ASSUME t = "code_scanning" PROVE CodeScanningDefaultSetup(D)
  BY <1>1, <1>7 DEF Declarable
<1>8. ASSUME t = "organization" PROVE OrganizationSettings(D)
  BY <1>1, <1>8 DEF Declarable
<1>9. ASSUME t = "org_code_security" PROVE CodeSecurityConfiguration(D)
  BY <1>1, <1>9 DEF Declarable
<1>10. ASSUME t = "org_custom_properties" PROVE DOMAIN D \subseteq Names(t)
  BY <1>1, <1>10 DEF Declarable
<1>11. ASSUME t = "branches" PROVE IsList(D) /\ \A i \in DOMAIN D :
        BranchConfig(D[i]) /\ D[i].name \in Names(t) \cup {"default"}
  BY <1>1, <1>11 DEF Declarable
<1>12. ASSUME t \in RulesetTiers PROVE IsList(D) /\ \A i \in DOMAIN D :
        Ruleset(D[i]) /\ D[i].name \in Names(t)
  BY <1>1, <1>12 DEF Declarable
<1> QED
  BY <1>2, <1>3, <1>4, <1>5, <1>6, <1>7, <1>8, <1>9, <1>10, <1>11, <1>12 DEF D

(* A declared list is a sequence of at least one entry.                    *)
LEMMA ListTypes ==
    ASSUME NEW D, IsList(D)
    PROVE  Len(D) \in Nat \ {0} /\ DOMAIN D = 1 .. Len(D)
  BY DEF IsList

(* There is at least one step.                                             *)
LEMMA StepsPositive ==
    ASSUME NEW t \in Tiers, NEW v \in Versions
    PROVE  /\ Steps(t, Declared(t, v)) \in Nat \ {0}
           /\ t \in RulesetTiers \cup {"branches"} =>
                DOMAIN Declared(t, v) = 1 .. Steps(t, Declared(t, v))
<1>1. CASE t \in RulesetTiers \cup {"branches"}
  BY <1>1, DeclaredAs, ListTypes DEF Steps, RulesetTiers, ActionsTiers
<1>2. CASE t \notin RulesetTiers \cup {"branches"}
  BY <1>2 DEF Steps, Toggles, RulesetTiers
<1> QED
  BY <1>1, <1>2

-----------------------------------------------------------------------------
(* The plans, tier by tier.                                                *)

Single == AllTiers \ {"pages", "branches", "org_code_security"}

(* Most steps send one request or none.                                    *)
LEMMA SinglePlan ==
    ASSUME NEW t \in Tiers \cap Single, NEW D, NEW i, NEW names, NEW s
    PROVE  PlanOf(t, D, i, names, s) = << >> \/ \E r : PlanOf(t, D, i, names, s) = << r >>
<1>1. t \in {"repository", "organization", "org_custom_properties"} \/ t = "security"
      \/ t \in ActionsTiers \/ t \in LimitTiers \/ t = "code_scanning" \/ t \in RulesetTiers
  BY TierIsKnown DEF AllTiers, Single
<1>2. CASE t \in {"repository", "organization", "org_custom_properties"}
  <2>1. PatchPlan(D, s) = << >> \/ \E r : PatchPlan(D, s) = << r >>
    BY DEF PatchPlan
  <2> QED
    BY <1>2, <2>1 DEF PlanOf, RepositoryPlan, OrganizationPlan, DefinitionsPlan
<1>3. CASE t = "security"
  BY <1>3 DEF PlanOf, SecurityPlan
<1>4. CASE t \in ActionsTiers
  <2>1. PlanOf(t, D, i, names, s) = ActionsPlan(i, D, s)
    BY <1>4 DEF ActionsTiers, PlanOf, OrgActionsPlan
  <2>2. PermissionsPlan(D, s) = << >> \/ \E r : PermissionsPlan(D, s) = << r >>
    BY DEF PermissionsPlan
  <2>3. WorkflowPlan(D, s) = << >> \/ \E r : WorkflowPlan(D, s) = << r >>
    BY DEF WorkflowPlan
  <2> QED
    BY <2>1, <2>2, <2>3 DEF ActionsPlan
<1>5. CASE t \in LimitTiers
  BY <1>5 DEF LimitTiers, PlanOf, OrgInteractionLimitsPlan, InteractionLimitsPlan
<1>6. CASE t = "code_scanning"
  <2>1. PlanOf(t, D, i, names, s) = CodeScanningPlan(D, s)
    BY <1>6 DEF PlanOf
  <2> QED
    BY <2>1 DEF CodeScanningPlan
<1>7. CASE t \in RulesetTiers
  BY <1>7 DEF RulesetTiers, PlanOf, OrgRulesetPlan, RulesetPlan
<1> QED
  BY <1>1, <1>2, <1>3, <1>4, <1>5, <1>6, <1>7

(* A site that is there gets an update, a site that is not is created, and *)
(* then updated if it is to have a domain.                                 *)
LEMMA PagesPlanForm ==
    ASSUME NEW D, NEW i, NEW names, NEW s
    PROVE  LET p == PlanOf("pages", D, i, names, s)
               create == Request("create", Only(D, {"build_type", "source"}))
               extras == Request("update", Only(D, {"cname"}))
           IN  /\ s["site"] = Absent => p = IF "cname" \in DOMAIN D THEN << create, extras >>
                                            ELSE << create >>
               /\ s["site"] # Absent => p = IF Drift(D, s, DOMAIN D) = {} THEN << >>
                                            ELSE << Request("update", D) >>
<1>1. PlanOf("pages", D, i, names, s) = PagesPlan(D, s)
  BY DEF PlanOf
<1>2. DOMAIN Only(D, {"cname"}) = {} <=> "cname" \notin DOMAIN D
  BY DEF Only
<1> QED
  BY <1>1, <1>2, JoinNone, JoinOne DEF PagesPlan

(* The protection is put if it has to be, then the signatures are settled. *)
LEMMA BranchPlanForm ==
    ASSUME NEW b, NEW p, NEW actual
    PROVE  LET changed == CanonicalDesired(p) # CanonicalActual(actual)
               signed == actual # Absent /\ actual.signatures
               put == PutRequest(b, p)
               sign == BranchRequest(IF p.signatures THEN "sign" ELSE "unsign", b)
               toPut == changed \/ (p.signatures /\ actual = Absent)
           IN  /\ p = Absent => BranchPlan(b, p, actual) =
                     IF actual = Absent THEN << >> ELSE << BranchRequest("unprotect", b) >>
               /\ p # Absent => BranchPlan(b, p, actual) =
                     IF toPut THEN IF p.signatures = signed THEN << put >> ELSE << put, sign >>
                     ELSE IF p.signatures = signed THEN << >> ELSE << sign >>
  BY JoinNone, JoinOne DEF BranchPlan

(* A configuration that is written is attached and made the default.       *)
LEMMA CodeSecurityPlanForm ==
    ASSUME NEW D, NEW i, NEW names, NEW s
    PROVE  LET p == PlanOf("org_code_security", D, i, names, s)
               write == Request(IF s["config"] = Absent THEN "create" ELSE "update",
                                Only(D, {"config"}))
               attach == Request("attach", Only(D, {"attached"}))
               default == Request("default", Only(D, {"default"}))
           IN  /\ D["config"] = s["config"] => p = << >>
               /\ D["config"] # s["config"] => p =
                     IF "attached" \in DOMAIN D
                     THEN IF "default" \in DOMAIN D THEN << write, attach, default >>
                          ELSE << write, attach >>
                     ELSE IF "default" \in DOMAIN D THEN << write, default >> ELSE << write >>
<1>1. PlanOf("org_code_security", D, i, names, s) = CodeSecurityPlan(D, s)
  BY DEF PlanOf
<1> DEFINE write == Request(IF s["config"] = Absent THEN "create" ELSE "update",
                            Only(D, {"config"}))
           attach == Request("attach", Only(D, {"attached"}))
           default == Request("default", Only(D, {"default"}))
           first == IF "attached" \in DOMAIN D THEN << attach >> ELSE << >>
           second == IF "default" \in DOMAIN D THEN << default >> ELSE << >>
<1>2. CodeSecurityPlan(D, s) =
        IF D["config"] = s["config"] THEN << >> ELSE << write >> \o first \o second
  BY DEF CodeSecurityPlan
<1> HIDE DEF write, attach, default
<1>3. << write >> \o first = IF "attached" \in DOMAIN D THEN << write, attach >> ELSE << write >>
  BY JoinNone, JoinOne
<1>4. << write >> \o first \o second =
        IF "attached" \in DOMAIN D
        THEN IF "default" \in DOMAIN D THEN << write, attach, default >> ELSE << write, attach >>
        ELSE IF "default" \in DOMAIN D THEN << write, default >> ELSE << write >>
  BY <1>3, JoinNone, JoinOne, JoinTwo
<1> QED
  BY <1>1, <1>2, <1>4 DEF write, attach, default

-----------------------------------------------------------------------------
(* Types.                                                                  *)

(* What a run may have to send for tier t.                                 *)
ProperFor(t, r) ==
    CASE t = "branches" ->
            r.op \in {"put", "unprotect", "sign", "unsign"} /\ r.branch \in Names(t)
      [] t = "pages" -> "site" \notin DOMAIN r.set
      [] OTHER -> TRUE

(* The branch a declared name stands for is one there may be.              *)
LEMMA Resolved ==
    ASSUME "branches" \in Tiers, NEW v \in Versions, NEW s, Holdable("branches", s),
           NEW i \in DOMAIN Declared("branches", v)
    PROVE  LET d == Declared("branches", v)[i] IN
           /\ BranchConfig(d)
           /\ ResolveBranch(d.name, s["default_branch"]) \in Names("branches")
           /\ ResolveBranch(d.name, s["default_branch"]) \notin {"archived", "default_branch"}
<1>1. /\ BranchConfig(Declared("branches", v)[i])
      /\ Declared("branches", v)[i].name \in Names("branches") \cup {"default"}
  BY DeclaredAs
<1>2. s["default_branch"] \in Names("branches")
  BY DefaultBranchesAssumption DEF Holdable
<1> QED
  BY <1>1, <1>2, NamesAssumption DEF ResolveBranch

LEMMA PlanTyped ==
    ASSUME NEW t \in Tiers, NEW v \in Versions, NEW i \in 1 .. Steps(t, Declared(t, v)),
           NEW names, NEW s, Holdable(t, s)
    PROVE  LET p == PlanOf(t, Declared(t, v), i, names, s) IN
           Short(p) /\ \A k \in DOMAIN p : ProperFor(t, p[k])
<1> DEFINE D == Declared(t, v)
           p == PlanOf(t, D, i, names, s)
<1>1. CASE t \in Single
  <2>1. p = << >> \/ \E r : p = << r >>
    BY <1>1, SinglePlan
  <2>2. \A r : ProperFor(t, r)
    BY <1>1 DEF Single, ProperFor
  <2> QED
    BY <2>1, <2>2, ShortSequences
<1>2. CASE t = "pages"
  <2> DEFINE create == Request("create", Only(D, {"build_type", "source"}))
             extras == Request("update", Only(D, {"cname"}))
             update == Request("update", D)
  <2>1. p \in {<< >>, << create >>, << create, extras >>, << update >>}
    BY <1>2, PagesPlanForm
  <2>2. PagesConfig(D)
    BY <1>2, DeclaredAs
  <2>3. ProperFor(t, create) /\ ProperFor(t, extras) /\ ProperFor(t, update)
    BY <1>2, <2>2 DEF ProperFor, Request, Only, PagesConfig, Fields
  <2> HIDE DEF create, extras, update, p
  <2> QED
    BY <2>1, <2>3, ShortSequences DEF p
<1>3. CASE t = "branches"
  <2> DEFINE b == ResolveBranch(D[i].name, s["default_branch"])
             q == D[i].protection
  <2>1. i \in DOMAIN D
    BY <1>3, StepsPositive
  <2>2. b \in Names(t)
    BY <1>3, <2>1, Resolved
  <2>3. p = << >> \/ p = BranchPlan(b, q, s[b])
    BY <1>3 DEF PlanOf
  <2> HIDE DEF b, q, p
  <2> DEFINE put == PutRequest(b, q)
             bare == {BranchRequest(op, b) : op \in {"unprotect", "sign", "unsign"}}
  <2>4. p = << >> \/ \E r \in bare : p \in {<< r >>, << put >>, << put, r >>}
    BY <2>3, BranchPlanForm
  <2>5. ProperFor(t, put) /\ \A r \in bare : ProperFor(t, r)
    BY <1>3, <2>2 DEF ProperFor, PutRequest, BranchRequest
  <2> HIDE DEF put, bare
  <2>6. Short(p) /\ \A k \in DOMAIN p : ProperFor(t, p[k])
    BY <2>4, <2>5, ShortSequences
  <2> QED
    BY <2>6 DEF p
<1>4. CASE t = "org_code_security"
  <2>1. \A r : ProperFor(t, r)
    BY <1>4 DEF ProperFor
  <2>2. \/ p = << >>
        \/ \E a : p = << a >>
        \/ \E a, b : p = << a, b >>
        \/ \E a, b, c : p = << a, b, c >>
    BY <1>4, CodeSecurityPlanForm
  <2> HIDE DEF p
  <2>3. Short(p)
    BY <2>2, ShortSequences
  <2> QED
    BY <2>1, <2>3 DEF p
<1> QED
  BY <1>1, <1>2, <1>3, <1>4, TierIsKnown DEF Single

(* What GitHub makes of a request can be held.                             *)
LEMMA OutcomeHoldable ==
    ASSUME TypeOK, NEW r, Proper(r), Accepts(r)
    PROVE  Holdable(tier, Outcome(r))
<1>1. DOMAIN live = Keys(tier)
  BY DEF TypeOK, Holdable
<1>2. CASE tier \in RulesetTiers
  BY <1>1, <1>2 DEF Outcome, Holdable, RulesetTiers
<1>3. CASE tier = "branches"
  <2> DEFINE s == [live EXCEPT ![r.branch] = BranchWritten(r)]
  <2>1. Outcome(r) = s
    BY <1>3 DEF Outcome, RulesetTiers
  <2>2. r.branch \in Names(tier) /\ r.op \in {"put", "unprotect", "sign", "unsign"}
    BY <1>3 DEF Proper
  <2>3. r.op # "put" => live[r.branch] # Absent
    BY <1>3 DEF Accepts, RulesetTiers
  <2>4. r.branch \notin {"archived", "default_branch"}
    BY <2>2, <1>3, NamesAssumption DEF TypeOK
  <2>5. DOMAIN s = Keys(tier) /\ s["default_branch"] = live["default_branch"]
    BY <1>1, <1>3, <2>4 DEF Keys, ActionsTiers, LimitTiers
  <2>6. ASSUME NEW b \in Names(tier), s[b] # Absent
        PROVE  DOMAIN s[b] = {"rules", "restrictions", "signatures"} /\ s[b].signatures \in BOOLEAN
    <3>1. b \in DOMAIN live
      BY <1>1, <1>3 DEF Keys, ActionsTiers, LimitTiers
    <3>2. CASE b # r.branch
      <4>1. s[b] = live[b]
        BY <3>1, <3>2
      <4> QED
        BY <4>1, <2>6, <1>3 DEF TypeOK, Holdable
    <3>3. CASE b = r.branch
      <4>1. s[b] = BranchWritten(r)
        BY <3>1, <3>3
      <4>2. CASE r.op = "put"
        <5> DEFINE x == live[r.branch] # Absent /\ live[r.branch].signatures
        <5>1. s[b] = [rules |-> r.set.rules, restrictions |-> r.set.restrictions, signatures |-> x]
          BY <4>1, <4>2 DEF BranchWritten
        <5>2. x \in BOOLEAN
          OBVIOUS
        <5> HIDE DEF x, s
        <5> QED
          BY <5>1, <5>2
      <4>3. CASE r.op = "unprotect"
        BY <4>1, <4>3, <2>6 DEF BranchWritten
      <4>4. CASE r.op \in {"sign", "unsign"}
        <5>1. DOMAIN live[b] = {"rules", "restrictions", "signatures"}
          BY <4>4, <2>3, <3>3, <1>3 DEF TypeOK, Holdable
        <5>2. s[b] = [live[b] EXCEPT !.signatures = (r.op = "sign")]
          BY <4>1, <4>4, <3>3 DEF BranchWritten
        <5> QED
          BY <5>1, <5>2
      <4> QED
        BY <2>2, <4>2, <4>3, <4>4
    <3> QED
      BY <3>2, <3>3
  <2> QED
    BY <1>3, <2>1, <2>5, <2>6 DEF TypeOK, Holdable
<1>4. CASE tier \notin RulesetTiers \cup {"branches"}
  <2>1. DOMAIN Patched(r) = Keys(tier)
    BY <1>1 DEF Patched
  <2>2. DOMAIN Settled(Patched(r)) = Keys(tier)
    BY <2>1 DEF Settled
  <2>3. CASE tier = "repository"
    <3>1. Outcome(r) = Patched(r)
      BY <2>3 DEF Outcome, Settled, RulesetTiers, ActionsTiers
    <3> DEFINE f == "security_and_analysis"
    <3>2. f \in DOMAIN live /\ live[f] = [k \in Names(tier) |-> live[f][k]]
      BY <1>1, <2>3 DEF TypeOK, Holdable, Keys, ActionsTiers, LimitTiers
    <3>3. Patched(r)[f] = IF f \in DOMAIN r.set THEN Merged(f, live[f], r.set[f]) ELSE live[f]
      BY <3>2 DEF Patched
    <3>4. Patched(r)[f] = [k \in Names(tier) |-> Patched(r)[f][k]]
      <4>1. CASE f \in DOMAIN r.set
        <5> DEFINE have == live[f]
                   want == r.set[f]
                   now == [k \in DOMAIN have |-> IF k \in DOMAIN want THEN want[k] ELSE have[k]]
        <5>1. Patched(r)[f] = now
          BY <3>3, <4>1 DEF Merged
        <5>2. DOMAIN have = Names(tier)
          BY <3>2
        <5> HIDE DEF have, want
        <5>3. now = [k \in Names(tier) |-> now[k]]
          BY <5>2
        <5> QED
          BY <5>1, <5>3
      <4>2. CASE f \notin DOMAIN r.set
        BY <3>2, <3>3, <4>2
      <4> QED
        BY <4>1, <4>2
    <3> QED
      BY <2>1, <2>3, <3>1, <3>4 DEF Holdable
  <2>4. CASE tier = "pages"
    <3>1. Patched(r)["site"] = live["site"] /\ live["site"] \in {On, Absent}
      BY <1>1, <2>4 DEF Patched, Proper, Keys, ActionsTiers, LimitTiers, TypeOK, Holdable
    <3>2. Outcome(r) \in {Patched(r), [Patched(r) EXCEPT !["site"] = On]}
      BY <2>4 DEF Outcome, Settled, RulesetTiers, ActionsTiers
    <3>3. Outcome(r)["site"] \in {On, Absent} /\ DOMAIN Outcome(r) = Keys(tier)
      <4>1. "site" \in DOMAIN Patched(r)
        BY <2>1, <2>4 DEF Keys, ActionsTiers, LimitTiers
      <4> HIDE DEF Patched
      <4> QED
        BY <2>1, <3>1, <3>2, <4>1
    <3> QED
      BY <2>4, <3>3 DEF Holdable
  <2>5. CASE tier \notin {"repository", "pages"}
    BY <1>4, <2>2, <2>5 DEF Outcome, Holdable
  <2> QED
    BY <2>3, <2>4, <2>5
<1> QED
  BY <1>2, <1>3, <1>4

(* What TypeOK says of the plan of each run.                               *)
LEMMA PlanTypes ==
    TypeOK =>
        \A w \in Workers :
            /\ Short(plan[w])
            /\ \A k \in DOMAIN plan[w] : Proper(plan[w][k])
            /\ pc[w] = "send" <=> plan[w] # << >>
            /\ pc[w] \in {"read", "send"} =>
                 step[w] \in 1 .. Steps(tier, Declared(tier, cfg[w]))
  BY DEF TypeOK, Short

(* The other way round, for the next state.                                *)
LEMMA PlanTypesNext ==
    ASSUME TypeOK, tier' = tier, version' \in Versions, Holdable(tier, live)',
           pc' \in [Workers -> {"idle", "read", "send", "done", "failed"}],
           cfg' \in [Workers -> Versions], step' \in [Workers -> Nat],
           listed' \in [Workers -> SUBSET Keys(tier)], DOMAIN plan' = Workers,
           quiet' \in [Workers -> BOOLEAN], disturbances' \in 0 .. MaxDisturbances,
           \A w \in Workers :
               /\ Short(plan'[w])
               /\ \A k \in DOMAIN plan'[w] : ProperFor(tier, plan'[w][k])
               /\ pc'[w] = "send" <=> plan'[w] # << >>
               /\ pc'[w] \in {"read", "send"} =>
                    step'[w] \in 1 .. Steps(tier, Declared(tier, cfg'[w]))
    PROVE  TypeOK'
  BY DEF TypeOK, Short, ProperFor, Proper

(* A run that has nothing more to send goes to a step there is, or ends.   *)
LEMMA AdvanceTypes ==
    ASSUME TypeOK, NEW w \in Workers, pc[w] \in {"read", "send"}, Advance(w)
    PROVE  /\ pc' \in [Workers -> {"idle", "read", "send", "done", "failed"}]
           /\ step' \in [Workers -> Nat]
           /\ pc'[w] \in {"read", "done"}
           /\ pc'[w] = "read" => step'[w] \in 1 .. Steps(tier, Declared(tier, cfg[w]))
           /\ \A x \in Workers \ {w} : pc'[x] = pc[x] /\ step'[x] = step[x]
<1>1. Steps(tier, Declared(tier, cfg[w])) \in Nat \ {0}
  BY StepsPositive DEF TypeOK
<1>2. step[w] \in 1 .. Steps(tier, Declared(tier, cfg[w]))
  BY DEF TypeOK
<1>3. pc \in [Workers -> {"idle", "read", "send", "done", "failed"}] /\ step \in [Workers -> Nat]
  BY DEF TypeOK
<1>4. CASE step[w] < Steps(tier, Declared(tier, cfg[w]))
  <2>1. pc' = [pc EXCEPT ![w] = "read"] /\ step' = [step EXCEPT ![w] = step[w] + 1]
    BY <1>4 DEF Advance
  <2>2. step[w] + 1 \in 1 .. Steps(tier, Declared(tier, cfg[w])) /\ step[w] + 1 \in Nat
    BY <1>1, <1>2, <1>4
  <2>3. pc'[w] = "read" /\ step'[w] = step[w] + 1
    BY <1>3, <2>1
  <2>4. \A x \in Workers \ {w} : pc'[x] = pc[x] /\ step'[x] = step[x]
    BY <1>3, <2>1
  <2>5. /\ step' \in [Workers -> Nat]
        /\ pc' \in [Workers -> {"idle", "read", "send", "done", "failed"}]
    BY <1>3, <2>1, <2>2
  <2> QED
    BY <2>2, <2>3, <2>4, <2>5
<1>5. CASE ~(step[w] < Steps(tier, Declared(tier, cfg[w])))
  <2>1. pc' = [pc EXCEPT ![w] = "done"] /\ step' = step
    BY <1>5 DEF Advance
  <2> QED
    BY <1>3, <2>1
<1> QED
  BY <1>4, <1>5

LEMMA ReadTypes ==
    ASSUME TypeOK, NEW w \in Workers, Read(w)
    PROVE  TypeOK'
<1> DEFINE requests == PlanOf(tier, Declared(tier, cfg[w]), step[w], listed[w], live)
<1>1. pc[w] = "read" /\ plan' = [plan EXCEPT ![w] = requests]
      /\ UNCHANGED << tier, version, live, cfg, listed, quiet, disturbances >>
  BY DEF Read
<1>2. step[w] \in 1 .. Steps(tier, Declared(tier, cfg[w]))
  BY <1>1 DEF TypeOK
<1>3. Short(requests) /\ \A k \in DOMAIN requests : ProperFor(tier, requests[k])
  BY <1>2, PlanTyped DEF TypeOK
<1>4. /\ pc' \in [Workers -> {"idle", "read", "send", "done", "failed"}]
      /\ step' \in [Workers -> Nat]
      /\ pc'[w] = "send" <=> requests # << >>
      /\ pc'[w] \in {"read", "send"} => step'[w] \in 1 .. Steps(tier, Declared(tier, cfg[w]))
      /\ \A x \in Workers \ {w} : pc'[x] = pc[x] /\ step'[x] = step[x]
  <2>1. CASE requests = << >>
    BY <1>1, <2>1, AdvanceTypes DEF Read
  <2>2. CASE requests # << >>
    BY <1>1, <1>2, <2>2 DEF Read, TypeOK
  <2> QED
    BY <2>1, <2>2
<1>5. plan'[w] = requests /\ \A x \in Workers \ {w} : plan'[x] = plan[x]
  BY <1>1 DEF TypeOK
<1> HIDE DEF requests
<1>6. ASSUME NEW x \in Workers
      PROVE  /\ Short(plan'[x])
             /\ \A k \in DOMAIN plan'[x] : ProperFor(tier, plan'[x][k])
             /\ pc'[x] = "send" <=> plan'[x] # << >>
             /\ pc'[x] \in {"read", "send"} =>
                    step'[x] \in 1 .. Steps(tier, Declared(tier, cfg'[x]))
  <2>1. CASE x = w
    BY <1>1, <1>3, <1>4, <1>5, <2>1
  <2>2. CASE x # w
    BY <1>1, <1>4, <1>5, <2>2, PlanTypes DEF Proper, ProperFor
  <2> QED
    BY <2>1, <2>2
<1>7. DOMAIN plan' = Workers
  BY <1>1 DEF TypeOK
<1> QED
  BY <1>1, <1>4, <1>6, <1>7, PlanTypesNext DEF TypeOK

LEMMA SendTypes ==
    ASSUME TypeOK, NEW w \in Workers, Send(w)
    PROVE  TypeOK'
<1>1. /\ pc[w] = "send" /\ Accepts(Head(plan[w])) /\ live' = Outcome(Head(plan[w]))
      /\ plan' = [plan EXCEPT ![w] = Tail(@)]
      /\ quiet' = [x \in Workers |-> x = w /\ quiet[x]]
      /\ UNCHANGED << tier, version, cfg, listed, disturbances >>
  BY DEF Send
<1>2. plan[w] # << >> /\ Short(plan[w])
  BY <1>1, PlanTypes
<1>3. Proper(Head(plan[w]))
  BY <1>2, ShortTail, PlanTypes
<1>4. Holdable(tier, live')
  BY <1>1, <1>3, OutcomeHoldable
<1>5. plan'[w] = Tail(plan[w]) /\ \A x \in Workers \ {w} : plan'[x] = plan[x]
  BY <1>1 DEF TypeOK
<1>6. Short(plan'[w]) /\ \A k \in DOMAIN plan'[w] : Proper(plan'[w][k])
  BY <1>2, <1>5, ShortTail, PlanTypes
<1>7. /\ pc' \in [Workers -> {"idle", "read", "send", "done", "failed"}]
      /\ step' \in [Workers -> Nat]
      /\ pc'[w] = "send" <=> plan'[w] # << >>
      /\ pc'[w] \in {"read", "send"} => step'[w] \in 1 .. Steps(tier, Declared(tier, cfg[w]))
      /\ \A x \in Workers \ {w} : pc'[x] = pc[x] /\ step'[x] = step[x]
  <2>1. CASE Len(plan[w]) = 1
    BY <1>1, <1>2, <1>5, <2>1, AdvanceTypes, ShortTail DEF Send
  <2>2. CASE Len(plan[w]) # 1
    BY <1>1, <1>2, <1>5, <2>2, ShortTail DEF Send, TypeOK
  <2> QED
    BY <2>1, <2>2
<1>8. ASSUME NEW x \in Workers
      PROVE  /\ Short(plan'[x])
             /\ \A k \in DOMAIN plan'[x] : ProperFor(tier, plan'[x][k])
             /\ pc'[x] = "send" <=> plan'[x] # << >>
             /\ pc'[x] \in {"read", "send"} =>
                    step'[x] \in 1 .. Steps(tier, Declared(tier, cfg'[x]))
  <2>1. CASE x = w
    BY <1>1, <1>6, <1>7, <2>1 DEF Proper, ProperFor
  <2>2. CASE x # w
    BY <1>1, <1>5, <1>7, <2>2, PlanTypes DEF Proper, ProperFor
  <2> QED
    BY <2>1, <2>2
<1>9. DOMAIN plan' = Workers /\ quiet' \in [Workers -> BOOLEAN]
  BY <1>1 DEF TypeOK
<1>10. Holdable(tier, live)'
  BY <1>1, <1>4
<1> QED
  BY <1>1, <1>7, <1>8, <1>9, <1>10, PlanTypesNext DEF TypeOK

(* A run that ends early drops its plan.                                   *)
LEMMA EndTypes ==
    ASSUME TypeOK, NEW w \in Workers, NEW at \in {"idle", "failed"},
           pc' = [pc EXCEPT ![w] = at], plan' = [plan EXCEPT ![w] = << >>],
           UNCHANGED << tier, version, live, cfg, step, listed, quiet >>,
           disturbances' \in 0 .. MaxDisturbances
    PROVE  TypeOK'
<1>1. ASSUME NEW x \in Workers
      PROVE  /\ Short(plan'[x])
             /\ \A k \in DOMAIN plan'[x] : ProperFor(tier, plan'[x][k])
             /\ pc'[x] = "send" <=> plan'[x] # << >>
             /\ pc'[x] \in {"read", "send"} =>
                    step'[x] \in 1 .. Steps(tier, Declared(tier, cfg'[x]))
  <2>1. CASE x = w
    <3>1. plan'[x] = << >> /\ pc'[x] = at
      BY <2>1 DEF TypeOK
    <3> QED
      BY <3>1, ShortSequences
  <2>2. CASE x # w
    <3>1. plan'[x] = plan[x] /\ pc'[x] = pc[x]
      BY <2>2 DEF TypeOK
    <3> QED
      BY <3>1, PlanTypes DEF Proper, ProperFor
  <2> QED
    BY <2>1, <2>2
<1>2. Holdable(tier, live)' /\ DOMAIN plan' = Workers
  BY DEF TypeOK
<1> QED
  BY <1>1, <1>2, PlanTypesNext DEF TypeOK

(* A step that leaves the runs alone.                                      *)
LEMMA RunsAlone ==
    ASSUME TypeOK, UNCHANGED << tier, pc, cfg, step, listed, plan >>, version' \in Versions,
           Holdable(tier, live'), quiet' \in [Workers -> BOOLEAN],
           disturbances' \in 0 .. MaxDisturbances
    PROVE  TypeOK'
<1>1. ASSUME NEW x \in Workers
      PROVE  /\ Short(plan'[x])
             /\ \A k \in DOMAIN plan'[x] : ProperFor(tier, plan'[x][k])
             /\ pc'[x] = "send" <=> plan'[x] # << >>
             /\ pc'[x] \in {"read", "send"} =>
                    step'[x] \in 1 .. Steps(tier, Declared(tier, cfg'[x]))
  <2>1. pc'[x] = pc[x] /\ plan'[x] = plan[x] /\ step'[x] = step[x] /\ cfg'[x] = cfg[x]
    OBVIOUS
  <2> QED
    BY <2>1, PlanTypes DEF Proper, ProperFor
<1>2. Holdable(tier, live)'
  OBVIOUS
<1>3. /\ pc' \in [Workers -> {"idle", "read", "send", "done", "failed"}]
      /\ cfg' \in [Workers -> Versions] /\ step' \in [Workers -> Nat]
      /\ listed' \in [Workers -> SUBSET Keys(tier)] /\ DOMAIN plan' = Workers
  BY DEF TypeOK
<1> QED
  BY <1>1, <1>2, <1>3, PlanTypesNext

LEMMA TypeStep ==
    ASSUME TypeOK, [Next]_vars
    PROVE  TypeOK'
<1>1. CASE ChangeConfig
  <2>1. version' \in Versions
    BY <1>1, BoundsAssumption DEF ChangeConfig, TypeOK, Versions
  <2> QED
    BY <1>1, <2>1, RunsAlone DEF ChangeConfig, NobodyQuiet, TypeOK
<1>2. CASE \E s \in States(tier) : Edit(s)
  <2>1. PICK s \in States(tier) : Edit(s)
    BY <1>2
  <2>2. Holdable(tier, s)
    BY StatesAssumption DEF TypeOK
  <2>3. Holdable(tier, live)' /\ disturbances' \in 0 .. MaxDisturbances
        /\ quiet' \in [Workers -> BOOLEAN]
    BY <2>1, <2>2, BoundsAssumption DEF Edit, Disturb, NobodyQuiet, TypeOK
  <2> QED
    BY <2>1, <2>2, <2>3, RunsAlone DEF Edit, TypeOK
<1>3. ASSUME NEW w \in Workers, Start(w) PROVE TypeOK'
  <2>1. plan[w] = << >> /\ cfg'[w] = version /\ step'[w] = 1 /\ pc'[w] = "read"
    BY <1>3 DEF Start, TypeOK
  <2>2. 1 \in 1 .. Steps(tier, Declared(tier, version))
    BY StepsPositive DEF TypeOK
  <2>3. Listing \subseteq Keys(tier)
    BY DEF Listing, TypeOK, Holdable
  <2>4. ASSUME NEW x \in Workers
        PROVE  /\ Short(plan'[x])
               /\ \A k \in DOMAIN plan'[x] : ProperFor(tier, plan'[x][k])
               /\ pc'[x] = "send" <=> plan'[x] # << >>
               /\ pc'[x] \in {"read", "send"} =>
                      step'[x] \in 1 .. Steps(tier, Declared(tier, cfg'[x]))
    <3>1. plan'[x] = plan[x]
      BY <1>3 DEF Start
    <3>2. CASE x = w
      BY <2>1, <2>2, <3>1, <3>2, <1>3, PlanTypes DEF Proper, ProperFor, Start
    <3>3. CASE x # w
      <4>1. pc'[x] = pc[x] /\ cfg'[x] = cfg[x] /\ step'[x] = step[x]
        BY <1>3, <3>3 DEF Start, TypeOK
      <4> QED
        BY <3>1, <4>1, PlanTypes DEF Proper, ProperFor
    <3> QED
      BY <3>2, <3>3
  <2>5. /\ Holdable(tier, live)' /\ tier' = tier /\ version' \in Versions /\ DOMAIN plan' = Workers
        /\ disturbances' \in 0 .. MaxDisturbances
    BY <1>3 DEF Start, TypeOK
  <2>6. /\ pc' \in [Workers -> {"idle", "read", "send", "done", "failed"}]
        /\ cfg' \in [Workers -> Versions] /\ step' \in [Workers -> Nat]
        /\ listed' \in [Workers -> SUBSET Keys(tier)] /\ quiet' \in [Workers -> BOOLEAN]
    BY <1>3, <2>3 DEF Start, TypeOK
  <2> QED
    BY <2>4, <2>5, <2>6, PlanTypesNext
<1>4. ASSUME NEW w \in Workers, Refused(w) PROVE TypeOK'
  BY <1>4, EndTypes DEF Refused, TypeOK
<1>5. ASSUME NEW w \in Workers, Fail(w) PROVE TypeOK'
  <2>1. disturbances' \in 0 .. MaxDisturbances
    BY <1>5, BoundsAssumption DEF Fail, Disturb, TypeOK
  <2> QED
    BY <1>5, <2>1, EndTypes DEF Fail
<1>6. CASE UNCHANGED vars
  BY <1>6, RunsAlone DEF vars, TypeOK
<1> QED
  BY <1>1, <1>2, <1>3, <1>4, <1>5, <1>6, ReadTypes, SendTypes DEF Next

(* Every variable keeps its type: what GitHub holds stays what it can      *)
(* hold, and what a run has still to send is proper for its tier.          *)
THEOREM TypeCorrect == Spec => []TypeOK
<1>1. Init => TypeOK
  <2> SUFFICES ASSUME Init PROVE TypeOK
    OBVIOUS
  <2>1. Holdable(tier, live)
    BY StatesAssumption DEF Init
  <2>2. \A w \in Workers : plan[w] = << >> /\ pc[w] = "idle"
    BY DEF Init
  <2> QED
    BY <2>1, <2>2, BoundsAssumption, ShortSequences DEF Init, TypeOK, Versions, Short
<1>2. TypeOK /\ [Next]_vars => TypeOK'
  BY TypeStep
<1> QED
  BY <1>1, <1>2, PTL DEF Spec

-----------------------------------------------------------------------------
(* A plan is empty where there is nothing to do, and only there.           *)

PatchTiers == {"repository", "organization", "org_custom_properties"}

LEMMA TierCases ==
    ASSUME NEW t \in Tiers
    PROVE  \/ t \in PatchTiers \/ t = "security" \/ t \in ActionsTiers \/ t \in LimitTiers
           \/ t = "pages" \/ t = "code_scanning" \/ t = "org_code_security"
           \/ t = "branches" \/ t \in RulesetTiers
  BY TierIsKnown DEF AllTiers, PatchTiers

(* The operators of the tiers, one case at a time.                         *)
LEMMA PlanIs ==
    ASSUME NEW t, NEW D, NEW i, NEW names, NEW s
    PROVE  LET p == PlanOf(t, D, i, names, s) IN
           /\ t \in PatchTiers =>
                p = IF t = "repository" /\ s["archived"] = On THEN << >> ELSE PatchPlan(D, s)
           /\ t = "security" => p = SecurityPlan(Toggles[i], D, s)
           /\ t \in ActionsTiers => p = ActionsPlan(i, D, s)
           /\ t \in LimitTiers => p = InteractionLimitsPlan(D, s)
           /\ t = "code_scanning" => p = CodeScanningPlan(D, s)
           /\ t = "branches" => p =
                LET b == ResolveBranch(D[i].name, s["default_branch"]) IN
                IF s["archived"] = On THEN << >> ELSE BranchPlan(b, D[i].protection, s[b])
           /\ t \in RulesetTiers => p = RulesetPlan(D[i], names, s[D[i].name])
<1> USE DEF PlanOf, PatchTiers, ActionsTiers, LimitTiers, RulesetTiers
<1> DEFINE p == PlanOf(t, D, i, names, s)
<1>1. t \in PatchTiers =>
        p = IF t = "repository" /\ s["archived"] = On THEN << >> ELSE PatchPlan(D, s)
  BY DEF RepositoryPlan, OrganizationPlan, DefinitionsPlan
<1>2. t = "security" => p = SecurityPlan(Toggles[i], D, s)
  OBVIOUS
<1>3. t \in ActionsTiers => p = ActionsPlan(i, D, s)
  BY DEF OrgActionsPlan
<1>4. t \in LimitTiers => p = InteractionLimitsPlan(D, s)
  BY DEF OrgInteractionLimitsPlan
<1>5. t = "code_scanning" => p = CodeScanningPlan(D, s)
  OBVIOUS
<1>6. t = "branches" => p =
        LET b == ResolveBranch(D[i].name, s["default_branch"]) IN
        IF s["archived"] = On THEN << >> ELSE BranchPlan(b, D[i].protection, s[b])
  OBVIOUS
<1>7. t \in RulesetTiers => p = RulesetPlan(D[i], names, s[D[i].name])
  BY DEF OrgRulesetPlan
<1> HIDE DEF p
<1> QED
  BY <1>1, <1>2, <1>3, <1>4, <1>5, <1>6, <1>7 DEF p

LEMMA StepIs ==
    ASSUME NEW t, NEW D, NEW i, NEW s
    PROVE  LET m == StepMatches(t, D, i, s) IN
           /\ t \in PatchTiers \cup LimitTiers => (m <=> FlatMatches(D, s))
           /\ t = "security" => (m <=> (Toggles[i] \in DOMAIN D => s[Toggles[i]] = D[Toggles[i]]))
           /\ t \in ActionsTiers => (m <=>
                Drift(D, s, IF i = 1 THEN {"enabled", "allowed_actions"}
                            ELSE {"workflow_permissions", "can_approve"}) = {})
           /\ t = "pages" => (m <=> (s["site"] = On /\ FlatMatches(D, s)))
           /\ t = "code_scanning" =>
                (m <=> (D["state"] = s["state"] /\ (D["state"] = On => FlatMatches(D, s))))
           /\ t = "org_code_security" => (m <=> D["config"] = s["config"])
           /\ t = "branches" => (m <=>
                BranchMatches(D[i].protection, s[ResolveBranch(D[i].name, s["default_branch"])]))
           /\ t \in RulesetTiers => (m <=> RulesetMatches(D[i], s[D[i].name]))
<1> USE DEF StepMatches, PatchTiers, ActionsTiers, LimitTiers, RulesetTiers
<1> DEFINE m == StepMatches(t, D, i, s)
<1>1. t \in PatchTiers \cup LimitTiers => (m <=> FlatMatches(D, s))
  OBVIOUS
<1>2. t = "security" => (m <=> (Toggles[i] \in DOMAIN D => s[Toggles[i]] = D[Toggles[i]]))
  OBVIOUS
<1>3. t \in ActionsTiers => (m <=>
        Drift(D, s, IF i = 1 THEN {"enabled", "allowed_actions"}
                    ELSE {"workflow_permissions", "can_approve"}) = {})
  OBVIOUS
<1>4. t = "pages" => (m <=> (s["site"] = On /\ FlatMatches(D, s)))
  OBVIOUS
<1>5. t = "code_scanning" =>
        (m <=> (D["state"] = s["state"] /\ (D["state"] = On => FlatMatches(D, s))))
  OBVIOUS
<1>6. t = "org_code_security" => (m <=> D["config"] = s["config"])
  OBVIOUS
<1>7. t = "branches" => (m <=>
        BranchMatches(D[i].protection, s[ResolveBranch(D[i].name, s["default_branch"])]))
  OBVIOUS
<1>8. t \in RulesetTiers => (m <=> RulesetMatches(D[i], s[D[i].name]))
  OBVIOUS
<1> HIDE DEF m
<1> QED
  BY <1>1, <1>2, <1>3, <1>4, <1>5, <1>6, <1>7, <1>8 DEF m

(* Of nested objects only the repository block has one.                    *)
LEMMA FlatFields ==
    ASSUME NEW t \in Tiers, NEW v \in Versions,
           t \notin {"repository", "branches"} \cup RulesetTiers
    PROVE  /\ "security_and_analysis" \notin DOMAIN Declared(t, v)
           /\ \A s : FlatMatches(Declared(t, v), s) <=>
                \A f \in DOMAIN Declared(t, v) : s[f] = Declared(t, v)[f]
<1> DEFINE D == Declared(t, v)
<1>1. \/ t = "organization" \/ t = "org_custom_properties" \/ t = "security" \/ t \in ActionsTiers
      \/ t \in LimitTiers \/ t = "pages" \/ t = "code_scanning" \/ t = "org_code_security"
  BY TierCases DEF PatchTiers
<1>2. "security_and_analysis" \notin DOMAIN D
  <2>1. CASE t = "org_custom_properties"
    BY <2>1, DeclaredAs, NamesAssumption
  <2>2. CASE t # "org_custom_properties"
    BY <1>1, <2>2, DeclaredAs
       DEF OrganizationSettings, RepositorySecurity, ActionsSettings, InteractionLimits,
           PagesConfig, CodeScanningDefaultSetup, CodeSecurityConfiguration, Fields
  <2> QED
    BY <2>1, <2>2
<1> HIDE DEF D
<1>3. \A s : FlatMatches(D, s) <=> \A f \in DOMAIN D : s[f] = D[f]
  BY <1>2 DEF FlatMatches, FieldMatches
<1> QED
  BY <1>2, <1>3 DEF D

(* What a ruleset is compared by.                                          *)
LEMMA DriftIsMismatch ==
    ASSUME NEW d, NEW actual, Ruleset(d), actual # Absent
    PROVE  HasDrift(d, actual) <=> ~RulesetMatches(d, actual)
  BY DEF Ruleset, HasDrift, RulesetMatches, EachMatched, SubsetMatch, UnexpectedBypassActors

(* What a protection is compared by.                                       *)
LEMMA NothingToProtect ==
    ASSUME NEW b, NEW p, NEW actual,
           actual # Absent => actual.signatures \in BOOLEAN,
           p # Absent => p.signatures \in BOOLEAN
    PROVE  /\ BranchPlan(b, p, actual) = << >> => BranchMatches(p, actual)
           /\ BranchMatches(p, actual) /\ (p # Absent => p.restrictions # Unset) =>
                BranchPlan(b, p, actual) = << >>
<1>1. CASE p = Absent
  BY <1>1, BranchPlanForm DEF BranchMatches
<1>2. CASE p # Absent
  <2> DEFINE signed == actual # Absent /\ actual.signatures
  <2>1. BranchPlan(b, p, actual) = << >> <=>
            /\ CanonicalDesired(p) = CanonicalActual(actual)
            /\ ~(p.signatures /\ actual = Absent)
            /\ p.signatures = signed
    BY <1>2, BranchPlanForm
  <2>2. CanonicalDesired(p) = CanonicalActual(actual) <=>
            /\ p.rules = CanonicalActual(actual).rules
            /\ CanonicalActual(actual).restrictions =
                 IF p.restrictions = Unset THEN Unrestricted ELSE p.restrictions
    BY DEF CanonicalDesired, CanonicalActual
  <2>3. CanonicalActual(actual).rules = IF actual = Absent THEN AllOff ELSE actual.rules
    BY DEF CanonicalActual
  <2> QED
    BY <1>2, <2>1, <2>2, <2>3 DEF BranchMatches
<1> QED
  BY <1>1, <1>2

LEMMA NothingDiffers ==
    ASSUME NEW D, NEW s, NEW fields
    PROVE  Drift(D, s, fields) = {} <=> \A f \in fields \cap DOMAIN D : D[f] = s[f]
  BY DEF Drift

(* Where a plan is empty, its step is done, or the repository archived.    *)
LEMMA EmptyPlan ==
    ASSUME NEW t \in Tiers, NEW v \in Versions, NEW i \in 1 .. Steps(t, Declared(t, v)),
           NEW names, NEW s, Holdable(t, s),
           t \in RulesetTiers =>
             LET n == Declared(t, v)[i].name IN n \in names <=> s[n] # Absent,
           PlanOf(t, Declared(t, v), i, names, s) = << >>
    PROVE  \/ t \in {"repository", "branches"} /\ s["archived"] = On
           \/ StepMatches(t, Declared(t, v), i, s)
<1> DEFINE D == Declared(t, v)
<1>1. CASE t \in PatchTiers
  <2>1. ASSUME PatchPlan(D, s) = << >> PROVE FlatMatches(D, s)
    <3>1. \A f \in DOMAIN D : D[f] = s[f]
      BY <2>1 DEF PatchPlan, CompareDeep, Only, Drift
    <3> QED
      BY <3>1 DEF FlatMatches, FieldMatches
  <2> QED
    BY <1>1, <2>1, PlanIs, StepIs
<1>2. CASE t = "security"
  <2>1. SecurityPlan(Toggles[i], D, s) = << >>
    BY <1>2, PlanIs
  <2>2. Drift(D, s, {Toggles[i]}) = {}
    BY <2>1 DEF SecurityPlan
  <2> QED
    BY <1>2, <2>2, StepIs, NothingDiffers
<1>3. CASE t \in ActionsTiers
  <2>1. i \in {1, 2}
    <3>1. Steps(t, D) = 2
      <4>1. t \in ActionsTiers /\ t \notin RulesetTiers \cup {"branches", "security"}
        BY <1>3 DEF ActionsTiers, RulesetTiers
      <4> QED
        BY <4>1 DEF Steps
    <3> QED
      BY <3>1
  <2>2. ActionsPlan(i, D, s) = << >>
    BY <1>3, PlanIs
  <2>3. CASE i = 1
    BY <1>3, <2>2, <2>3, StepIs DEF ActionsPlan, PermissionsPlan
  <2>4. CASE i = 2
    BY <1>3, <2>2, <2>4, StepIs DEF ActionsPlan, WorkflowPlan
  <2> QED
    BY <2>1, <2>3, <2>4
<1>4. CASE t \in LimitTiers
  <2>1. D["limit"] = s["limit"]
    BY <1>4, PlanIs DEF InteractionLimitsPlan
  <2>2. DOMAIN D = {"limit"}
    BY <1>4, DeclaredAs DEF InteractionLimits, Fields
  <2> QED
    BY <1>4, <2>1, <2>2, StepIs DEF FlatMatches, FieldMatches
<1>5. CASE t = "pages"
  <2>1. s["site"] # Absent /\ Drift(D, s, DOMAIN D) = {}
    BY <1>5, PagesPlanForm
  <2>2. s["site"] = On
    BY <1>5, <2>1 DEF Holdable
  <2>3. FlatMatches(D, s)
    BY <2>1, NothingDiffers DEF FlatMatches, FieldMatches
  <2> QED
    BY <1>5, <2>2, <2>3, StepIs
<1>6. CASE t = "code_scanning"
  <2>1. Drift(D, s, IF D["state"] = On THEN DOMAIN D ELSE {"state"}) = {}
    BY <1>6, PlanIs DEF CodeScanningPlan
  <2>2. "state" \in DOMAIN D
    BY <1>6, DeclaredAs DEF CodeScanningDefaultSetup, Fields
  <2>3. D["state"] = s["state"] /\ (D["state"] = On => FlatMatches(D, s))
    BY <2>1, <2>2, NothingDiffers DEF FlatMatches, FieldMatches
  <2> QED
    BY <1>6, <2>3, StepIs
<1>7. CASE t = "org_code_security"
  BY <1>7, CodeSecurityPlanForm, StepIs
<1>8. CASE t = "branches"
  <2> DEFINE b == ResolveBranch(D[i].name, s["default_branch"])
             q == D[i].protection
  <2>1. i \in DOMAIN D
    BY <1>8, StepsPositive
  <2>2. BranchConfig(D[i]) /\ b \in Names(t)
    BY <1>8, <2>1, Resolved
  <2>3. /\ s[b] # Absent => s[b].signatures \in BOOLEAN
        /\ q # Absent => q.signatures \in BOOLEAN
    BY <1>8, <2>2 DEF BranchConfig, Holdable
  <2>4. s["archived"] = On \/ BranchPlan(b, q, s[b]) = << >>
    BY <1>8, PlanIs
  <2>5. s["archived"] = On \/ BranchMatches(q, s[b])
    BY <2>3, <2>4, NothingToProtect
  <2> QED
    BY <1>8, <2>5, StepIs
<1>9. CASE t \in RulesetTiers
  <2>1. RulesetPlan(D[i], names, s[D[i].name]) = << >>
    BY <1>9, PlanIs
  <2>2. Ruleset(D[i])
    BY <1>9, StepsPositive, DeclaredAs
  <2>3. RulesetMatches(D[i], s[D[i].name])
    BY <1>9, <2>1, <2>2, DriftIsMismatch DEF RulesetPlan
  <2> QED
    BY <1>9, <2>3, StepIs
<1> QED
  BY <1>1, <1>2, <1>3, <1>4, <1>5, <1>6, <1>7, <1>8, <1>9, TierCases

(* Where its step is done, a plan is empty.                                *)
LEMMA NothingToSend ==
    ASSUME NEW t \in Tiers, NEW v \in Versions, NEW i \in 1 .. Steps(t, Declared(t, v)),
           NEW names, NEW s, Holdable(t, s), Whole(t, Declared(t, v)),
           t \in RulesetTiers =>
             LET n == Declared(t, v)[i].name IN n \in names <=> s[n] # Absent,
           StepMatches(t, Declared(t, v), i, s)
    PROVE  PlanOf(t, Declared(t, v), i, names, s) = << >>
<1> DEFINE D == Declared(t, v)
<1>1. CASE t \in PatchTiers
  <2>1. FlatMatches(D, s)
    BY <1>1, StepIs
  <2>2. \A f \in DOMAIN D : D[f] = s[f]
    <3>1. CASE t = "repository"
      <4> SUFFICES ASSUME NEW f \in DOMAIN D, f = "security_and_analysis"
                   PROVE  D[f] = s[f]
        BY <2>1 DEF FlatMatches, FieldMatches
      <4> DEFINE want == D[f]
                 have == s[f]
      <4>1. want = [k \in Names(t) |-> want[k]]
        BY <3>1 DEF Whole
      <4>2. have = [k \in Names(t) |-> have[k]]
        BY <3>1 DEF Holdable
      <4>3. \A k \in DOMAIN want : have[k] = want[k]
        BY <2>1 DEF FlatMatches, FieldMatches
      <4> HIDE DEF want, have
      <4>4. want = have
        BY <4>1, <4>2, <4>3
      <4> QED
        BY <4>4 DEF want, have
    <3>2. CASE t # "repository"
      BY <1>1, <3>2, <2>1, FlatFields DEF PatchTiers, RulesetTiers
    <3> QED
      BY <3>1, <3>2
  <2>3. PatchPlan(D, s) = << >>
    BY <2>2 DEF PatchPlan, CompareDeep, Only, Drift
  <2> QED
    BY <1>1, <2>3, PlanIs
<1>2. CASE t = "security"
  <2>1. Drift(D, s, {Toggles[i]}) = {}
    BY <1>2, StepIs, NothingDiffers
  <2>2. SecurityPlan(Toggles[i], D, s) = << >>
    BY <2>1 DEF SecurityPlan
  <2> QED
    BY <1>2, <2>2, PlanIs
<1>3. CASE t \in ActionsTiers
  <2>1. Drift(D, s, IF i = 1 THEN {"enabled", "allowed_actions"}
                    ELSE {"workflow_permissions", "can_approve"}) = {}
    BY <1>3, StepIs
  <2>2. ActionsPlan(i, D, s) = << >>
    BY <2>1 DEF ActionsPlan, PermissionsPlan, WorkflowPlan
  <2> QED
    BY <1>3, <2>2, PlanIs
<1>4. CASE t \in LimitTiers
  <2>1. "limit" \in DOMAIN D
    BY <1>4, DeclaredAs DEF InteractionLimits, Fields
  <2>2. D["limit"] = s["limit"]
    BY <1>4, <2>1, StepIs DEF FlatMatches, FieldMatches
  <2> QED
    BY <1>4, <2>2, PlanIs DEF InteractionLimitsPlan
<1>5. CASE t = "pages"
  <2>1. s["site"] # Absent /\ FlatMatches(D, s)
    BY <1>5, StepIs, ValuesAssumption
  <2>2. Drift(D, s, DOMAIN D) = {}
    BY <1>5, <2>1, FlatFields, NothingDiffers DEF RulesetTiers
  <2> QED
    BY <1>5, <2>1, <2>2, PagesPlanForm
<1>6. CASE t = "code_scanning"
  <2>1. D["state"] = s["state"] /\ (D["state"] = On => FlatMatches(D, s))
    BY <1>6, StepIs
  <2>2. Drift(D, s, IF D["state"] = On THEN DOMAIN D ELSE {"state"}) = {}
    BY <1>6, <2>1, FlatFields, NothingDiffers DEF RulesetTiers
  <2> QED
    BY <1>6, <2>2, PlanIs DEF CodeScanningPlan
<1>7. CASE t = "org_code_security"
  BY <1>7, CodeSecurityPlanForm, StepIs
<1>8. CASE t = "branches"
  <2> DEFINE b == ResolveBranch(D[i].name, s["default_branch"])
             q == D[i].protection
  <2>1. i \in DOMAIN D
    BY <1>8, StepsPositive
  <2>2. BranchConfig(D[i]) /\ b \in Names(t)
    BY <1>8, <2>1, Resolved
  <2>3. /\ s[b] # Absent => s[b].signatures \in BOOLEAN
        /\ q # Absent => q.signatures \in BOOLEAN
    BY <1>8, <2>2 DEF BranchConfig, Holdable
  <2>4. q # Absent => q.restrictions # Unset
    BY <1>8, <2>1 DEF Whole
  <2>5. BranchMatches(q, s[b])
    BY <1>8, StepIs
  <2>6. BranchPlan(b, q, s[b]) = << >>
    BY <2>3, <2>4, <2>5, NothingToProtect
  <2> QED
    BY <1>8, <2>6, PlanIs
<1>9. CASE t \in RulesetTiers
  <2>1. RulesetMatches(D[i], s[D[i].name])
    BY <1>9, StepIs
  <2>2. Ruleset(D[i]) /\ s[D[i].name] # Absent /\ D[i].name \in names
    BY <1>9, <2>1, StepsPositive, DeclaredAs DEF RulesetMatches
  <2>3. RulesetPlan(D[i], names, s[D[i].name]) = << >>
    BY <2>1, <2>2, DriftIsMismatch DEF RulesetPlan
  <2> QED
    BY <1>9, <2>3, PlanIs
<1> QED
  BY <1>1, <1>2, <1>3, <1>4, <1>5, <1>6, <1>7, <1>8, <1>9, TierCases

LEMMA StepsAre ==
    ASSUME NEW t \in Tiers, NEW D
    PROVE  /\ t = "security" => Steps(t, D) = 3
           /\ t \in ActionsTiers => Steps(t, D) = 2
           /\ t \in RulesetTiers \cup {"branches"} => Steps(t, D) = Len(D)
           /\ t \in AllTiers \ (ActionsTiers \cup RulesetTiers \cup {"security", "branches"}) =>
                Steps(t, D) = 1
<1>1. t = "security" => Steps(t, D) = 3
  BY DEF Steps, Toggles, ActionsTiers, RulesetTiers
<1>2. t \in ActionsTiers => Steps(t, D) = 2
  <2>1. t \in ActionsTiers => t \notin RulesetTiers \cup {"branches", "security"}
    BY DEF ActionsTiers, RulesetTiers
  <2> QED
    BY <2>1 DEF Steps
<1>3. t \in RulesetTiers \cup {"branches"} => Steps(t, D) = Len(D)
  BY DEF Steps, ActionsTiers, RulesetTiers
<1>4. t \in AllTiers \ (ActionsTiers \cup RulesetTiers \cup {"security", "branches"}) =>
        Steps(t, D) = 1
  BY DEF Steps
<1> QED
  BY <1>1, <1>2, <1>3, <1>4

(* The settings are as declared when every step has done its part.         *)
LEMMA StepByStep ==
    ASSUME TypeOK, NEW v \in Versions
    PROVE  Matches(v) <=> \A i \in 1 .. Steps(tier, Declared(tier, v)) :
                              StepMatches(tier, Declared(tier, v), i, live)
<1> DEFINE D == Declared(tier, v)
<1>0. tier \in Tiers
  BY DEF TypeOK
<1>1. CASE tier \in PatchTiers \cup LimitTiers
  <2>1. Steps(tier, D) = 1
    BY <1>0, <1>1, StepsAre DEF PatchTiers, LimitTiers, ActionsTiers, RulesetTiers, AllTiers
  <2>2. Matches(v) <=> FlatMatches(D, live)
    BY <1>1 DEF Matches, PatchTiers, LimitTiers, RulesetTiers
  <2> QED
    BY <1>1, <2>1, <2>2, StepIs
<1>2. CASE tier = "security"
  <2>1. Steps(tier, D) = 3
    BY <1>0, <1>2, StepsAre
  <2>2. Matches(v) <=> \A f \in DOMAIN D : live[f] = D[f]
    <3>1. Matches(v) <=> FlatMatches(D, live)
      BY <1>2 DEF Matches, RulesetTiers
    <3> QED
      BY <1>0, <1>2, <3>1, FlatFields DEF RulesetTiers
  <2>3. DOMAIN D \subseteq {"alerts", "fixes", "reporting"}
    BY <1>0, <1>2, DeclaredAs DEF RepositorySecurity, Fields
  <2>4. Toggles[1] = "alerts" /\ Toggles[2] = "fixes" /\ Toggles[3] = "reporting"
    BY DEF Toggles
  <2>5. (\A i \in 1 .. 3 : StepMatches(tier, D, i, live)) <=>
          /\ StepMatches(tier, D, 1, live)
          /\ StepMatches(tier, D, 2, live)
          /\ StepMatches(tier, D, 3, live)
    <3>1. 1 .. 3 = {1, 2, 3}
      OBVIOUS
    <3> QED
      BY <3>1
  <2>6. \A i : StepMatches(tier, D, i, live) <=>
                  (Toggles[i] \in DOMAIN D => live[Toggles[i]] = D[Toggles[i]])
    BY <1>2, StepIs
  <2> HIDE DEF D
  <2>7. (\A f \in DOMAIN D : live[f] = D[f]) <=> \A i \in 1 .. 3 : StepMatches(tier, D, i, live)
    BY <2>3, <2>4, <2>5, <2>6
  <2> QED
    BY <2>1, <2>2, <2>7 DEF D
<1>3. CASE tier \in ActionsTiers
  <2>1. Steps(tier, D) = 2
    BY <1>0, <1>3, StepsAre
  <2>2. Matches(v) <=> \A f \in DOMAIN D : live[f] = D[f]
    <3>1. Matches(v) <=> FlatMatches(D, live)
      BY <1>3 DEF Matches, ActionsTiers, RulesetTiers
    <3> QED
      BY <1>0, <1>3, <3>1, FlatFields DEF ActionsTiers, RulesetTiers
  <2>3. DOMAIN D \subseteq {"enabled", "allowed_actions", "workflow_permissions", "can_approve"}
    BY <1>0, <1>3, DeclaredAs DEF ActionsSettings, Fields
  <2>4. (\A i \in 1 .. 2 : StepMatches(tier, D, i, live)) <=>
          StepMatches(tier, D, 1, live) /\ StepMatches(tier, D, 2, live)
    <3>1. 1 .. 2 = {1, 2}
      OBVIOUS
    <3> QED
      BY <3>1
  <2>5. StepMatches(tier, D, 1, live) <=> Drift(D, live, {"enabled", "allowed_actions"}) = {}
    <3> DEFINE fields == IF 1 = 1 THEN {"enabled", "allowed_actions"}
                         ELSE {"workflow_permissions", "can_approve"}
    <3>1. StepMatches(tier, D, 1, live) <=> Drift(D, live, fields) = {}
      BY <1>3, StepIs
    <3>2. fields = {"enabled", "allowed_actions"}
      OBVIOUS
    <3> QED
      BY <3>1, <3>2
  <2>6. StepMatches(tier, D, 2, live) <=>
            Drift(D, live, {"workflow_permissions", "can_approve"}) = {}
    <3> DEFINE fields == IF 2 = 1 THEN {"enabled", "allowed_actions"}
                         ELSE {"workflow_permissions", "can_approve"}
    <3>1. StepMatches(tier, D, 2, live) <=> Drift(D, live, fields) = {}
      BY <1>3, StepIs
    <3>2. fields = {"workflow_permissions", "can_approve"}
      OBVIOUS
    <3> QED
      BY <3>1, <3>2
  <2> HIDE DEF D
  <2>7. (\A f \in DOMAIN D : live[f] = D[f]) <=> \A i \in 1 .. 2 : StepMatches(tier, D, i, live)
    BY <2>3, <2>4, <2>5, <2>6, NothingDiffers
  <2> QED
    BY <2>1, <2>2, <2>7 DEF D
<1>4. CASE tier \in {"pages", "code_scanning", "org_code_security"}
  <2>1. Steps(tier, D) = 1
    BY <1>0, <1>4, StepsAre DEF ActionsTiers, RulesetTiers, AllTiers
  <2>2. Matches(v) <=> StepMatches(tier, D, 1, live)
    <3>1. CASE tier = "pages"
      BY <3>1, StepIs DEF Matches, RulesetTiers
    <3>2. CASE tier = "code_scanning"
      BY <3>2, StepIs DEF Matches, RulesetTiers
    <3>3. CASE tier = "org_code_security"
      BY <3>3, StepIs DEF Matches, RulesetTiers
    <3> QED
      BY <1>4, <3>1, <3>2, <3>3
  <2> QED
    <3>1. \A i \in 1 .. 1 : i = 1
      OBVIOUS
    <3> QED
      BY <2>1, <2>2, <3>1
<1>5. CASE tier = "branches"
  <2>1. DOMAIN D = 1 .. Steps(tier, D)
    BY <1>0, <1>5, StepsPositive
  <2>2. Matches(v) <=> \A i \in DOMAIN D :
          BranchMatches(D[i].protection, live[ResolveBranch(D[i].name, live["default_branch"])])
    BY <1>5 DEF Matches, RulesetTiers
  <2> QED
    BY <1>5, <2>1, <2>2, StepIs
<1>6. CASE tier \in RulesetTiers
  <2>1. DOMAIN D = 1 .. Steps(tier, D)
    BY <1>0, <1>6, StepsPositive
  <2>2. Matches(v) <=> \A i \in DOMAIN D : RulesetMatches(D[i], live[D[i].name])
    BY <1>6 DEF Matches, RulesetTiers
  <2> QED
    BY <1>6, <2>1, <2>2, StepIs
<1> QED
  BY <1>0, <1>1, <1>2, <1>3, <1>4, <1>5, <1>6, TierCases

(* The listing finds the rulesets that are there.                          *)
LEMMA ListingFinds ==
    ASSUME TypeOK, NEW v \in Versions, tier \in RulesetTiers, NEW i \in DOMAIN Declared(tier, v)
    PROVE  Declared(tier, v)[i].name \in Listing <=> live[Declared(tier, v)[i].name] # Absent
<1>1. Declared(tier, v)[i].name \in Names(tier)
  BY DeclaredAs DEF TypeOK
<1>2. DOMAIN live = Names(tier)
  BY DEF TypeOK, Holdable, Keys, RulesetTiers, ActionsTiers, LimitTiers
<1> QED
  BY <1>1, <1>2 DEF Listing

AllWhole == \A t \in Tiers, v \in Versions : Whole(t, Declared(t, v))

(* Settings that are as declared get no request, of any tier, whatever     *)
(* GitHub holds besides (diff.py:6), if the declarations name all keys of  *)
(* a nested object and say who may push.                                   *)
THEOREM NoDriftQuiet ==
    ASSUME AllWhole
    PROVE  Spec => []NoDriftNoRequest
<1>1. TypeOK => NoDriftNoRequest
  <2> SUFFICES ASSUME TypeOK, Matches(version),
                      NEW i \in 1 .. Steps(tier, Declared(tier, version))
               PROVE  PlanOf(tier, Declared(tier, version), i, Listing, live) = << >>
    BY DEF NoDriftNoRequest
  <2>1. tier \in Tiers /\ version \in Versions /\ Holdable(tier, live)
    BY DEF TypeOK
  <2>2. StepMatches(tier, Declared(tier, version), i, live)
    BY <2>1, StepByStep
  <2>3. tier \in RulesetTiers => i \in DOMAIN Declared(tier, version)
    BY <2>1, StepsPositive
  <2>4. tier \in RulesetTiers => LET n == Declared(tier, version)[i].name IN
           n \in Listing <=> live[n] # Absent
    BY <2>1, <2>3, ListingFinds
  <2>5. Whole(tier, Declared(tier, version))
    BY <2>1 DEF AllWhole
  <2> QED
    BY <2>1, <2>2, <2>4, <2>5, NothingToSend
<1> QED
  BY <1>1, TypeCorrect, PTL

-----------------------------------------------------------------------------
(* What an accepted request brings about, tier by tier.                    *)

LEMMA PatchedIs ==
    ASSUME TypeOK, NEW r
    PROVE  /\ DOMAIN Patched(r) = Keys(tier)
           /\ \A f \in Keys(tier) \ {"security_and_analysis"} :
                Patched(r)[f] = IF f \in DOMAIN r.set THEN r.set[f] ELSE live[f]
           /\ \A f \in Keys(tier) : f \notin DOMAIN r.set => Patched(r)[f] = live[f]
<1>1. DOMAIN live = Keys(tier)
  BY DEF TypeOK, Holdable
<1> QED
  BY <1>1 DEF Patched, Merged

(* In most tiers nothing else follows from what is set.                    *)
LEMMA OutcomeIs ==
    ASSUME TypeOK, NEW r
    PROVE  /\ tier \in PatchTiers \cup LimitTiers \cup {"code_scanning", "org_code_security"} =>
                Outcome(r) = Patched(r)
           /\ tier = "pages" => Outcome(r) =
                IF r.op = "create" THEN [Patched(r) EXCEPT !["site"] = On] ELSE Patched(r)
           /\ tier = "security" => Outcome(r) =
                IF Patched(r)["alerts"] = Off THEN [Patched(r) EXCEPT !["fixes"] = Off]
                ELSE Patched(r)
           /\ tier \in ActionsTiers => Outcome(r) =
                IF Patched(r)["enabled"] = Off
                THEN [Patched(r) EXCEPT !["allowed_actions"] = Absent]
                ELSE IF Patched(r)["allowed_actions"] = Absent
                THEN [Patched(r) EXCEPT !["allowed_actions"] = AllActions]
                ELSE Patched(r)
           /\ tier \in RulesetTiers =>
                Outcome(r) = [live EXCEPT ![r.ruleset.name] = RulesetWritten(r)]
           /\ tier = "branches" => Outcome(r) = [live EXCEPT ![r.branch] = BranchWritten(r)]
<1> USE DEF PatchTiers, LimitTiers, ActionsTiers, RulesetTiers
<1>1. tier \in PatchTiers \cup LimitTiers \cup {"code_scanning", "org_code_security"} =>
        Outcome(r) = Patched(r)
  BY DEF Outcome, Settled
<1>2. tier = "pages" => Outcome(r) =
        IF r.op = "create" THEN [Patched(r) EXCEPT !["site"] = On] ELSE Patched(r)
  BY DEF Outcome, Settled
<1>3. tier = "security" => Outcome(r) =
        IF Patched(r)["alerts"] = Off THEN [Patched(r) EXCEPT !["fixes"] = Off]
        ELSE Patched(r)
  BY DEF Outcome, Settled
<1>4. tier \in ActionsTiers => Outcome(r) =
        IF Patched(r)["enabled"] = Off THEN [Patched(r) EXCEPT !["allowed_actions"] = Absent]
        ELSE IF Patched(r)["allowed_actions"] = Absent
        THEN [Patched(r) EXCEPT !["allowed_actions"] = AllActions]
        ELSE Patched(r)
  BY DEF Outcome, Settled
<1>5. tier \in RulesetTiers =>
        Outcome(r) = [live EXCEPT ![r.ruleset.name] = RulesetWritten(r)]
  BY DEF Outcome
<1>6. tier = "branches" => Outcome(r) = [live EXCEPT ![r.branch] = BranchWritten(r)]
  BY DEF Outcome
<1> QED
  BY <1>1, <1>2, <1>3, <1>4, <1>5, <1>6

(* The keys of each tier, and the fields that may be declared.             *)
LEMMA FieldsAre ==
    ASSUME NEW t \in Tiers, NEW v \in Versions
    PROVE  LET D == Declared(t, v) IN
           /\ t = "security" => /\ Keys(t) = {"alerts", "fixes", "reporting"}
                                /\ DOMAIN D \subseteq Keys(t)
                                /\ \A f \in DOMAIN D : D[f] \in {On, Off}
           /\ t \in ActionsTiers =>
                /\ Keys(t) = {"enabled", "allowed_actions", "workflow_permissions", "can_approve"}
                /\ DOMAIN D \subseteq Keys(t)
           /\ t \in LimitTiers => Keys(t) = {"limit"} /\ DOMAIN D = {"limit"}
           /\ t = "pages" => /\ Keys(t) = {"site", "build_type", "source", "cname"}
                             /\ DOMAIN D \subseteq {"build_type", "source", "cname"}
           /\ t = "code_scanning" => /\ Keys(t) = {"state", "suite"}
                                     /\ "state" \in DOMAIN D /\ DOMAIN D \subseteq Keys(t)
           /\ t = "org_code_security" => /\ Keys(t) = {"config", "attached", "default"}
                                         /\ "config" \in DOMAIN D /\ DOMAIN D \subseteq Keys(t)
                                         /\ D["config"] # Absent
           /\ t = "repository" => /\ Keys(t) = {"archived", "merge", "security_and_analysis"}
                                  /\ DOMAIN D \subseteq Keys(t)
           /\ t = "organization" => /\ Keys(t) = {"privileges", "profile"}
                                    /\ DOMAIN D \subseteq Keys(t)
           /\ t = "org_custom_properties" => Keys(t) = Names(t) /\ DOMAIN D \subseteq Keys(t)
           /\ t = "branches" => Keys(t) = {"archived", "default_branch"} \cup Names(t)
           /\ t \in RulesetTiers => Keys(t) = Names(t)
<1> DEFINE D == Declared(t, v)
<1> USE DEF ActionsTiers, LimitTiers, RulesetTiers
<1>1. t = "security" => /\ Keys(t) = {"alerts", "fixes", "reporting"}
                        /\ DOMAIN D \subseteq Keys(t)
                        /\ \A f \in DOMAIN D : D[f] \in {On, Off}
  BY DeclaredAs DEF Keys, RepositorySecurity, Fields
<1>2. t \in ActionsTiers =>
        /\ Keys(t) = {"enabled", "allowed_actions", "workflow_permissions", "can_approve"}
        /\ DOMAIN D \subseteq Keys(t)
  BY DeclaredAs DEF Keys, ActionsSettings, Fields
<1>3. t \in LimitTiers => Keys(t) = {"limit"} /\ DOMAIN D = {"limit"}
  BY DeclaredAs DEF Keys, InteractionLimits, Fields
<1>4. t = "pages" => /\ Keys(t) = {"site", "build_type", "source", "cname"}
                     /\ DOMAIN D \subseteq {"build_type", "source", "cname"}
  BY DeclaredAs DEF Keys, PagesConfig, Fields
<1>5. t = "code_scanning" => /\ Keys(t) = {"state", "suite"}
                             /\ "state" \in DOMAIN D /\ DOMAIN D \subseteq Keys(t)
  BY DeclaredAs DEF Keys, CodeScanningDefaultSetup, Fields
<1>6. t = "org_code_security" => /\ Keys(t) = {"config", "attached", "default"}
                                 /\ "config" \in DOMAIN D /\ DOMAIN D \subseteq Keys(t)
                                 /\ D["config"] # Absent
  BY DeclaredAs DEF Keys, CodeSecurityConfiguration, Fields
<1>7. t = "repository" => /\ Keys(t) = {"archived", "merge", "security_and_analysis"}
                          /\ DOMAIN D \subseteq Keys(t)
  BY DeclaredAs DEF Keys, RepositorySettings, Fields
<1>8. t = "organization" => /\ Keys(t) = {"privileges", "profile"}
                            /\ DOMAIN D \subseteq Keys(t)
  BY DeclaredAs DEF Keys, OrganizationSettings, Fields
<1>9. t = "org_custom_properties" => Keys(t) = Names(t) /\ DOMAIN D \subseteq Keys(t)
  BY DeclaredAs DEF Keys
<1>10. t = "branches" => Keys(t) = {"archived", "default_branch"} \cup Names(t)
  BY DEF Keys
<1>11. t \in RulesetTiers => Keys(t) = Names(t)
  BY DEF Keys
<1> HIDE DEF D
<1> QED
  BY <1>1, <1>2, <1>3, <1>4, <1>5, <1>6, <1>7, <1>8, <1>9, <1>10, <1>11 DEF D

(* A patch sets the declared fields that differ, and nothing else.         *)
LEMMA PatchDone ==
    ASSUME TypeOK, NEW v \in Versions, tier \in PatchTiers, NEW r,
           PatchPlan(Declared(tier, v), live) = << r >>
    PROVE  /\ FlatMatches(Declared(tier, v), Outcome(r))
           /\ \A f \in Keys(tier) \ DOMAIN Declared(tier, v) : Outcome(r)[f] = live[f]
<1> DEFINE D == Declared(tier, v)
<1>0. tier \in Tiers /\ DOMAIN D \subseteq Keys(tier)
  BY FieldsAre DEF TypeOK, PatchTiers
<1>1. r = Request("patch", CompareDeep(D, live))
  BY DEF PatchPlan
<1>2. DOMAIN r.set = {f \in DOMAIN D : D[f] # live[f]} /\ \A f \in DOMAIN r.set : r.set[f] = D[f]
  BY <1>1 DEF Request, CompareDeep, Only, Drift
<1>3. Outcome(r) = Patched(r)
  BY OutcomeIs
<1>4. ASSUME NEW f \in DOMAIN D PROVE FieldMatches(f, D[f], Patched(r)[f])
  <2>1. CASE f # "security_and_analysis"
    BY <1>0, <1>2, <2>1, PatchedIs DEF FieldMatches
  <2>2. CASE f = "security_and_analysis"
    <3> DEFINE want == D[f]
               have == live[f]
               now == Patched(r)[f]
    <3>1. tier = "repository"
      BY <1>0, <2>2, FieldsAre, NamesAssumption DEF PatchTiers
    <3>2. have = [k \in Names(tier) |-> have[k]] /\ DOMAIN want \subseteq Names(tier)
      BY <1>0, <2>2, <3>1, DeclaredAs DEF TypeOK, Holdable
    <3>3. CASE f \in DOMAIN r.set
      <4>1. r.set[f] = want
        BY <1>2, <3>3
      <4>2. f \in DOMAIN live
        BY <1>0 DEF TypeOK, Holdable
      <4>3. now = Merged(f, have, want)
        BY <3>3, <4>1, <4>2 DEF Patched
      <4> HIDE DEF have, want, now
      <4>4. DOMAIN have = Names(tier)
        BY <3>2
      <4>5. \A k \in DOMAIN want : now[k] = want[k]
        BY <2>2, <3>2, <4>3, <4>4 DEF Merged
      <4> QED
        BY <2>2, <4>5 DEF FieldMatches, now, want
    <3>4. CASE f \notin DOMAIN r.set
      <4>1. now = have /\ have = want
        BY <1>0, <1>2, <3>4, PatchedIs
      <4> QED
        BY <4>1, <2>2 DEF FieldMatches
    <3> QED
      BY <3>3, <3>4
  <2> QED
    BY <2>1, <2>2
<1>5. \A f \in Keys(tier) \ DOMAIN D : Patched(r)[f] = live[f]
  BY <1>2, PatchedIs
<1> QED
  BY <1>3, <1>4, <1>5 DEF FlatMatches

(* A toggle is set; alerts that are turned off take the fixes along.       *)
LEMMA SecurityDone ==
    ASSUME TypeOK, NEW v \in Versions, tier = "security", NEW i \in 1 .. 3, NEW r,
           SecurityPlan(Toggles[i], Declared(tier, v), live) = << r >>
    PROVE  /\ Coherent(tier, Declared(tier, v))
              /\ (\A j \in 1 .. i - 1 : StepMatches(tier, Declared(tier, v), j, live))
              => \A j \in 1 .. i : StepMatches(tier, Declared(tier, v), j, Outcome(r))
           /\ \A f \in Keys(tier) \ DOMAIN Declared(tier, v) :
                \/ Outcome(r)[f] = live[f]
                \/ f = "fixes" /\ Outcome(r)["alerts"] = Off /\ Outcome(r)[f] = Off
           /\ Coherent(tier, Declared(tier, v))
              /\ (\A j \in 1 .. i - 1 : StepMatches(tier, Declared(tier, v), j, live))
              /\ r.set = [fixes |-> On] => live["alerts"] = On
<1> DEFINE D == Declared(tier, v)
           g == Toggles[i]
           p == Patched(r)
           o == Outcome(r)
<1>1. Toggles[1] = "alerts" /\ Toggles[2] = "fixes" /\ Toggles[3] = "reporting"
  BY DEF Toggles
<1>2. i \in {1, 2, 3} /\ g \in {"alerts", "fixes", "reporting"}
  BY <1>1
<1>3. r = Request("patch", Only(D, {g})) /\ Drift(D, live, {g}) # {}
  BY DEF SecurityPlan
<1>4. g \in DOMAIN D
  BY <1>3 DEF Drift
<1>5. DOMAIN r.set = {g} /\ r.set[g] = D[g]
  BY <1>3, <1>4 DEF Request, Only
<1>6. /\ Keys(tier) = {"alerts", "fixes", "reporting"} /\ DOMAIN D \subseteq Keys(tier)
      /\ \A f \in DOMAIN D : D[f] \in {On, Off}
  BY FieldsAre DEF TypeOK
<1>7. /\ DOMAIN p = {"alerts", "fixes", "reporting"}
      /\ \A f \in {"alerts", "fixes", "reporting"} : p[f] = IF f = g THEN D[g] ELSE live[f]
  BY <1>5, <1>6, PatchedIs
<1>8. o = IF p["alerts"] = Off THEN [p EXCEPT !["fixes"] = Off] ELSE p
  BY OutcomeIs
<1> HIDE DEF p, o, g
<1>9. /\ o["alerts"] = p["alerts"] /\ o["reporting"] = p["reporting"]
      /\ o["fixes"] = IF p["alerts"] = Off THEN Off ELSE p["fixes"]
  BY <1>7, <1>8
<1>10. \A j, s : StepMatches(tier, D, j, s) <=>
                    (Toggles[j] \in DOMAIN D => s[Toggles[j]] = D[Toggles[j]])
  BY StepIs
<1>11. Coherent(tier, D) <=>
         ("fixes" \in DOMAIN D /\ D["fixes"] = On => "alerts" \in DOMAIN D /\ D["alerts"] = On)
  BY DEF Coherent, ActionsTiers, RulesetTiers
<1> HIDE DEF D
<1>12. ASSUME Coherent(tier, D), \A j \in 1 .. i - 1 : StepMatches(tier, D, j, live)
       PROVE  /\ \A j \in 1 .. i : StepMatches(tier, D, j, o)
              /\ r.set = [fixes |-> On] => live["alerts"] = On
  <2>1. CASE i = 1
    <3>1. g = "alerts"
      BY <1>1, <2>1 DEF g
    <3>2. StepMatches(tier, D, 1, o)
      BY <1>1, <1>7, <1>9, <1>10, <3>1
    <3>3. r.set # [fixes |-> On]
      BY <1>5, <3>1
    <3> QED
      BY <2>1, <3>2, <3>3
  <2>2. CASE i = 2
    <3>1. g = "fixes"
      BY <1>1, <2>2 DEF g
    <3>2. StepMatches(tier, D, 1, live)
      BY <1>12, <2>2
    <3>3. "alerts" \in DOMAIN D => live["alerts"] = D["alerts"]
      BY <1>1, <1>10, <3>2
    <3>4. "alerts" \in DOMAIN D => o["alerts"] = D["alerts"]
      BY <1>7, <1>9, <3>1, <3>3
    <3>5. o["fixes"] = D["fixes"]
      BY <1>4, <1>6, <1>7, <1>9, <1>11, <1>12, <3>1, <3>3, ValuesAssumption
    <3>6. \A j \in 1 .. 2 : StepMatches(tier, D, j, o)
      BY <1>1, <1>10, <3>4, <3>5
    <3>7. r.set = [fixes |-> On] => live["alerts"] = On
      BY <1>4, <1>5, <1>11, <1>12, <3>1, <3>3
    <3> QED
      BY <2>2, <3>6, <3>7
  <2>3. CASE i = 3
    <3>1. g = "reporting"
      BY <1>1, <2>3 DEF g
    <3>2. StepMatches(tier, D, 1, live) /\ StepMatches(tier, D, 2, live)
      BY <1>12, <2>3
    <3>3. /\ "alerts" \in DOMAIN D => live["alerts"] = D["alerts"]
          /\ "fixes" \in DOMAIN D => live["fixes"] = D["fixes"]
      BY <1>1, <1>10, <3>2
    <3>4. "alerts" \in DOMAIN D => o["alerts"] = D["alerts"]
      BY <1>7, <1>9, <3>1, <3>3
    <3>5. "fixes" \in DOMAIN D => o["fixes"] = D["fixes"]
      BY <1>6, <1>7, <1>9, <1>11, <1>12, <3>1, <3>3, ValuesAssumption
    <3>6. o["reporting"] = D["reporting"]
      BY <1>7, <1>9, <3>1
    <3>7. \A j \in {1, 2, 3} : StepMatches(tier, D, j, o)
      BY <1>1, <1>10, <3>4, <3>5, <3>6
    <3>8. r.set # [fixes |-> On]
      BY <1>5, <3>1
    <3> QED
      BY <2>3, <3>7, <3>8
  <2> QED
    BY <1>2, <2>1, <2>2, <2>3
<1>13. ASSUME NEW f \in Keys(tier) \ DOMAIN D
       PROVE  o[f] = live[f] \/ (f = "fixes" /\ o["alerts"] = Off /\ o[f] = Off)
  BY <1>4, <1>6, <1>7, <1>9, <1>13
<1> QED
  BY <1>12, <1>13 DEF D, o

(* An endpoint of the actions block gets what is declared and what was     *)
(* read; what the policy allows follows whether actions are enabled.       *)
LEMMA ActionsDone ==
    ASSUME TypeOK, NEW v \in Versions, tier \in ActionsTiers, NEW i \in 1 .. 2, NEW r,
           ActionsPlan(i, Declared(tier, v), live) = << r >>
    PROVE  /\ Coherent(tier, Declared(tier, v))
              /\ (\A j \in 1 .. i - 1 : StepMatches(tier, Declared(tier, v), j, live))
              => \A j \in 1 .. i : StepMatches(tier, Declared(tier, v), j, Outcome(r))
           /\ \A f \in Keys(tier) \ DOMAIN Declared(tier, v) :
                \/ Outcome(r)[f] = live[f]
                \/ f = "allowed_actions" /\ Absent \in {live[f], Outcome(r)[f]}
<1> DEFINE D == Declared(tier, v)
           p == Patched(r)
           o == Outcome(r)
           token == {"workflow_permissions", "can_approve"}
           policy == {"enabled", "allowed_actions"}
           enabled == Filled(D, live, "enabled")
           allowed == Filled(D, live, "allowed_actions")
<1>1. i \in {1, 2}
  OBVIOUS
<1>2. Keys(tier) = policy \cup token /\ DOMAIN D \subseteq Keys(tier)
  BY FieldsAre DEF TypeOK
<1>3. /\ DOMAIN p = policy \cup token
      /\ \A f \in policy \cup token : p[f] = IF f \in DOMAIN r.set THEN r.set[f] ELSE live[f]
  BY <1>2, PatchedIs
<1>4. o = IF p["enabled"] = Off THEN [p EXCEPT !["allowed_actions"] = Absent]
          ELSE IF p["allowed_actions"] = Absent THEN [p EXCEPT !["allowed_actions"] = AllActions]
          ELSE p
  BY OutcomeIs
<1> HIDE DEF p, o
<1>5. /\ \A f \in (policy \cup token) \ {"allowed_actions"} : o[f] = p[f]
      /\ o["allowed_actions"] = IF p["enabled"] = Off THEN Absent
                                ELSE IF p["allowed_actions"] = Absent THEN AllActions
                                ELSE p["allowed_actions"]
  BY <1>3, <1>4
<1>6. \A s : /\ StepMatches(tier, D, 1, s) <=> Drift(D, s, policy) = {}
             /\ StepMatches(tier, D, 2, s) <=> Drift(D, s, token) = {}
  <2>1. ASSUME NEW s PROVE StepMatches(tier, D, 1, s) <=> Drift(D, s, policy) = {}
    <3> DEFINE fields == IF 1 = 1 THEN {"enabled", "allowed_actions"}
                         ELSE {"workflow_permissions", "can_approve"}
    <3>1. StepMatches(tier, D, 1, s) <=> Drift(D, s, fields) = {}
      BY StepIs
    <3>2. fields = policy
      OBVIOUS
    <3> QED
      BY <3>1, <3>2
  <2>2. ASSUME NEW s PROVE StepMatches(tier, D, 2, s) <=> Drift(D, s, token) = {}
    <3> DEFINE fields == IF 2 = 1 THEN {"enabled", "allowed_actions"}
                         ELSE {"workflow_permissions", "can_approve"}
    <3>1. StepMatches(tier, D, 2, s) <=> Drift(D, s, fields) = {}
      BY StepIs
    <3>2. fields = token
      OBVIOUS
    <3> QED
      BY <3>1, <3>2
  <2> QED
    BY <2>1, <2>2
<1>7. Coherent(tier, D) <=>
        ("allowed_actions" \in DOMAIN D =>
            D["allowed_actions"] # Absent /\ "enabled" \in DOMAIN D /\ D["enabled"] # Off)
  BY DEF Coherent, ActionsTiers, RulesetTiers
<1>8. i = 1 => r.set =
        [f \in (IF enabled # Off /\ allowed # Absent THEN policy ELSE {"enabled"}) |->
            Filled(D, live, f)]
  BY DEF ActionsPlan, PermissionsPlan, Request
<1>9. i = 2 => r.set = [f \in token |-> Filled(D, live, f)]
  BY DEF ActionsPlan, WorkflowPlan, Request
<1> HIDE DEF D
<1>10. CASE i = 1
  <2>1. /\ p["enabled"] = enabled
        /\ p["allowed_actions"] = IF enabled # Off /\ allowed # Absent THEN allowed
                                  ELSE live["allowed_actions"]
        /\ \A f \in token : p[f] = live[f]
    <3>1. DOMAIN r.set = IF enabled # Off /\ allowed # Absent THEN policy ELSE {"enabled"}
      BY <1>8, <1>10
    <3>2. \A f \in DOMAIN r.set : r.set[f] = Filled(D, live, f)
      BY <1>8, <1>10
    <3> HIDE DEF enabled, allowed
    <3> QED
      BY <1>3, <3>1, <3>2 DEF enabled, allowed
  <2>2. Coherent(tier, D) => \A f \in policy \cap DOMAIN D : D[f] = o[f]
    BY <1>5, <1>7, <2>1 DEF Filled
  <2>3. Coherent(tier, D) => StepMatches(tier, D, 1, o)
    BY <1>6, <2>2, NothingDiffers
  <2>4. \A f \in Keys(tier) \ DOMAIN D :
            o[f] = live[f] \/ (f = "allowed_actions" /\ Absent \in {live[f], o[f]})
    BY <1>2, <1>5, <2>1 DEF Filled
  <2>5. \A j \in 1 .. i : j = 1
    BY <1>10
  <2> QED
    BY <2>3, <2>4, <2>5 DEF D, o
<1>11. CASE i = 2
  <2>1. \A f \in token : p[f] = Filled(D, live, f)
    BY <1>3, <1>9, <1>11
  <2>2. \A f \in policy : p[f] = live[f]
    BY <1>3, <1>9, <1>11
  <2>3. StepMatches(tier, D, 2, o)
    <3>1. \A f \in token \cap DOMAIN D : D[f] = o[f]
      BY <1>5, <2>1 DEF Filled
    <3> QED
      BY <1>6, <3>1, NothingDiffers
  <2>4. Coherent(tier, D) /\ StepMatches(tier, D, 1, live) => StepMatches(tier, D, 1, o)
    <3>1. StepMatches(tier, D, 1, live) => \A f \in policy \cap DOMAIN D : D[f] = live[f]
      BY <1>6, NothingDiffers
    <3>2. Coherent(tier, D) /\ StepMatches(tier, D, 1, live) =>
            \A f \in policy \cap DOMAIN D : D[f] = o[f]
      BY <1>5, <1>7, <2>2, <3>1
    <3> QED
      BY <1>6, <3>2, NothingDiffers
  <2>5. \A f \in Keys(tier) \ DOMAIN D :
            o[f] = live[f] \/ (f = "allowed_actions" /\ Absent \in {live[f], o[f]})
    BY <1>2, <1>5, <2>1, <2>2 DEF Filled
  <2>6. (\A j \in 1 .. i : j \in {1, 2}) /\ 1 \in 1 .. i - 1
    BY <1>11
  <2> QED
    BY <2>3, <2>4, <2>5, <2>6 DEF D, o
<1> QED
  BY <1>1, <1>10, <1>11

LEMMA LimitsDone ==
    ASSUME TypeOK, NEW v \in Versions, tier \in LimitTiers, NEW r,
           InteractionLimitsPlan(Declared(tier, v), live) = << r >>
    PROVE  FlatMatches(Declared(tier, v), Outcome(r))
<1> DEFINE D == Declared(tier, v)
<1>1. Keys(tier) = {"limit"} /\ DOMAIN D = {"limit"}
  BY FieldsAre DEF TypeOK
<1>2. r.set = Only(D, {"limit"})
  BY DEF InteractionLimitsPlan, Request
<1>3. DOMAIN r.set = {"limit"} /\ r.set["limit"] = D["limit"]
  BY <1>1, <1>2 DEF Only
<1>4. Outcome(r)["limit"] = D["limit"]
  BY <1>1, <1>3, PatchedIs, OutcomeIs
<1> QED
  BY <1>1, <1>4 DEF FlatMatches, FieldMatches

LEMMA ScanningDone ==
    ASSUME TypeOK, NEW v \in Versions, tier = "code_scanning", NEW r,
           CodeScanningPlan(Declared(tier, v), live) = << r >>
    PROVE  LET D == Declared(tier, v) IN
           /\ D["state"] = Outcome(r)["state"] /\ (D["state"] = On => FlatMatches(D, Outcome(r)))
           /\ \A f \in Keys(tier) \ DOMAIN D : Outcome(r)[f] = live[f]
<1> DEFINE D == Declared(tier, v)
           compared == IF D["state"] = On THEN DOMAIN D ELSE {"state"}
<1>1. Keys(tier) = {"state", "suite"} /\ "state" \in DOMAIN D /\ DOMAIN D \subseteq Keys(tier)
  BY FieldsAre DEF TypeOK
<1>2. r.set = Only(D, compared)
  BY DEF CodeScanningPlan, Request
<1>3. DOMAIN r.set = compared /\ \A f \in compared : r.set[f] = D[f]
  BY <1>1, <1>2 DEF Only
<1>4. Outcome(r) = Patched(r)
  BY OutcomeIs
<1>5. \A f \in Keys(tier) : Patched(r)[f] = IF f \in DOMAIN r.set THEN r.set[f] ELSE live[f]
  BY <1>1, PatchedIs
<1> HIDE DEF D
<1>6. \A f \in compared : Outcome(r)[f] = D[f]
  BY <1>1, <1>3, <1>4, <1>5
<1>7. D["state"] = Outcome(r)["state"]
  BY <1>1, <1>6
<1>8. D["state"] = On => FlatMatches(D, Outcome(r))
  BY <1>6 DEF FlatMatches, FieldMatches
<1>9. \A f \in Keys(tier) \ DOMAIN D : Outcome(r)[f] = live[f]
  BY <1>1, <1>3, <1>4, <1>5
<1> QED
  BY <1>7, <1>8, <1>9 DEF D

(* To hold no ruleset, or no protection, is not to hold one.               *)
AbsentIsNone == DOMAIN Absent \notin {{"rules", "bypass"}, {"rules", "restrictions", "signatures"}}

(* A ruleset is written as declared, bypass actors that are not declared   *)
(* stay.                                                                   *)
LEMMA RulesetDone ==
    ASSUME TypeOK, tier \in RulesetTiers, NEW d, Ruleset(d), d.name \in Keys(tier),
           NEW names, NEW r, RulesetPlan(d, names, live[d.name]) = << r >>
    PROVE  /\ AbsentIsNone => RulesetMatches(d, Outcome(r)[d.name])
           /\ \A n \in Keys(tier) \ {d.name} : Outcome(r)[n] = live[n]
           /\ r.ruleset = d
           /\ r.op = "create" <=> d.name \notin names
<1> DEFINE o == Outcome(r)
           rules == Echo(d.rules)
           bypass == RulesetWritten(r).bypass
<1>1. Ruleset(d) /\ d.name \in Keys(tier)
  OBVIOUS
<1>2. r = RulesetRequest(IF d.name \notin names THEN "create" ELSE "replace", d)
  BY DEF RulesetPlan
<1>3. r.ruleset = d /\ (r.op = "create" <=> d.name \notin names)
  BY <1>2 DEF RulesetRequest
<1>4. o = [live EXCEPT ![d.name] = RulesetWritten(r)]
  BY <1>3, OutcomeIs
<1>5. DOMAIN live = Keys(tier)
  BY DEF TypeOK, Holdable
<1>6. o[d.name] = RulesetWritten(r) /\ \A n \in Keys(tier) \ {d.name} : o[n] = live[n]
  BY <1>1, <1>4, <1>5
<1>7. RulesetWritten(r).rules = rules /\ DOMAIN RulesetWritten(r) = {"rules", "bypass"}
  BY <1>3 DEF RulesetWritten
<1>8. d.bypass # Unset => bypass = d.bypass
  BY <1>3 DEF RulesetWritten
<1>10. \A t \in DOMAIN d.rules : t \in DOMAIN rules /\ \A k \in DOMAIN d.rules[t] :
          k \in DOMAIN rules[t] /\ rules[t][k] = d.rules[t][k]
  BY DEF Echo
<1> HIDE DEF o, rules, bypass
<1>11. AbsentIsNone => RulesetMatches(d, o[d.name])
  <2>1. AbsentIsNone => o[d.name] # Absent
    BY <1>6, <1>7 DEF AbsentIsNone
  <2>2. d.bypass # Unset => \A a \in DOMAIN d.bypass : "mode" \in DOMAIN d.bypass[a]
    BY <1>1 DEF Ruleset
  <2>3. o[d.name].rules = rules /\ o[d.name].bypass = bypass
    BY <1>6, <1>7 DEF bypass
  <2> QED
    BY <1>8, <1>10, <2>1, <2>2, <2>3 DEF RulesetMatches
<1> QED
  BY <1>3, <1>6, <1>11 DEF o

LEMMA BypassStays ==
    ASSUME TypeOK, tier \in RulesetTiers, NEW r, Accepts(r), r.ruleset.bypass = Unset,
           r.ruleset.name \in Keys(tier), live[r.ruleset.name] # Absent
    PROVE  Outcome(r)[r.ruleset.name].bypass = live[r.ruleset.name].bypass
<1>1. r.op # "create"
  BY DEF Accepts, RulesetTiers
<1>2. Outcome(r)[r.ruleset.name] = RulesetWritten(r)
  <2>1. Outcome(r) = [live EXCEPT ![r.ruleset.name] = RulesetWritten(r)]
    BY OutcomeIs
  <2>2. r.ruleset.name \in DOMAIN live
    BY DEF TypeOK, Holdable
  <2> QED
    BY <2>1, <2>2
<1> QED
  BY <1>1, <1>2 DEF RulesetWritten

(* A protection is written as declared; what comes after it is what would  *)
(* be decided then.                                                        *)
LEMMA BranchDone ==
    ASSUME TypeOK, AbsentIsNone, NEW v \in Versions, tier = "branches",
           NEW i \in DOMAIN Declared(tier, v), NEW names,
           PlanOf(tier, Declared(tier, v), i, names, live) # << >>
    PROVE  LET D == Declared(tier, v)
               p == PlanOf(tier, D, i, names, live)
               o == Outcome(Head(p))
               b == ResolveBranch(D[i].name, live["default_branch"])
           IN  /\ \A n \in Keys(tier) \ {b} : o[n] = live[n]
               /\ b \notin {"archived", "default_branch"}
               /\ Head(p).op # "put" => live[Head(p).branch] # Absent
               /\ Tail(p) = << >> => BranchMatches(D[i].protection, o[b])
               /\ Tail(p) # << >> => PlanOf(tier, D, i, names, o) = Tail(p)
<1> DEFINE D == Declared(tier, v)
           p == PlanOf(tier, D, i, names, live)
           r == Head(p)
           o == Outcome(r)
           b == ResolveBranch(D[i].name, live["default_branch"])
           q == D[i].protection
           have == live[b]
           now == o[b]
           signed == have # Absent /\ have.signatures
           sign == BranchRequest(IF q.signatures THEN "sign" ELSE "unsign", b)
           toPut == CanonicalDesired(q) # CanonicalActual(have) \/ (q.signatures /\ have = Absent)
<1>0. tier \in Tiers /\ Holdable("branches", live)
  BY DEF TypeOK
<1>1. BranchConfig(D[i]) /\ b \in Names(tier) /\ b \notin {"archived", "default_branch"}
  BY <1>0, Resolved
<1>2. Keys(tier) = {"archived", "default_branch"} \cup Names(tier) /\ DOMAIN live = Keys(tier)
  BY <1>0, FieldsAre DEF TypeOK, Holdable
<1>3. p = IF live["archived"] = On THEN << >> ELSE BranchPlan(b, q, have)
  BY PlanIs
<1>4. live["archived"] # On /\ p = BranchPlan(b, q, have)
  BY <1>3
<1>5. /\ have # Absent => DOMAIN have = {"rules", "restrictions", "signatures"}
                          /\ have.signatures \in BOOLEAN
      /\ q # Absent => q.signatures \in BOOLEAN
  BY <1>0, <1>1 DEF Holdable, BranchConfig
<1>6. ASSUME r.branch = b
      PROVE  /\ now = BranchWritten(r) /\ \A n \in Keys(tier) \ {b} : o[n] = live[n]
  <2>1. o = [live EXCEPT ![b] = BranchWritten(r)]
    BY <1>6, OutcomeIs
  <2> HIDE DEF o, b
  <2> QED
    BY <1>1, <1>2, <2>1
<1>7. \A s : PlanOf(tier, D, i, names, s) =
               LET c == ResolveBranch(D[i].name, s["default_branch"]) IN
               IF s["archived"] = On THEN << >> ELSE BranchPlan(c, q, s[c])
  BY PlanIs
<1>8. p # << >>
  OBVIOUS
<1> DEFINE Goal == /\ \A n \in Keys(tier) \ {b} : o[n] = live[n]
                   /\ b \notin {"archived", "default_branch"}
                   /\ r.op # "put" => live[r.branch] # Absent
                   /\ Tail(p) = << >> => BranchMatches(q, o[b])
                   /\ Tail(p) # << >> => PlanOf(tier, D, i, names, o) = Tail(p)
<1>9. CASE q = Absent
  <2>1. have # Absent /\ p = << BranchRequest("unprotect", b) >>
    BY <1>4, <1>8, <1>9, BranchPlanForm
  <2> HIDE DEF p
  <2>2. r.op = "unprotect" /\ r.branch = b /\ Tail(p) = << >>
    BY <2>1 DEF BranchRequest
  <2>3. now = Absent
    BY <1>6, <2>2 DEF BranchWritten
  <2> HIDE DEF r
  <2> QED
    BY <1>1, <1>6, <1>9, <2>1, <2>2, <2>3 DEF BranchMatches, p, r
<1>10. CASE q # Absent /\ ~toPut
  <2>1. q.signatures # signed /\ p = << sign >>
    BY <1>4, <1>8, <1>10, BranchPlanForm
  <2>2. have # Absent /\ signed = have.signatures
    BY <1>5, <1>10, <2>1
  <2> HIDE DEF p, have, q, b
  <2>3. r.op = (IF q.signatures THEN "sign" ELSE "unsign") /\ r.branch = b /\ Tail(p) = << >>
    BY <2>1 DEF BranchRequest
  <2>4. (r.op = "sign") = q.signatures /\ r.op \in {"sign", "unsign"}
    BY <1>5, <1>10, <2>3
  <2> HIDE DEF r, sign
  <2>5. BranchWritten(r) = [have EXCEPT !.signatures = (r.op = "sign")]
    BY <2>3, <2>4 DEF BranchWritten, have
  <2>6. now = [have EXCEPT !.signatures = q.signatures]
    BY <1>6, <2>3, <2>4, <2>5
  <2> HIDE DEF now
  <2>7. /\ DOMAIN now = {"rules", "restrictions", "signatures"} /\ now.signatures = q.signatures
        /\ now.rules = have.rules /\ now.restrictions = have.restrictions
    BY <1>5, <2>2, <2>6
  <2>8. now # Absent
    BY <2>7 DEF AbsentIsNone
  <2>9. CanonicalDesired(q) = CanonicalActual(have)
    BY <1>10
  <2>10. BranchMatches(q, now)
    <3>1. CanonicalActual(now) = CanonicalActual(have)
      BY <2>2, <2>7, <2>8 DEF CanonicalActual
    <3>2. /\ CanonicalActual(now).rules = q.rules
          /\ CanonicalActual(now).restrictions =
               IF q.restrictions = Unset THEN Unrestricted ELSE q.restrictions
      BY <2>9, <3>1 DEF CanonicalDesired
    <3> QED
      BY <1>5, <1>10, <2>7, <2>8, <3>2 DEF BranchMatches
  <2>11. r.op # "put" => live[r.branch] # Absent
    BY <2>2, <2>3 DEF have
  <2> QED
    BY <1>1, <1>6, <2>3, <2>10, <2>11 DEF p, r, q, b, now
<1>11. CASE q # Absent /\ toPut
  <2> DEFINE put == PutRequest(b, q)
  <2>1. p = IF q.signatures = signed THEN << put >> ELSE << put, sign >>
    BY <1>4, <1>11, BranchPlanForm
  <2>2. signed \in BOOLEAN
    BY <1>5
  <2> HIDE DEF p, q, b
  <2>3. r = put /\ Tail(p) = IF q.signatures = signed THEN << >> ELSE << sign >>
    BY <2>1
  <2> HIDE DEF r
  <2>4. r.op = "put" /\ r.branch = b /\ r.set = CanonicalDesired(q)
    BY <2>3 DEF PutRequest
  <2>5. now = [rules |-> CanonicalDesired(q).rules,
               restrictions |-> CanonicalDesired(q).restrictions,
               signatures |-> signed]
    BY <1>6, <2>4 DEF BranchWritten
  <2> HIDE DEF now, signed, sign, put
  <2>6. /\ DOMAIN now = {"rules", "restrictions", "signatures"} /\ now.signatures = signed
        /\ now.rules = CanonicalDesired(q).rules
        /\ now.restrictions = CanonicalDesired(q).restrictions
    BY <2>5
  <2>7. now # Absent
    BY <2>6 DEF AbsentIsNone
  <2>8. CanonicalActual(now) = CanonicalDesired(q)
    BY <2>6, <2>7 DEF CanonicalActual, CanonicalDesired
  <2>9. ASSUME Tail(p) = << >> PROVE BranchMatches(q, now)
    <3>1. q.signatures = signed
      BY <2>3, <2>9
    <3>2. /\ CanonicalActual(now).rules = q.rules
          /\ CanonicalActual(now).restrictions =
               IF q.restrictions = Unset THEN Unrestricted ELSE q.restrictions
      BY <2>8 DEF CanonicalDesired
    <3> QED
      BY <1>5, <1>11, <2>2, <2>6, <2>7, <3>1, <3>2 DEF BranchMatches
  <2>10. ASSUME Tail(p) # << >> PROVE PlanOf(tier, D, i, names, o) = Tail(p)
    <3>1. q.signatures # signed /\ Tail(p) = << sign >>
      BY <2>3, <2>10
    <3>2. o["default_branch"] = live["default_branch"] /\ o["archived"] = live["archived"]
      BY <1>1, <1>2, <1>6, <2>4
    <3>3. ResolveBranch(D[i].name, o["default_branch"]) = b
      BY <3>2 DEF b
    <3>4. PlanOf(tier, D, i, names, o) = BranchPlan(b, q, now)
      BY <1>4, <1>7, <3>2, <3>3 DEF now
    <3>5. BranchPlan(b, q, now) = << sign >>
      BY <1>11, <2>2, <2>6, <2>7, <2>8, <3>1, BranchPlanForm DEF sign
    <3> QED
      BY <3>1, <3>4, <3>5
  <2> QED
    BY <1>1, <1>6, <2>4, <2>9, <2>10 DEF p, r, q, b, now
<1> HIDE DEF toPut
<1>12. Goal
  BY <1>9, <1>10, <1>11
<1> QED
  BY <1>12

(* What an undisturbed run that sends a request finds, and changes.        *)
LEMMA Sent ==
    ASSUME TypeOK, PlanIsRight, NEW w \in Workers, quiet[w], Send(w)
    PROVE  /\ tier \in Tiers /\ cfg[w] \in Versions /\ DOMAIN live = Keys(tier)
           /\ step[w] \in 1 .. Steps(tier, Desired(w))
           /\ ~Archived /\ Accepts(Head(plan[w])) /\ Pending(w)
           /\ plan[w] # << >> /\ Short(plan[w])
           /\ live' = Outcome(Head(plan[w])) /\ plan'[w] = Tail(plan[w])
           /\ UNCHANGED << tier, cfg, listed >> /\ Desired(w)' = Desired(w)
           /\ Len(plan[w]) = 1 <=> Tail(plan[w]) = << >>
           /\ Tail(plan[w]) # << >> => UNCHANGED << pc, step >>
<1>1. pc[w] = "send" /\ plan[w] # << >> /\ Short(plan[w])
  BY PlanTypes DEF Send
<1>2. Pending(w)
  BY <1>1 DEF PlanIsRight
<1>3. Len(plan[w]) = 1 <=> Tail(plan[w]) = << >>
  BY <1>1, ShortTail
<1>4. plan' = [plan EXCEPT ![w] = Tail(plan[w])] /\ DOMAIN plan = Workers
  BY DEF Send, TypeOK
<1>5. step[w] \in 1 .. Steps(tier, Desired(w))
  BY <1>1 DEF TypeOK, Desired
<1>6. UNCHANGED << tier, cfg, listed >> /\ live' = Outcome(Head(plan[w])) /\ Accepts(Head(plan[w]))
  BY DEF Send
<1>7. Desired(w)' = Desired(w)
  BY <1>6 DEF Desired
<1>8. Tail(plan[w]) # << >> => UNCHANGED << pc, step >>
  BY <1>3 DEF Send
<1> QED
  BY <1>1, <1>2, <1>3, <1>4, <1>5, <1>6, <1>7, <1>8 DEF TypeOK, Holdable, Accepts

(* The request of a tier that sends one at a time is the plan.             *)
LEMMA SentSingle ==
    ASSUME TypeOK, PlanIsRight, NEW w \in Workers, quiet[w], Send(w), tier \in Single
    PROVE  \E r : /\ PlanOf(tier, Desired(w), step[w], listed[w], live) = << r >>
                  /\ Head(plan[w]) = r /\ Tail(plan[w]) = << >>
<1>1. plan[w] = PlanOf(tier, Desired(w), step[w], listed[w], live) /\ plan[w] # << >>
  BY Sent DEF Pending, SiteCreated, Written, Single
<1>2. PICK r : plan[w] = << r >>
  BY <1>1, SinglePlan, Sent
<1> QED
  BY <1>1, <1>2

(* A site is created or updated as declared, in one request or two.        *)
LEMMA PagesDone ==
    ASSUME TypeOK, PlanIsRight, NEW w \in Workers, quiet[w], Send(w), tier = "pages"
    PROVE  /\ Tail(plan[w]) = << >> => live'["site"] = On /\ FlatMatches(Desired(w), live')
           /\ Tail(plan[w]) # << >> => SiteCreated(w)'
           /\ \A f \in Keys(tier) \ (DOMAIN Desired(w) \cup {"site"}) : live'[f] = live[f]
<1> DEFINE D == Desired(w)
           r == Head(plan[w])
           o == Outcome(r)
           create == Request("create", Only(D, {"build_type", "source"}))
           extras == Request("update", Only(D, {"cname"}))
           update == Request("update", D)
<1>1. tier \in Tiers /\ cfg[w] \in Versions /\ plan[w] # << >> /\ Pending(w) /\ Holdable(tier, live)
  BY Sent DEF TypeOK
<1>2. /\ Keys(tier) = {"site", "build_type", "source", "cname"}
      /\ DOMAIN D \subseteq {"build_type", "source", "cname"}
  BY <1>1, FieldsAre DEF Desired
<1>3. live' = o /\ tier' = tier /\ Desired(w)' = D /\ plan'[w] = Tail(plan[w])
  BY Sent
<1>4. /\ DOMAIN Patched(r) = Keys(tier)
      /\ \A f \in Keys(tier) : Patched(r)[f] = IF f \in DOMAIN r.set THEN r.set[f] ELSE live[f]
      /\ o = IF r.op = "create" THEN [Patched(r) EXCEPT !["site"] = On] ELSE Patched(r)
  BY <1>2, PatchedIs, OutcomeIs
<1>5. live["site"] \in {On, Absent}
  BY <1>1 DEF Holdable
<1>6. \/ /\ plan[w] \in {<< create >>, << create, extras >>}
         /\ (Tail(plan[w]) = << >> <=> "cname" \notin DOMAIN D)
         /\ (Tail(plan[w]) # << >> => Tail(plan[w]) = << extras >>)
      \/ plan[w] = << update >> /\ live["site"] = On
      \/ SiteCreated(w)
  <2>1. CASE SiteCreated(w)
    BY <2>1
  <2>2. CASE plan[w] = PlanOf(tier, D, step[w], listed[w], live)
    <3>1. /\ live["site"] = Absent => plan[w] = IF "cname" \in DOMAIN D THEN << create, extras >>
                                                ELSE << create >>
          /\ live["site"] # Absent => plan[w] = IF Drift(D, live, DOMAIN D) = {} THEN << >>
                                                ELSE << update >>
      BY <2>2, PagesPlanForm
    <3> HIDE DEF create, extras, update
    <3>2. CASE live["site"] = Absent
      <4>1. \/ plan[w] = << create >> /\ "cname" \notin DOMAIN D
            \/ plan[w] = << create, extras >> /\ "cname" \in DOMAIN D
        BY <3>1, <3>2
      <4>2. Tail(<< create >>) = << >> /\ Tail(<< create, extras >>) = << extras >>
            /\ << extras >> # << >>
        OBVIOUS
      <4> QED
        BY <4>1, <4>2
    <3>3. CASE live["site"] # Absent
      BY <1>1, <1>5, <3>1, <3>3
    <3> QED
      BY <3>2, <3>3
  <2> QED
    BY <1>1, <2>1, <2>2 DEF Pending, Written
<1> HIDE DEF D, o
<1>7. D' = D
  BY <1>3 DEF D
<1>8. CASE r = create
  <2>1. r.op = "create" /\ DOMAIN r.set = {"build_type", "source"} \cap DOMAIN D
        /\ \A f \in DOMAIN r.set : r.set[f] = D[f]
    BY <1>8 DEF Request, Only
  <2>2. o["site"] = On /\ \A f \in {"build_type", "source", "cname"} :
            o[f] = IF f \in {"build_type", "source"} \cap DOMAIN D THEN D[f] ELSE live[f]
    BY <1>2, <1>4, <2>1
  <2>3. ASSUME "cname" \notin DOMAIN D PROVE FlatMatches(D, o)
    BY <1>2, <2>2, <2>3 DEF FlatMatches, FieldMatches
  <2>4. Drift(D, o, {"build_type", "source"}) = {}
    BY <2>2, NothingDiffers
  <2>5. \A f \in Keys(tier) \ (DOMAIN D \cup {"site"}) : o[f] = live[f]
    BY <1>2, <2>2
  <2>6. CASE plan[w] \in {<< create >>, << create, extras >>}
    <3>1. Tail(plan[w]) # << >> => SiteCreated(w)'
      BY <1>3, <1>6, <2>2, <2>4, <2>6 DEF SiteCreated, D, update, create, Request
    <3> QED
      BY <1>3, <1>6, <2>2, <2>3, <2>5, <2>6, <3>1 DEF D, update, create, Request, SiteCreated
  <2>7. plan[w] \in {<< create >>, << create, extras >>}
    BY <1>6, <1>8 DEF SiteCreated, update, create, Request
  <2> QED
    BY <2>6, <2>7
<1>9. CASE plan[w] = << update >> /\ live["site"] = On
  <2>1. r = update /\ Tail(plan[w]) = << >>
    BY <1>9
  <2>2. r.op # "create" /\ r.set = D
    BY <2>1 DEF Request
  <2>3. o["site"] = On /\ \A f \in {"build_type", "source", "cname"} :
            o[f] = IF f \in DOMAIN D THEN D[f] ELSE live[f]
    BY <1>2, <1>4, <1>9, <2>2
  <2>4. FlatMatches(D, o)
    BY <1>2, <2>3 DEF FlatMatches, FieldMatches
  <2> QED
    BY <1>2, <1>3, <2>1, <2>3, <2>4 DEF D
<1>10. CASE SiteCreated(w)
  <2>1. r = extras /\ Tail(plan[w]) = << >> /\ live["site"] = On
        /\ Drift(D, live, {"build_type", "source"}) = {}
    BY <1>10 DEF SiteCreated, D
  <2>2. r.op # "create" /\ DOMAIN r.set = {"cname"} \cap DOMAIN D
        /\ \A f \in DOMAIN r.set : r.set[f] = D[f]
    BY <2>1 DEF Request, Only
  <2>3. o["site"] = On /\ \A f \in {"build_type", "source", "cname"} :
            o[f] = IF f \in {"cname"} \cap DOMAIN D THEN D[f] ELSE live[f]
    BY <1>2, <1>4, <2>1, <2>2
  <2>4. FlatMatches(D, o)
    BY <1>2, <2>1, <2>3, NothingDiffers DEF FlatMatches, FieldMatches
  <2> QED
    BY <1>2, <1>3, <2>1, <2>3, <2>4 DEF D
<1>11. r = create \/ (plan[w] = << update >> /\ live["site"] = On) \/ SiteCreated(w)
  <2> HIDE DEF create, extras, update
  <2> QED
    BY <1>6
<1> QED
  BY <1>8, <1>9, <1>10, <1>11

(* A configuration is written, then attached and made the default.         *)
LEMMA CodeSecurityDone ==
    ASSUME TypeOK, PlanIsRight, NEW w \in Workers, quiet[w], Send(w), tier = "org_code_security"
    PROVE  /\ live'["config"] = Desired(w)["config"]
           /\ Tail(plan[w]) = << >> => FlatMatches(Desired(w), live')
           /\ Tail(plan[w]) # << >> => Written(w)'
           /\ \A f \in Keys(tier) \ DOMAIN Desired(w) : live'[f] = live[f]
<1> DEFINE D == Desired(w)
           r == Head(plan[w])
           o == Outcome(r)
           write == Request(IF live["config"] = Absent THEN "create" ELSE "update",
                            Only(D, {"config"}))
           attach == Request("attach", Only(D, {"attached"}))
           default == Request("default", Only(D, {"default"}))
           rest == Tail(plan[w])
<1>1. tier \in Tiers /\ cfg[w] \in Versions /\ plan[w] # << >> /\ Pending(w)
  BY Sent
<1>2. /\ Keys(tier) = {"config", "attached", "default"}
      /\ "config" \in DOMAIN D /\ DOMAIN D \subseteq Keys(tier)
  BY <1>1, FieldsAre DEF Desired
<1>3. live' = o /\ tier' = tier /\ Desired(w)' = D /\ plan'[w] = rest
  BY Sent
<1>4. \A f \in Keys(tier) : o[f] = IF f \in DOMAIN r.set THEN r.set[f] ELSE live[f]
  <2>1. o = Patched(r)
    BY OutcomeIs
  <2>2. \A f \in Keys(tier) : f # "security_and_analysis"
    BY <1>2
  <2> HIDE DEF o
  <2> QED
    BY <2>1, <2>2, PatchedIs
<1> HIDE DEF o
<1>5. \A g \in Keys(tier) : r.set = Only(D, {g}) =>
         \A f \in Keys(tier) : o[f] = IF f = g /\ g \in DOMAIN D THEN D[f] ELSE live[f]
  <2> SUFFICES ASSUME NEW g \in Keys(tier), r.set = Only(D, {g})
               PROVE  \A f \in Keys(tier) : o[f] = IF f = g /\ g \in DOMAIN D THEN D[f] ELSE live[f]
    OBVIOUS
  <2>1. DOMAIN r.set = {g} \cap DOMAIN D /\ \A f \in DOMAIN r.set : r.set[f] = D[f]
    BY DEF Only
  <2> QED
    BY <1>4, <2>1
<1>6. \/ /\ plan[w] = IF "attached" \in DOMAIN D
                      THEN IF "default" \in DOMAIN D THEN << write, attach, default >>
                           ELSE << write, attach >>
                      ELSE IF "default" \in DOMAIN D THEN << write, default >> ELSE << write >>
      \/ Written(w)
  <2>1. CASE plan[w] = PlanOf(tier, D, step[w], listed[w], live)
    BY <1>1, <2>1, CodeSecurityPlanForm
  <2> QED
    BY <1>1, <2>1 DEF Pending, SiteCreated
<1>7. write.set = Only(D, {"config"}) /\ attach.set = Only(D, {"attached"})
      /\ default.set = Only(D, {"default"})
  BY DEF Request
<1>8. Written(w)' <=>
        /\ o["config"] = D["config"]
        /\ \/ /\ {"attached", "default"} \subseteq DOMAIN D
              /\ rest = << attach, default >>
           \/ /\ "attached" \in DOMAIN D /\ "default" \notin DOMAIN D
              /\ rest = << attach >>
           \/ /\ "default" \in DOMAIN D
              /\ Drift(D, o, {"attached"}) = {}
              /\ rest = << default >>
  BY <1>3 DEF Written
<1>9. FlatMatches(D, o) <=> \A f \in DOMAIN D : o[f] = D[f]
  BY <1>1, FlatFields DEF Desired, RulesetTiers
<1>10. Drift(D, live, {"attached"}) = {} <=>
         ("attached" \in DOMAIN D => D["attached"] = live["attached"])
  BY NothingDiffers
<1>11. Drift(D, o, {"attached"}) = {} <=>
         ("attached" \in DOMAIN D => D["attached"] = o["attached"])
  BY NothingDiffers
<1>12. Written(w) <=>
        /\ live["config"] = D["config"]
        /\ \/ /\ {"attached", "default"} \subseteq DOMAIN D
              /\ plan[w] = << attach, default >>
           \/ /\ "attached" \in DOMAIN D /\ "default" \notin DOMAIN D
              /\ plan[w] = << attach >>
           \/ /\ "default" \in DOMAIN D
              /\ Drift(D, live, {"attached"}) = {}
              /\ plan[w] = << default >>
  BY DEF Written
<1> DEFINE Goal == /\ o["config"] = D["config"]
                   /\ rest = << >> => FlatMatches(D, o)
                   /\ rest # << >> => Written(w)'
                   /\ \A f \in Keys(tier) \ DOMAIN D : o[f] = live[f]
<1> HIDE DEF D, write, attach, default
<1>13. ASSUME ~Written(w) PROVE Goal
  <2>1. r = write /\ rest = IF "attached" \in DOMAIN D
                            THEN IF "default" \in DOMAIN D THEN << attach, default >>
                                 ELSE << attach >>
                            ELSE IF "default" \in DOMAIN D THEN << default >> ELSE << >>
    <3>1. \/ /\ plan[w] = << write, attach, default >>
             /\ "attached" \in DOMAIN D /\ "default" \in DOMAIN D
          \/ plan[w] = << write, attach >> /\ "attached" \in DOMAIN D /\ "default" \notin DOMAIN D
          \/ plan[w] = << write, default >> /\ "attached" \notin DOMAIN D /\ "default" \in DOMAIN D
          \/ plan[w] = << write >> /\ "attached" \notin DOMAIN D /\ "default" \notin DOMAIN D
      BY <1>6, <1>13
    <3>2. /\ Head(<< write, attach, default >>) = write
          /\ Tail(<< write, attach, default >>) = << attach, default >>
          /\ Head(<< write, attach >>) = write /\ Tail(<< write, attach >>) = << attach >>
          /\ Head(<< write, default >>) = write /\ Tail(<< write, default >>) = << default >>
          /\ Head(<< write >>) = write /\ Tail(<< write >>) = << >>
      OBVIOUS
    <3> QED
      BY <3>1, <3>2
  <2> HIDE DEF r, rest
  <2>2. \A f \in Keys(tier) : o[f] = IF f = "config" THEN D[f] ELSE live[f]
    BY <1>2, <1>5, <1>7, <2>1
  <2>3. rest = << >> => DOMAIN D = {"config"}
    BY <1>2, <2>1
  <2>4. rest = << >> => FlatMatches(D, o)
    BY <1>2, <1>9, <2>2, <2>3
  <2>5. rest # << >> => Written(w)'
    BY <1>2, <1>8, <1>11, <2>1, <2>2
  <2> QED
    BY <1>2, <2>2, <2>4, <2>5
<1>14. ASSUME Written(w), plan[w] = << attach, default >>,
              {"attached", "default"} \subseteq DOMAIN D
       PROVE  Goal
  <2>1. r = attach /\ rest = << default >>
    BY <1>14
  <2> HIDE DEF r, rest
  <2>2. \A f \in Keys(tier) : o[f] = IF f = "attached" THEN D[f] ELSE live[f]
    BY <1>2, <1>5, <1>7, <1>14, <2>1
  <2>3. Written(w)'
    BY <1>2, <1>8, <1>11, <1>12, <1>14, <2>1, <2>2
  <2> QED
    BY <1>2, <1>12, <1>14, <2>1, <2>2, <2>3
<1>15. ASSUME Written(w), plan[w] = << attach >>, "attached" \in DOMAIN D, "default" \notin DOMAIN D
       PROVE  Goal
  <2>1. r = attach /\ rest = << >>
    BY <1>15
  <2> HIDE DEF r, rest
  <2>2. \A f \in Keys(tier) : o[f] = IF f = "attached" THEN D[f] ELSE live[f]
    BY <1>2, <1>5, <1>7, <1>15, <2>1
  <2> QED
    BY <1>2, <1>9, <1>12, <1>15, <2>1, <2>2
<1>16. ASSUME Written(w), plan[w] = << default >>, "default" \in DOMAIN D,
              Drift(D, live, {"attached"}) = {}
       PROVE  Goal
  <2>1. r = default /\ rest = << >>
    BY <1>16
  <2> HIDE DEF r, rest
  <2>2. \A f \in Keys(tier) : o[f] = IF f = "default" THEN D[f] ELSE live[f]
    BY <1>2, <1>5, <1>7, <1>16, <2>1
  <2> QED
    BY <1>2, <1>9, <1>10, <1>12, <1>16, <2>1, <2>2
<1> HIDE DEF rest, o
<1>17. Goal
  BY <1>12, <1>13, <1>14, <1>15, <1>16
<1> QED
  BY <1>3, <1>17 DEF D, rest

-----------------------------------------------------------------------------
(* The inductive invariant.                                                *)

Done(w, s, last) == \A j \in 1 .. last : StepMatches(tier, Desired(w), j, s)

LEMMA CoherentIs ==
    ASSUME NEW t \in RulesetTiers \cup {"branches"}, NEW D, Coherent(t, D)
    PROVE  /\ t \in RulesetTiers => \A i, j \in DOMAIN D : D[i].name = D[j].name => i = j
           /\ t = "branches" => \A i, j \in DOMAIN D, b \in DefaultBranches :
                ResolveBranch(D[i].name, b) = ResolveBranch(D[j].name, b) => i = j
<1>1. t \in RulesetTiers => \A i, j \in DOMAIN D : D[i].name = D[j].name => i = j
  BY DEF Coherent, ActionsTiers, RulesetTiers
<1>2. t = "branches" => \A i, j \in DOMAIN D, b \in DefaultBranches :
        ResolveBranch(D[i].name, b) = ResolveBranch(D[j].name, b) => i = j
  BY DEF Coherent, ActionsTiers, RulesetTiers
<1> QED
  BY <1>1, <1>2

(* A request leaves the rest of the plan right, and what the earlier steps *)
(* have brought about; the last one completes its step.                    *)
LEMMA SendKeeps ==
    ASSUME TypeOK, PlanIsRight, AbsentIsNone, NEW w \in Workers, quiet[w], Send(w)
    PROVE  /\ Tail(plan[w]) # << >> => Pending(w)'
           /\ Coherent(tier, Desired(w)) /\ Done(w, live, step[w] - 1) =>
                Done(w, live', IF Tail(plan[w]) = << >> THEN step[w] ELSE step[w] - 1)
<1> DEFINE D == Desired(w)
           i == step[w]
           last == IF Tail(plan[w]) = << >> THEN i ELSE i - 1
           Goal == /\ Tail(plan[w]) # << >> => Pending(w)'
                   /\ Coherent(tier, D) /\ Done(w, live, i - 1) => Done(w, live', last)
<1>0. /\ tier \in Tiers /\ cfg[w] \in Versions /\ DOMAIN live = Keys(tier)
      /\ i \in 1 .. Steps(tier, D) /\ D = Declared(tier, cfg[w])
      /\ live' = Outcome(Head(plan[w])) /\ plan'[w] = Tail(plan[w])
      /\ tier' = tier /\ listed' = listed /\ Desired(w)' = Desired(w)
      /\ Tail(plan[w]) # << >> => step' = step
  BY Sent DEF Desired
<1>1. i \in Nat \ {0}
  BY <1>0, StepsPositive
<1> HIDE DEF D, i
<1>2. ASSUME Steps(tier, D) = 1
      PROVE  i = 1 /\ Done(w, live', 0) /\ (Done(w, live', 1) <=> StepMatches(tier, D, 1, live'))
  <2>1. i = 1
    BY <1>0, <1>2
  <2>2. 1 .. 0 = {} /\ 1 .. 1 = {1}
    OBVIOUS
  <2> QED
    BY <2>1, <2>2 DEF Done, D
<1>3. ASSUME tier \in Single
      PROVE  \E r : /\ PlanOf(tier, D, i, listed[w], live) = << r >>
                    /\ live' = Outcome(r) /\ Accepts(r) /\ Tail(plan[w]) = << >> /\ last = i
  BY <1>0, <1>3, SentSingle, Sent DEF D, i
<1>4. ASSUME tier \in PatchTiers \cup LimitTiers \cup {"code_scanning"} PROVE Goal
  <2>0. tier \in Single /\ Steps(tier, D) = 1
    BY <1>0, <1>4, StepsAre DEF PatchTiers, LimitTiers, ActionsTiers, RulesetTiers, AllTiers, Single
  <2>1. PICK r : /\ PlanOf(tier, D, i, listed[w], live) = << r >>
                 /\ live' = Outcome(r) /\ Tail(plan[w]) = << >> /\ last = i
    BY <1>3, <2>0
  <2>2. StepMatches(tier, D, 1, live')
    <3>1. CASE tier \in PatchTiers
      <4>1. PatchPlan(D, live) = << r >>
        BY <2>1, <3>1, PlanIs
      <4> QED
        BY <1>0, <2>1, <3>1, <4>1, PatchDone, StepIs
    <3>2. CASE tier \in LimitTiers
      <4>1. InteractionLimitsPlan(D, live) = << r >>
        BY <2>1, <3>2, PlanIs
      <4> QED
        BY <1>0, <2>1, <3>2, <4>1, LimitsDone, StepIs
    <3>3. CASE tier = "code_scanning"
      <4>1. CodeScanningPlan(D, live) = << r >>
        BY <2>1, <3>3, PlanIs
      <4> QED
        BY <1>0, <2>1, <3>3, <4>1, ScanningDone, StepIs
    <3> QED
      BY <1>4, <3>1, <3>2, <3>3
  <2> QED
    BY <1>2, <2>0, <2>1, <2>2
<1>5. ASSUME tier = "security" PROVE Goal
  <2>0. tier \in Single /\ Steps(tier, D) = 3
    BY <1>0, <1>5, StepsAre DEF AllTiers, Single
  <2>1. PICK r : /\ PlanOf(tier, D, i, listed[w], live) = << r >>
                 /\ live' = Outcome(r) /\ Tail(plan[w]) = << >> /\ last = i
    BY <1>3, <2>0
  <2>2. SecurityPlan(Toggles[i], D, live) = << r >> /\ i \in 1 .. 3
    BY <1>0, <1>5, <2>0, <2>1, PlanIs
  <2>3. Coherent(tier, D) /\ Done(w, live, i - 1) => Done(w, live', i)
    BY <1>0, <1>5, <2>1, <2>2, SecurityDone DEF Done, D
  <2> QED
    BY <2>1, <2>3
<1>6. ASSUME tier \in ActionsTiers PROVE Goal
  <2>0. tier \in Single /\ Steps(tier, D) = 2
    BY <1>0, <1>6, StepsAre DEF AllTiers, Single, ActionsTiers
  <2>1. PICK r : /\ PlanOf(tier, D, i, listed[w], live) = << r >>
                 /\ live' = Outcome(r) /\ Tail(plan[w]) = << >> /\ last = i
    BY <1>3, <2>0
  <2>2. ActionsPlan(i, D, live) = << r >> /\ i \in 1 .. 2
    BY <1>0, <1>6, <2>0, <2>1, PlanIs
  <2>3. Coherent(tier, D) /\ Done(w, live, i - 1) => Done(w, live', i)
    BY <1>0, <1>6, <2>1, <2>2, ActionsDone DEF Done, D
  <2> QED
    BY <2>1, <2>3
<1>7. ASSUME tier \in RulesetTiers PROVE Goal
  <2>0. tier \in Single
    BY <1>7 DEF AllTiers, Single, RulesetTiers
  <2>1. PICK r : /\ PlanOf(tier, D, i, listed[w], live) = << r >>
                 /\ live' = Outcome(r) /\ Tail(plan[w]) = << >> /\ last = i
    BY <1>3, <2>0
  <2>2. RulesetPlan(D[i], listed[w], live[D[i].name]) = << r >>
    BY <1>7, <2>1, PlanIs
  <2>3. i \in DOMAIN D /\ DOMAIN D = 1 .. Steps(tier, D) /\ Steps(tier, D) \in Nat
    BY <1>0, <1>7, StepsPositive
  <2>4. /\ RulesetMatches(D[i], live'[D[i].name])
        /\ \A n \in Keys(tier) \ {D[i].name} : live'[n] = live[n]
    <3>1. Ruleset(D[i]) /\ D[i].name \in Keys(tier)
      BY <1>0, <1>7, <2>3, DeclaredAs, FieldsAre
    <3>2. /\ RulesetMatches(D[i], Outcome(r)[D[i].name])
          /\ \A n \in Keys(tier) \ {D[i].name} : Outcome(r)[n] = live[n]
      BY <1>7, <2>2, <3>1, RulesetDone
    <3> QED
      BY <2>1, <3>2
  <2>5. ASSUME Coherent(tier, D), Done(w, live, i - 1), NEW j \in 1 .. i
        PROVE  StepMatches(tier, D, j, live')
    <3>1. CASE j = i
      BY <1>7, <2>4, <3>1, StepIs
    <3>2. CASE j # i
      <4>1. j \in 1 .. i - 1 /\ j \in DOMAIN D
        BY <1>1, <2>3, <2>5, <3>2
      <4>2. D[j].name \in Keys(tier) \ {D[i].name}
        BY <1>0, <1>7, <2>3, <2>5, <3>2, <4>1, CoherentIs, DeclaredAs, FieldsAre
      <4>3. RulesetMatches(D[j], live[D[j].name])
        BY <1>7, <2>5, <4>1, StepIs DEF Done, D
      <4> QED
        BY <1>7, <2>4, <4>2, <4>3, StepIs
    <3> QED
      BY <3>1, <3>2
  <2> QED
    BY <2>1, <2>5 DEF Done, D
<1>8. ASSUME tier = "pages" PROVE Goal
  <2>0. Steps(tier, D) = 1
    BY <1>0, <1>8, StepsAre DEF AllTiers, ActionsTiers, RulesetTiers
  <2>1. /\ Tail(plan[w]) = << >> => StepMatches(tier, D, 1, live')
        /\ Tail(plan[w]) # << >> => Pending(w)'
    BY <1>8, PagesDone, StepIs DEF Pending, D
  <2> QED
    BY <1>2, <2>0, <2>1
<1>9. ASSUME tier = "org_code_security" PROVE Goal
  <2>0. Steps(tier, D) = 1
    BY <1>0, <1>9, StepsAre DEF AllTiers, ActionsTiers, RulesetTiers
  <2>1. /\ StepMatches(tier, D, 1, live')
        /\ Tail(plan[w]) # << >> => Pending(w)'
    BY <1>9, CodeSecurityDone, StepIs DEF Pending, D
  <2> QED
    BY <1>2, <2>0, <2>1
<1>10. ASSUME tier = "branches" PROVE Goal
  <2> DEFINE b == ResolveBranch(D[i].name, live["default_branch"])
  <2>0. i \in DOMAIN D /\ DOMAIN D = 1 .. Steps(tier, D) /\ Steps(tier, D) \in Nat
    BY <1>0, <1>10, StepsPositive
  <2>1. plan[w] = PlanOf(tier, D, i, listed[w], live) /\ plan[w] # << >>
    BY <1>10, Sent DEF Pending, SiteCreated, Written, D, i
  <2>2. /\ \A n \in Keys(tier) \ {b} : live'[n] = live[n]
        /\ b \notin {"archived", "default_branch"}
        /\ Tail(plan[w]) = << >> => BranchMatches(D[i].protection, live'[b])
        /\ Tail(plan[w]) # << >> => PlanOf(tier, D, i, listed[w], live') = Tail(plan[w])
    BY <1>0, <1>10, <2>0, <2>1, BranchDone
  <2>3. Tail(plan[w]) # << >> => Pending(w)'
    BY <1>0, <2>2 DEF Pending, D, i
  <2>4. live'["default_branch"] = live["default_branch"]
    BY <1>0, <1>10, <2>2, FieldsAre
  <2>5. Tail(plan[w]) = << >> => StepMatches(tier, D, i, live')
    BY <1>10, <2>2, <2>4, StepIs
  <2>6. ASSUME Coherent(tier, D), Done(w, live, i - 1), NEW j \in 1 .. i - 1
        PROVE  StepMatches(tier, D, j, live')
    <3> DEFINE c == ResolveBranch(D[j].name, live["default_branch"])
    <3>1. j \in DOMAIN D /\ j # i
      BY <1>1, <2>0, <2>6
    <3>2. live["default_branch"] \in DefaultBranches /\ c \in Names(tier)
      BY <1>0, <1>10, <3>1, Resolved DEF TypeOK, Holdable
    <3>3. c # b
      BY <1>10, <2>0, <2>6, <3>1, <3>2, CoherentIs
    <3>4. live'[c] = live[c]
      BY <1>0, <1>10, <2>2, <3>2, <3>3, FieldsAre
    <3>5. StepMatches(tier, D, j, live)
      BY <2>6 DEF Done, D
    <3> QED
      BY <1>10, <2>4, <3>4, <3>5, StepIs
  <2>7. \A j \in 1 .. i : j = i \/ j \in 1 .. i - 1
    BY <1>1
  <2> QED
    BY <2>3, <2>5, <2>6, <2>7 DEF Done, D
<1>11. Goal
  BY <1>0, <1>4, <1>5, <1>6, <1>7, <1>8, <1>9, <1>10, TierCases
<1> QED
  BY <1>11 DEF D, i

(* What concerns one run alone.                                            *)
RunIsRight(w) ==
    quiet[w] =>
        /\ pc[w] = "send" => Pending(w)
        /\ pc[w] \in {"read", "send"} /\ tier \in RulesetTiers /\ Coherent(tier, Desired(w)) =>
             \A i \in step[w] .. Steps(tier, Desired(w)) :
                 Desired(w)[i].name \in listed[w] <=> live[Desired(w)[i].name] # Absent
        /\ Coherent(tier, Desired(w)) =>
             Archived \/ \A i \in Behind(w) : StepMatches(tier, Desired(w), i, live)

LEMMA RunByRun == (PlanIsRight /\ ListingIsRight /\ Progress) <=> \A w \in Workers : RunIsRight(w)
  BY DEF PlanIsRight, ListingIsRight, Progress, RunIsRight

(* A step of others that leaves the settings alone does not matter.        *)
LEMMA RunAlone ==
    ASSUME NEW w \in Workers, RunIsRight(w), UNCHANGED << tier, live >>,
           pc'[w] = pc[w], cfg'[w] = cfg[w], step'[w] = step[w], listed'[w] = listed[w],
           plan'[w] = plan[w], quiet'[w] = quiet[w]
    PROVE  RunIsRight(w)'
  BY DEF RunIsRight, Pending, SiteCreated, Written, Desired, Behind, Archived

(* Neither does one after which a run is no longer undisturbed, or over    *)
(* without success.                                                        *)
LEMMA RunOver ==
    ASSUME NEW w \in Workers, ~quiet'[w] \/ pc'[w] \in {"idle", "failed"}
    PROVE  RunIsRight(w)'
  BY DEF RunIsRight, Behind

LEMMA StartRight ==
    ASSUME TypeOK, NEW w \in Workers, Start(w)
    PROVE  RunIsRight(w)'
<1>1. /\ pc'[w] = "read" /\ cfg'[w] = version /\ step'[w] = 1 /\ listed'[w] = Listing
      /\ UNCHANGED << tier, live >> /\ tier \in Tiers /\ version \in Versions
  BY DEF Start, TypeOK
<1>2. Desired(w)' = Declared(tier, version)
  BY <1>1 DEF Desired
<1>3. Behind(w)' = {}
  BY <1>1 DEF Behind
<1>4. ASSUME tier \in RulesetTiers, NEW i \in 1 .. Steps(tier, Declared(tier, version))
      PROVE  LET n == Declared(tier, version)[i].name IN n \in Listing <=> live[n] # Absent
  <2>1. i \in DOMAIN Declared(tier, version)
    BY <1>1, <1>4, StepsPositive
  <2> QED
    BY <1>1, <1>4, <2>1, ListingFinds
<1> QED
  BY <1>1, <1>2, <1>3, <1>4 DEF RunIsRight

LEMMA ReadRight ==
    ASSUME TypeOK, NEW w \in Workers, RunIsRight(w), Read(w)
    PROVE  RunIsRight(w)'
<1> DEFINE D == Desired(w)
           i == step[w]
           requests == PlanOf(tier, D, i, listed[w], live)
<1>1. /\ pc[w] = "read" /\ plan' = [plan EXCEPT ![w] = requests] /\ DOMAIN plan = Workers
      /\ UNCHANGED << tier, live, cfg, listed, quiet >> /\ Desired(w)' = D
      /\ requests = << >> => Advance(w)
      /\ requests # << >> => pc' = [pc EXCEPT ![w] = "send"] /\ UNCHANGED step
  BY DEF Read, Desired, TypeOK
<1>2. /\ i \in 1 .. Steps(tier, D) /\ Steps(tier, D) \in Nat \ {0} /\ tier \in Tiers
      /\ cfg[w] \in Versions /\ Holdable(tier, live) /\ D = Declared(tier, cfg[w])
      /\ pc \in [Workers -> {"idle", "read", "send", "done", "failed"}] /\ step \in [Workers -> Nat]
  BY <1>1, StepsPositive DEF TypeOK, Desired
<1>3. plan'[w] = requests
  BY <1>1
<1> SUFFICES ASSUME quiet[w] PROVE RunIsRight(w)'
  BY <1>1, RunOver
<1>4. CASE requests # << >>
  <2>1. pc'[w] = "send" /\ step'[w] = i
    BY <1>1, <1>2, <1>4
  <2>2. Pending(w)'
    BY <1>1, <1>3, <2>1 DEF Pending
  <2>3. Behind(w)' = Behind(w)
    BY <1>1, <2>1 DEF Behind
  <2>4. Archived' = Archived
    BY <1>1 DEF Archived
  <2> QED
    BY <1>1, <2>1, <2>2, <2>3, <2>4 DEF RunIsRight
<1>5. CASE requests = << >>
  <2>1. \/ pc'[w] = "read" /\ step'[w] = i + 1
        \/ pc'[w] = "done" /\ step'[w] = i /\ i = Steps(tier, D)
    BY <1>1, <1>2, <1>5 DEF Advance, Desired
  <2>2. Behind(w)' = 1 .. i /\ Behind(w) = 1 .. i - 1
    BY <1>1, <1>2, <2>1 DEF Behind
  <2>3. ASSUME Coherent(tier, D), ~Archived, NEW j \in 1 .. i
        PROVE  StepMatches(tier, D, j, live)
    <3>1. CASE j \in 1 .. i - 1
      BY <1>1, <2>2, <2>3, <3>1 DEF RunIsRight
    <3>2. CASE j = i
      <4>1. tier \in RulesetTiers => (D[i].name \in listed[w] <=> live[D[i].name] # Absent)
        BY <1>1, <1>2, <2>3 DEF RunIsRight
      <4>2. ~(tier \in {"repository", "branches"} /\ live["archived"] = On)
        BY <2>3 DEF Archived
      <4> QED
        BY <1>2, <1>5, <3>2, <4>1, <4>2, EmptyPlan
    <3>3. j \in 1 .. i - 1 \/ j = i
      BY <1>2
    <3> QED
      BY <3>1, <3>2, <3>3
  <2>4. ASSUME pc'[w] \in {"read", "send"}, tier \in RulesetTiers, Coherent(tier, D),
               NEW j \in step'[w] .. Steps(tier, D)
        PROVE  D[j].name \in listed[w] <=> live[D[j].name] # Absent
    <3>1. j \in i .. Steps(tier, D)
      BY <1>2, <2>1, <2>4
    <3> QED
      BY <1>1, <2>4, <3>1 DEF RunIsRight
  <2>5. Archived' = Archived /\ pc'[w] # "send"
    BY <1>1, <2>1 DEF Archived
  <2> HIDE DEF D, i, requests
  <2> QED
    BY <1>1, <2>2, <2>3, <2>4, <2>5 DEF RunIsRight
<1> QED
  BY <1>4, <1>5

LEMMA SendRight ==
    ASSUME TypeOK, PlanIsRight, AbsentIsNone, NEW w \in Workers, RunIsRight(w), Send(w)
    PROVE  RunIsRight(w)'
<1> DEFINE D == Desired(w)
           i == step[w]
<1>1. (quiet'[w] => quiet[w]) /\ pc[w] = "send"
  BY DEF Send
<1> SUFFICES ASSUME quiet[w] PROVE RunIsRight(w)'
  BY <1>1, RunOver
<1>2. /\ tier \in Tiers /\ cfg[w] \in Versions /\ DOMAIN live = Keys(tier)
      /\ i \in 1 .. Steps(tier, D) /\ D = Declared(tier, cfg[w])
      /\ ~Archived /\ live' = Outcome(Head(plan[w])) /\ plan'[w] = Tail(plan[w])
      /\ UNCHANGED << tier, cfg, listed >> /\ Desired(w)' = D
      /\ Len(plan[w]) = 1 <=> Tail(plan[w]) = << >>
      /\ Tail(plan[w]) # << >> => UNCHANGED << pc, step >>
  BY Sent DEF Desired
<1>3. /\ Steps(tier, D) \in Nat \ {0} /\ step \in [Workers -> Nat]
      /\ pc \in [Workers -> {"idle", "read", "send", "done", "failed"}]
  BY <1>2, StepsPositive DEF TypeOK
<1>4. Coherent(tier, D) => Done(w, live, i - 1)
  BY <1>1, <1>2 DEF RunIsRight, Behind, Done
<1>5. CASE Tail(plan[w]) # << >>
  <2>1. Pending(w)' /\ pc'[w] = "send" /\ step'[w] = i /\ Behind(w)' = 1 .. i - 1
    BY <1>1, <1>2, <1>5, SendKeeps DEF Behind
  <2>2. Coherent(tier, D) => Done(w, live', i - 1)
    BY <1>4, <1>5, SendKeeps
  <2>3. tier \notin RulesetTiers
    <3>1. tier \in RulesetTiers => tier \in Single
      BY DEF RulesetTiers, Single, AllTiers
    <3> QED
      BY <1>5, <3>1, SentSingle
  <2> QED
    BY <1>2, <2>1, <2>2, <2>3 DEF RunIsRight, Done
<1>6. CASE Tail(plan[w]) = << >>
  <2>1. \/ pc'[w] = "read" /\ step'[w] = i + 1
        \/ pc'[w] = "done" /\ step'[w] = i /\ i = Steps(tier, D)
    <3>1. Advance(w)
      BY <1>2, <1>6 DEF Send
    <3> QED
      BY <1>2, <1>3, <3>1 DEF Advance
  <2>2. Behind(w)' = 1 .. i
    BY <1>2, <1>3, <2>1 DEF Behind
  <2>3. Coherent(tier, D) => Done(w, live', i)
    BY <1>4, <1>6, SendKeeps
  <2>4. ASSUME pc'[w] \in {"read", "send"}, tier \in RulesetTiers, Coherent(tier, D),
               NEW j \in step'[w] .. Steps(tier, D)
        PROVE  D[j].name \in listed[w] <=> live'[D[j].name] # Absent
    <3>1. j \in i .. Steps(tier, D) /\ j # i
      BY <1>2, <1>3, <2>1, <2>4
    <3>2. D[j].name \in listed[w] <=> live[D[j].name] # Absent
      BY <1>1, <2>4, <3>1 DEF RunIsRight
    <3>3. DOMAIN D = 1 .. Steps(tier, D)
      BY <1>2, <2>4, StepsPositive
    <3>4. i \in DOMAIN D /\ j \in DOMAIN D
      BY <1>2, <1>3, <3>1, <3>3
    <3>5. D[j].name \in Keys(tier) /\ D[j].name # D[i].name
      BY <1>2, <2>4, <3>1, <3>4, CoherentIs, DeclaredAs, FieldsAre
    <3>6. PICK r : PlanOf(tier, D, i, listed[w], live) = << r >> /\ Head(plan[w]) = r
      <4>1. tier \in Single
        BY <2>4 DEF RulesetTiers, Single, AllTiers
      <4> QED
        BY <4>1, SentSingle
    <3>7. RulesetPlan(D[i], listed[w], live[D[i].name]) = << r >>
      BY <2>4, <3>6, PlanIs
    <3>8. \A n \in Keys(tier) \ {D[i].name} : Outcome(r)[n] = live[n]
      <4>1. Ruleset(D[i]) /\ D[i].name \in Keys(tier)
        BY <1>2, <2>4, <3>4, DeclaredAs, FieldsAre
      <4> QED
        BY <2>4, <3>7, <4>1, RulesetDone
    <3> QED
      BY <1>2, <3>2, <3>5, <3>6, <3>8
  <2>5. pc'[w] # "send"
    BY <2>1
  <2> HIDE DEF D, i
  <2> QED
    BY <1>2, <2>2, <2>3, <2>4, <2>5 DEF RunIsRight, Done, D
<1> QED
  BY <1>5, <1>6

LEMMA InvStep ==
    ASSUME IInv, AbsentIsNone, [Next]_vars
    PROVE  IInv'
<1>1. TypeOK' /\ TypeOK /\ PlanIsRight
  BY TypeStep DEF IInv
<1>2. ASSUME NEW w \in Workers PROVE RunIsRight(w)
  BY RunByRun DEF IInv
<1>3. ASSUME NEW w \in Workers PROVE RunIsRight(w)'
  <2>1. CASE ChangeConfig \/ \E s \in States(tier) : Edit(s)
    BY <2>1, RunOver DEF ChangeConfig, Edit, NobodyQuiet
  <2>2. ASSUME NEW x \in Workers, Start(x) PROVE RunIsRight(w)'
    <3>1. CASE x = w
      BY <1>1, <2>2, <3>1, StartRight
    <3>2. CASE x # w
      <4>1. /\ UNCHANGED << tier, live >> /\ pc'[w] = pc[w] /\ cfg'[w] = cfg[w]
            /\ step'[w] = step[w] /\ listed'[w] = listed[w]
            /\ plan'[w] = plan[w] /\ quiet'[w] = quiet[w]
        BY <1>1, <2>2, <3>2 DEF Start, TypeOK
      <4> QED
        BY <1>2, <4>1, RunAlone
    <3> QED
      BY <3>1, <3>2
  <2>3. ASSUME NEW x \in Workers, Read(x) PROVE RunIsRight(w)'
    <3>1. CASE x = w
      BY <1>1, <1>2, <2>3, <3>1, ReadRight
    <3>2. CASE x # w
      <4>1. /\ UNCHANGED << tier, live, cfg, listed, quiet >> /\ plan'[w] = plan[w]
        BY <1>1, <2>3, <3>2 DEF Read, TypeOK
      <4>2. pc'[w] = pc[w] /\ step'[w] = step[w]
        BY <1>1, <2>3, <3>2 DEF Read, Advance, TypeOK
      <4> QED
        BY <1>2, <4>1, <4>2, RunAlone
    <3> QED
      BY <3>1, <3>2
  <2>4. ASSUME NEW x \in Workers, Send(x) PROVE RunIsRight(w)'
    <3>1. CASE x = w
      BY <1>1, <1>2, <2>4, <3>1, SendRight
    <3>2. CASE x # w
      BY <2>4, <3>2, RunOver DEF Send
    <3> QED
      BY <3>1, <3>2
  <2>5. ASSUME NEW x \in Workers, Refused(x) \/ Fail(x) PROVE RunIsRight(w)'
    <3>1. CASE x = w
      BY <1>1, <2>5, <3>1, RunOver DEF Refused, Fail, TypeOK
    <3>2. CASE x # w
      <4>1. /\ UNCHANGED << tier, live >> /\ pc'[w] = pc[w] /\ cfg'[w] = cfg[w]
            /\ step'[w] = step[w] /\ listed'[w] = listed[w]
            /\ plan'[w] = plan[w] /\ quiet'[w] = quiet[w]
        BY <1>1, <2>5, <3>2 DEF Refused, Fail, TypeOK
      <4> QED
        BY <1>2, <4>1, RunAlone
    <3> QED
      BY <3>1, <3>2
  <2>6. CASE UNCHANGED vars
    BY <1>2, <2>6, RunAlone DEF vars
  <2> QED
    BY <2>1, <2>2, <2>3, <2>4, <2>5, <2>6 DEF Next
<1>4. (PlanIsRight /\ ListingIsRight /\ Progress)' <=> (\A w \in Workers : RunIsRight(w))'
  BY RunByRun, PTL
<1>5. (\A w \in Workers : RunIsRight(w))'
  BY <1>3
<1> QED
  BY <1>1, <1>4, <1>5 DEF IInv

(* What a run that nobody disturbs has still to send is what the settings  *)
(* need as they are now, and the steps it has behind it hold: the          *)
(* inductive invariant.                                                    *)
THEOREM QuietRunsAreRight ==
    ASSUME AbsentIsNone
    PROVE  Spec => []IInv
<1>1. Init => IInv
  <2> SUFFICES ASSUME Init PROVE IInv
    OBVIOUS
  <2>1. Init => TypeOK
    <3>1. Holdable(tier, live)
      BY StatesAssumption DEF Init
    <3>2. \A w \in Workers : plan[w] = << >> /\ pc[w] = "idle"
      BY DEF Init
    <3> QED
      BY <3>1, <3>2, BoundsAssumption, ShortSequences DEF Init, TypeOK, Versions, Short
  <2>2. \A w \in Workers : ~quiet[w]
    BY DEF Init
  <2> QED
    BY <2>1, <2>2 DEF IInv, PlanIsRight, ListingIsRight, Progress
<1>2. IInv /\ [Next]_vars => IInv'
  BY InvStep
<1> QED
  BY <1>1, <1>2, PTL DEF Spec

-----------------------------------------------------------------------------
(* The properties of undisturbed runs.                                     *)

AllCoherent == \A t \in Tiers, v \in Versions : Coherent(t, Declared(t, v))

(* A run that is done has every step behind it.                            *)
THEOREM QuietRunsMatch ==
    ASSUME AbsentIsNone, AllCoherent
    PROVE  Spec => []QuietRunMatches
<1>1. IInv => QuietRunMatches
  <2> SUFFICES ASSUME IInv, NEW w \in Workers, quiet[w], pc[w] = "done", ~Archived
               PROVE  Matches(cfg[w])
    BY DEF QuietRunMatches
  <2>1. TypeOK /\ tier \in Tiers /\ cfg[w] \in Versions
    BY DEF IInv, TypeOK
  <2>2. Coherent(tier, Desired(w))
    BY <2>1 DEF AllCoherent, Desired
  <2>3. Behind(w) = 1 .. Steps(tier, Desired(w))
    BY DEF Behind
  <2>4. \A i \in 1 .. Steps(tier, Desired(w)) : StepMatches(tier, Desired(w), i, live)
    BY <2>2, <2>3 DEF IInv, Progress
  <2> QED
    BY <2>1, <2>4, StepByStep DEF Desired
<1> QED
  BY <1>1, QuietRunsAreRight, PTL

(* A configuration that was written is attached and made the default.      *)
THEOREM WrittenAttached ==
    ASSUME AbsentIsNone
    PROVE  Spec => WrittenIsAttached
<1>1. IInv /\ [Next]_vars =>
        [\A w \in Workers :
           tier = "org_code_security" /\ Send(w) /\ quiet[w] /\ pc'[w] = "done" =>
              FlatMatches(Declared(tier, cfg[w]), live')]_vars
  <2> SUFFICES ASSUME IInv, NEW w \in Workers, tier = "org_code_security", Send(w), quiet[w],
                      pc'[w] = "done"
               PROVE  FlatMatches(Declared(tier, cfg[w]), live')
    OBVIOUS
  <2>1. TypeOK /\ PlanIsRight
    BY DEF IInv
  <2>2. pc[w] = "send"
    BY DEF Send
  <2>3. Tail(plan[w]) = << >>
    BY <2>1, <2>2, Sent
  <2> QED
    BY <2>1, <2>3, CodeSecurityDone DEF Desired
<1> QED
  BY <1>1, QuietRunsAreRight, PTL DEF Spec, WrittenIsAttached

LEMMA AcceptsIs ==
    ASSUME NEW r, ~Archived
    PROVE  /\ tier \in PatchTiers \cup LimitTiers \cup ActionsTiers => Accepts(r)
           /\ tier = "security" => (Accepts(r) <=> (r.set = [fixes |-> On] => live["alerts"] = On))
           /\ tier = "pages" => (Accepts(r) <=> ((live["site"] = Absent) <=> (r.op = "create")))
           /\ tier = "code_scanning" => (Accepts(r) <=> live["state"] # Absent)
           /\ tier = "org_code_security" =>
                (Accepts(r) <=> ((live["config"] = Absent) <=> (r.op = "create")))
           /\ tier \in RulesetTiers =>
                (Accepts(r) <=> ((live[r.ruleset.name] = Absent) <=> (r.op = "create")))
           /\ tier = "branches" => (Accepts(r) <=> (r.op # "put" => live[r.branch] # Absent))
<1> USE DEF PatchTiers, LimitTiers, ActionsTiers, RulesetTiers, Accepts
<1>1. tier \in PatchTiers \cup LimitTiers \cup ActionsTiers => Accepts(r)
  OBVIOUS
<1>2. tier = "security" => (Accepts(r) <=> (r.set = [fixes |-> On] => live["alerts"] = On))
  OBVIOUS
<1>3. tier = "pages" => (Accepts(r) <=> ((live["site"] = Absent) <=> (r.op = "create")))
  OBVIOUS
<1>4. tier = "code_scanning" => (Accepts(r) <=> live["state"] # Absent)
  OBVIOUS
<1>5. tier = "org_code_security" =>
        (Accepts(r) <=> ((live["config"] = Absent) <=> (r.op = "create")))
  OBVIOUS
<1>6. tier \in RulesetTiers =>
        (Accepts(r) <=> ((live[r.ruleset.name] = Absent) <=> (r.op = "create")))
  OBVIOUS
<1>7. tier = "branches" => (Accepts(r) <=> (r.op # "put" => live[r.branch] # Absent))
  OBVIOUS
<1> HIDE DEF Accepts
<1> QED
  BY <1>1, <1>2, <1>3, <1>4, <1>5, <1>6, <1>7

(* An undisturbed run is refused nothing, but where there is no default    *)
(* setup.                                                                  *)
LEMMA NothingRefused ==
    ASSUME IInv, AbsentIsNone, NEW w \in Workers, quiet[w], Coherent(tier, Desired(w))
    PROVE  /\ pc[w] = "read" => Readable(w)
           /\ pc[w] = "send" => Accepts(Head(plan[w])) \/ NoDefaultSetup
<1> DEFINE D == Desired(w)
           i == step[w]
           r == Head(plan[w])
           now == PlanOf(tier, D, i, listed[w], live)
<1>0. /\ TypeOK /\ RunIsRight(w) /\ tier \in Tiers /\ cfg[w] \in Versions /\ Holdable(tier, live)
      /\ D = Declared(tier, cfg[w])
  BY RunByRun DEF IInv, TypeOK, Desired
<1>1. ASSUME pc[w] \in {"read", "send"}, tier \in RulesetTiers
      PROVE  /\ i \in DOMAIN D
             /\ D[i].name \in listed[w] <=> live[D[i].name] # Absent
  <2>1. i \in 1 .. Steps(tier, D) /\ Steps(tier, D) \in Nat
    BY <1>0, <1>1, StepsPositive DEF TypeOK
  <2>2. i \in i .. Steps(tier, D)
    BY <2>1
  <2> QED
    BY <1>0, <1>1, <2>1, <2>2, StepsPositive DEF RunIsRight
<1>2. ASSUME pc[w] = "read" PROVE Readable(w)
  BY <1>0, <1>1, <1>2 DEF Readable
<1>3. ASSUME pc[w] = "send" PROVE Accepts(r) \/ NoDefaultSetup
  <2>1. Pending(w) /\ plan[w] # << >> /\ i \in 1 .. Steps(tier, D)
    BY <1>0, <1>3, PlanTypes DEF RunIsRight
  <2>2. ~Archived
    <3> SUFFICES ASSUME tier \in {"repository", "branches"}, live["archived"] = On PROVE FALSE
      BY DEF Archived
    <3>1. plan[w] = now
      BY <2>1 DEF Pending, SiteCreated, Written
    <3>2. now = << >>
      BY PlanIs DEF PatchTiers
    <3> QED
      BY <2>1, <3>1, <3>2
  <2>3. ASSUME tier \in Single PROVE \E q : now = << q >> /\ r = q
    <3>1. plan[w] = now
      BY <2>1, <2>3 DEF Pending, SiteCreated, Written, Single
    <3>2. PICK q : now = << q >>
      BY <1>0, <2>1, <2>3, <3>1, SinglePlan
    <3> QED
      BY <3>1, <3>2
  <2>4. CASE tier \in PatchTiers \cup LimitTiers \cup ActionsTiers
    BY <2>2, <2>4, AcceptsIs
  <2>5. CASE tier = "security"
    <3>1. PICK q : now = << q >> /\ r = q
      BY <2>3, <2>5 DEF Single, AllTiers
    <3>2. SecurityPlan(Toggles[i], D, live) = << r >> /\ i \in 1 .. 3
      BY <1>0, <2>1, <2>5, <3>1, PlanIs, StepsAre
    <3>3. \A j \in 1 .. i - 1 : StepMatches(tier, D, j, live)
      BY <1>0, <1>3, <2>2 DEF RunIsRight, Behind
    <3>4. r.set = [fixes |-> On] => live["alerts"] = On
      BY <1>0, <2>5, <3>2, <3>3, SecurityDone
    <3> QED
      BY <2>2, <2>5, <3>4, AcceptsIs
  <2>6. CASE tier = "code_scanning"
    BY <2>2, <2>6, AcceptsIs DEF NoDefaultSetup
  <2>7. CASE tier \in RulesetTiers
    <3>1. PICK q : now = << q >> /\ r = q
      BY <2>3, <2>7 DEF Single, AllTiers, RulesetTiers
    <3>2. RulesetPlan(D[i], listed[w], live[D[i].name]) = << r >>
      BY <2>7, <3>1, PlanIs
    <3>3. r = RulesetRequest(IF D[i].name \notin listed[w] THEN "create" ELSE "replace", D[i])
      BY <3>2 DEF RulesetPlan
    <3>4. r.ruleset = D[i] /\ (r.op = "create" <=> D[i].name \notin listed[w])
      BY <3>3 DEF RulesetRequest
    <3>5. D[i].name \in listed[w] <=> live[D[i].name] # Absent
      BY <1>1, <1>3, <2>7
    <3>6. (live[r.ruleset.name] = Absent) <=> (r.op = "create")
      BY <3>4, <3>5
    <3> HIDE DEF r
    <3> QED
      BY <2>2, <2>7, <3>6, AcceptsIs
  <2>8. CASE tier = "pages"
    <3>1. live["site"] \in {On, Absent}
      BY <1>0, <2>8 DEF Holdable
    <3>2. CASE SiteCreated(w)
      <4>1. live["site"] = On /\ r.op = "update"
        BY <3>2 DEF SiteCreated, Request
      <4> QED
        BY <2>2, <2>8, <4>1, AcceptsIs, ValuesAssumption
    <3>3. CASE plan[w] = now
      <4> DEFINE create == Request("create", Only(D, {"build_type", "source"}))
                 extras == Request("update", Only(D, {"cname"}))
                 update == Request("update", D)
      <4>1. /\ live["site"] = Absent => plan[w] = IF "cname" \in DOMAIN D THEN << create, extras >>
                                                  ELSE << create >>
            /\ live["site"] # Absent => plan[w] = IF Drift(D, live, DOMAIN D) = {} THEN << >>
                                                  ELSE << update >>
        BY <2>8, <3>3, PagesPlanForm
      <4>2. create.op = "create" /\ update.op = "update"
        BY DEF Request
      <4> HIDE DEF create, extras, update
      <4>3. live["site"] = Absent => r = create
        BY <4>1
      <4>4. live["site"] # Absent => r = update
        BY <2>1, <4>1
      <4> QED
        BY <2>2, <2>8, <4>2, <4>3, <4>4, AcceptsIs
    <3> QED
      BY <2>1, <2>8, <3>2, <3>3 DEF Pending, Written
  <2>9. CASE tier = "org_code_security"
    <3> DEFINE attach == Request("attach", Only(D, {"attached"}))
               default == Request("default", Only(D, {"default"}))
    <3>0. D["config"] # Absent
      BY <1>0, <2>9, FieldsAre
    <3>1. CASE Written(w)
      <4>1. attach.op = "attach" /\ default.op = "default"
        BY DEF Request
      <4>2. /\ live["config"] = D["config"]
            /\ plan[w] \in {<< attach, default >>, << attach >>, << default >>}
        BY <3>1 DEF Written
      <4> HIDE DEF attach, default
      <4>3. r \in {attach, default}
        BY <4>2
      <4> QED
        BY <2>2, <2>9, <3>0, <4>1, <4>2, <4>3, AcceptsIs
    <3>2. CASE plan[w] = now
      <4> DEFINE write == Request(IF live["config"] = Absent THEN "create" ELSE "update",
                                  Only(D, {"config"}))
      <4>1. plan[w] \in {<< write, attach, default >>, << write, attach >>, << write, default >>,
                         << write >>}
        BY <2>1, <2>9, <3>2, CodeSecurityPlanForm
      <4>2. write.op = "create" <=> live["config"] = Absent
        BY DEF Request
      <4> HIDE DEF attach, default, write
      <4>3. r = write
        BY <4>1
      <4> QED
        BY <2>2, <2>9, <4>2, <4>3, AcceptsIs
    <3> QED
      BY <2>1, <2>9, <3>1, <3>2 DEF Pending, SiteCreated
  <2>10. CASE tier = "branches"
    <3>1. plan[w] = now
      BY <2>1, <2>10 DEF Pending, SiteCreated, Written
    <3>2. i \in DOMAIN D
      BY <1>0, <2>1, <2>10, StepsPositive
    <3>3. r.op # "put" => live[r.branch] # Absent
      BY <1>0, <2>1, <2>10, <3>1, <3>2, BranchDone
    <3> QED
      BY <2>2, <2>10, <3>3, AcceptsIs
  <2> QED
    BY <1>0, <2>4, <2>5, <2>6, <2>7, <2>8, <2>9, <2>10, TierCases
<1> QED
  BY <1>2, <1>3

(* A run that nobody disturbs is refused nothing, except that code         *)
(* scanning is, where GitHub can have no default setup (NoDefaultSetup):   *)
(* for declarations that are Coherent.                                     *)
THEOREM QuietRunsSucceed ==
    ASSUME AbsentIsNone, AllCoherent
    PROVE  Spec => []QuietRunSucceeds
<1>1. Init => QuietRunSucceeds
  BY DEF Init, QuietRunSucceeds
<1>2. IInv /\ QuietRunSucceeds /\ [Next]_vars => QuietRunSucceeds'
  <2> SUFFICES ASSUME IInv, QuietRunSucceeds, [Next]_vars,
                      NEW w \in Workers, quiet'[w], pc'[w] = "failed"
               PROVE  NoDefaultSetup'
    BY DEF QuietRunSucceeds
  <2>0. TypeOK
    BY DEF IInv
  <2>1. CASE ChangeConfig \/ \E s \in States(tier) : Edit(s)
    BY <2>1 DEF ChangeConfig, Edit, NobodyQuiet
  <2>2. ASSUME UNCHANGED << tier, live >>, pc'[w] = pc[w], quiet'[w] = quiet[w]
        PROVE  NoDefaultSetup'
    BY <2>2 DEF QuietRunSucceeds, NoDefaultSetup
  <2>3. ASSUME NEW x \in Workers, Start(x) PROVE NoDefaultSetup'
    <3>1. x # w
      BY <2>0, <2>3 DEF Start, TypeOK
    <3> QED
      BY <2>0, <2>2, <2>3, <3>1 DEF Start, TypeOK
  <2>4. ASSUME NEW x \in Workers, Read(x) PROVE NoDefaultSetup'
    <3>1. x # w
      BY <2>0, <2>4 DEF Read, Advance, TypeOK
    <3>2. pc'[w] = pc[w]
      BY <2>0, <2>4, <3>1 DEF Read, Advance, TypeOK
    <3> QED
      BY <2>2, <2>4, <3>2 DEF Read
  <2>5. ASSUME NEW x \in Workers, Send(x) PROVE NoDefaultSetup'
    <3>1. x = w
      BY <2>5 DEF Send
    <3>2. pc'[w] # "failed"
      BY <2>0, <2>5, <3>1 DEF Send, Advance, TypeOK
    <3> QED
      BY <3>2
  <2>6. ASSUME NEW x \in Workers, Refused(x) PROVE NoDefaultSetup'
    <3>1. CASE x # w
      <4>1. pc'[w] = pc[w]
        BY <2>0, <2>6, <3>1 DEF Refused, TypeOK
      <4> QED
        BY <2>2, <2>6, <4>1 DEF Refused
    <3>2. CASE x = w
      <4>1. quiet[w] /\ UNCHANGED << tier, live >>
        BY <2>6 DEF Refused
      <4>2. Coherent(tier, Desired(w))
        BY <2>0 DEF AllCoherent, TypeOK, Desired
      <4>3. NoDefaultSetup
        BY <2>6, <3>2, <4>1, <4>2, NothingRefused DEF Refused
      <4> QED
        BY <4>1, <4>3 DEF NoDefaultSetup
    <3> QED
      BY <3>1, <3>2
  <2>7. ASSUME NEW x \in Workers, Fail(x) PROVE NoDefaultSetup'
    <3>1. x # w /\ pc'[w] = pc[w]
      BY <2>0, <2>7 DEF Fail, TypeOK
    <3> QED
      BY <2>2, <2>7, <3>1 DEF Fail
  <2>8. CASE UNCHANGED vars
    BY <2>2, <2>8 DEF vars
  <2> QED
    BY <2>1, <2>3, <2>4, <2>5, <2>6, <2>7, <2>8 DEF Next
<1> QED
  BY <1>1, <1>2, QuietRunsAreRight, PTL DEF Spec

(* What is left alone, tier by tier.                                       *)
LEMMA UndeclaredIs ==
    ASSUME NEW v, NEW old, NEW new
    PROVE  LET D == Declared(tier, v) IN
           /\ tier \notin RulesetTiers \cup {"branches", "pages"} =>
                (UndeclaredKept(v, old, new) <=>
                   \A f \in DOMAIN old \ DOMAIN D : new[f] = old[f] \/ Follows(f, old, new))
           /\ tier = "pages" =>
                (UndeclaredKept(v, old, new) <=>
                   \A f \in DOMAIN old \ (DOMAIN D \cup {"site"}) :
                       new[f] = old[f] \/ Follows(f, old, new))
           /\ tier \in RulesetTiers
                /\ (\A n \in DOMAIN old \ {D[i].name : i \in DOMAIN D} : new[n] = old[n])
                /\ (\A i \in DOMAIN D : D[i].bypass = Unset /\ old[D[i].name] # Absent =>
                       new[D[i].name].bypass = old[D[i].name].bypass)
                => UndeclaredKept(v, old, new)
           /\ tier = "branches"
                /\ (\A n \in DOMAIN old \
                         {ResolveBranch(D[i].name, old["default_branch"]) : i \in DOMAIN D} :
                       new[n] = old[n])
                /\ (\A i \in DOMAIN D :
                       D[i].protection # Absent => D[i].protection.restrictions # Unset)
                => UndeclaredKept(v, old, new)
<1> DEFINE D == Declared(tier, v)
<1>1. tier \notin RulesetTiers \cup {"branches", "pages"} =>
        (UndeclaredKept(v, old, new) <=>
           \A f \in DOMAIN old \ DOMAIN D : new[f] = old[f] \/ Follows(f, old, new))
  BY DEF UndeclaredKept
<1>2. tier = "pages" =>
        (UndeclaredKept(v, old, new) <=>
           \A f \in DOMAIN old \ (DOMAIN D \cup {"site"}) : new[f] = old[f] \/ Follows(f, old, new))
  BY DEF UndeclaredKept, RulesetTiers
<1>3. tier \in RulesetTiers
        /\ (\A n \in DOMAIN old \ {D[i].name : i \in DOMAIN D} : new[n] = old[n])
        /\ (\A i \in DOMAIN D : D[i].bypass = Unset /\ old[D[i].name] # Absent =>
               new[D[i].name].bypass = old[D[i].name].bypass)
        => UndeclaredKept(v, old, new)
  BY DEF UndeclaredKept, RulesetTiers
<1>4. tier = "branches"
        /\ (\A n \in DOMAIN old \
                 {ResolveBranch(D[i].name, old["default_branch"]) : i \in DOMAIN D} :
               new[n] = old[n])
        /\ (\A i \in DOMAIN D : D[i].protection # Absent => D[i].protection.restrictions # Unset)
        => UndeclaredKept(v, old, new)
  BY DEF UndeclaredKept, RulesetTiers
<1> QED
  BY <1>1, <1>2, <1>3, <1>4

(* A request of an undisturbed run touches nothing that is not declared.   *)
LEMMA SendLeaves ==
    ASSUME TypeOK, PlanIsRight, AbsentIsNone, NEW w \in Workers, quiet[w], Send(w),
           Whole(tier, Desired(w)), Coherent(tier, Desired(w))
    PROVE  UndeclaredKept(cfg[w], live, live')
<1> DEFINE D == Declared(tier, cfg[w])
           i == step[w]
           now == PlanOf(tier, D, i, listed[w], live)
           kept == \A f \in Keys(tier) \ DOMAIN D : live'[f] = live[f]
<1>0. /\ tier \in Tiers /\ cfg[w] \in Versions /\ DOMAIN live = Keys(tier)
      /\ i \in 1 .. Steps(tier, D) /\ Desired(w) = D
      /\ live' = Outcome(Head(plan[w])) /\ Accepts(Head(plan[w]))
  BY Sent DEF Desired
<1>1. ASSUME tier \in Single
      PROVE  \E r : now = << r >> /\ live' = Outcome(r) /\ Accepts(r)
  BY <1>0, <1>1, SentSingle
<1>2. CASE tier \in PatchTiers
  <2>1. tier \in Single /\ tier \notin RulesetTiers \cup {"branches", "pages"}
    BY <1>0, <1>2 DEF PatchTiers, RulesetTiers, Single, AllTiers
  <2>2. PICK r : now = << r >> /\ live' = Outcome(r)
    BY <1>1, <2>1
  <2>3. PatchPlan(D, live) = << r >>
    BY <1>2, <2>2, PlanIs
  <2>4. kept
    BY <1>0, <1>2, <2>2, <2>3, PatchDone
  <2> QED
    BY <1>0, <2>1, <2>4, UndeclaredIs
<1>3. CASE tier = "security"
  <2>1. tier \in Single /\ tier \notin RulesetTiers \cup {"branches", "pages"}
    BY <1>3 DEF RulesetTiers, Single, AllTiers
  <2>2. PICK r : now = << r >> /\ live' = Outcome(r)
    BY <1>1, <2>1
  <2>3. SecurityPlan(Toggles[i], D, live) = << r >> /\ i \in 1 .. 3
    BY <1>0, <1>3, <2>2, PlanIs, StepsAre
  <2>4. \A f \in Keys(tier) \ DOMAIN D :
          live'[f] = live[f] \/ (f = "fixes" /\ live'["alerts"] = Off /\ live'[f] = Off)
    BY <1>0, <1>3, <2>2, <2>3, SecurityDone
  <2>5. \A f \in Keys(tier) \ DOMAIN D : live'[f] = live[f] \/ Follows(f, live, live')
    BY <1>3, <2>4 DEF Follows
  <2> QED
    BY <1>0, <2>1, <2>5, UndeclaredIs
<1>4. CASE tier \in ActionsTiers
  <2>1. tier \in Single /\ tier \notin RulesetTiers \cup {"branches", "pages"}
    BY <1>4 DEF RulesetTiers, Single, AllTiers, ActionsTiers
  <2>2. PICK r : now = << r >> /\ live' = Outcome(r)
    BY <1>1, <2>1
  <2>3. ActionsPlan(i, D, live) = << r >> /\ i \in 1 .. 2
    BY <1>0, <1>4, <2>2, PlanIs, StepsAre
  <2>4. \A f \in Keys(tier) \ DOMAIN D :
          live'[f] = live[f] \/ (f = "allowed_actions" /\ Absent \in {live[f], live'[f]})
    BY <1>0, <1>4, <2>2, <2>3, ActionsDone
  <2>5. \A f \in Keys(tier) \ DOMAIN D : live'[f] = live[f] \/ Follows(f, live, live')
    BY <1>4, <2>4 DEF Follows
  <2> QED
    BY <1>0, <2>1, <2>5, UndeclaredIs
<1>5. CASE tier \in LimitTiers
  <2>1. tier \notin RulesetTiers \cup {"branches", "pages"}
    BY <1>5 DEF RulesetTiers, LimitTiers
  <2>2. kept
    BY <1>0, <1>5, FieldsAre
  <2> QED
    BY <1>0, <2>1, <2>2, UndeclaredIs
<1>6. CASE tier = "code_scanning"
  <2>1. tier \in Single /\ tier \notin RulesetTiers \cup {"branches", "pages"}
    BY <1>6 DEF RulesetTiers, Single, AllTiers
  <2>2. PICK r : now = << r >> /\ live' = Outcome(r)
    BY <1>1, <2>1
  <2>3. CodeScanningPlan(D, live) = << r >>
    BY <1>6, <2>2, PlanIs
  <2>4. kept
    BY <1>0, <1>6, <2>2, <2>3, ScanningDone
  <2> QED
    BY <1>0, <2>1, <2>4, UndeclaredIs
<1>7. CASE tier = "org_code_security"
  <2>1. tier \notin RulesetTiers \cup {"branches", "pages"}
    BY <1>7 DEF RulesetTiers
  <2>2. kept
    BY <1>0, <1>7, CodeSecurityDone
  <2> QED
    BY <1>0, <2>1, <2>2, UndeclaredIs
<1>8. CASE tier = "pages"
  <2>1. \A f \in Keys(tier) \ (DOMAIN D \cup {"site"}) : live'[f] = live[f]
    BY <1>0, <1>8, PagesDone
  <2> QED
    BY <1>0, <1>8, <2>1, UndeclaredIs
<1>9. CASE tier = "branches"
  <2> DEFINE b == ResolveBranch(D[i].name, live["default_branch"])
  <2>1. i \in DOMAIN D
    BY <1>0, <1>9, StepsPositive
  <2>2. plan[w] = now /\ plan[w] # << >>
    BY <1>0, <1>9, Sent DEF Pending, SiteCreated, Written
  <2>3. \A n \in Keys(tier) \ {b} : live'[n] = live[n]
    BY <1>0, <1>9, <2>1, <2>2, BranchDone
  <2>4. \A n \in Keys(tier) \ {ResolveBranch(D[j].name, live["default_branch"]) : j \in DOMAIN D} :
          live'[n] = live[n]
    BY <2>1, <2>3
  <2>5. \A j \in DOMAIN D : D[j].protection # Absent => D[j].protection.restrictions # Unset
    BY <1>0, <1>9 DEF Whole
  <2> QED
    BY <1>0, <1>9, <2>4, <2>5, UndeclaredIs
<1>10. CASE tier \in RulesetTiers
  <2>1. tier \in Single
    BY <1>10 DEF Single, AllTiers, RulesetTiers
  <2>2. PICK r : now = << r >> /\ live' = Outcome(r) /\ Accepts(r)
    BY <1>1, <2>1
  <2>3. i \in DOMAIN D /\ RulesetPlan(D[i], listed[w], live[D[i].name]) = << r >>
    BY <1>0, <1>10, <2>2, StepsPositive, PlanIs
  <2>4. cfg[w] \in Versions /\ DOMAIN live = Keys(tier)
    BY <1>0
  <2>5. /\ \A n \in Keys(tier) \ {D[i].name} : live'[n] = live[n]
        /\ D[i].bypass = Unset /\ live[D[i].name] # Absent =>
             live'[D[i].name].bypass = live[D[i].name].bypass
    <3> HIDE DEF i
    <3>1. Ruleset(D[i]) /\ D[i].name \in Keys(tier)
      BY <1>0, <1>10, <2>3, DeclaredAs, FieldsAre
    <3>2. (\A n \in Keys(tier) \ {D[i].name} : Outcome(r)[n] = live[n]) /\ r.ruleset = D[i]
      BY <1>10, <2>3, <3>1, RulesetDone
    <3>4. D[i].bypass = Unset /\ live[D[i].name] # Absent =>
            Outcome(r)[D[i].name].bypass = live[D[i].name].bypass
      BY <1>10, <2>2, <3>1, <3>2, BypassStays
    <3> QED
      BY <2>2, <3>2, <3>4
  <2>6. \A n \in DOMAIN live \ {D[j].name : j \in DOMAIN D} : live'[n] = live[n]
    BY <2>3, <2>4, <2>5
  <2>7. ASSUME NEW j \in DOMAIN D, D[j].bypass = Unset, live[D[j].name] # Absent
        PROVE  live'[D[j].name].bypass = live[D[j].name].bypass
    <3>1. CASE j = i
      BY <2>5, <2>7, <3>1
    <3>2. CASE j # i
      <4>1. D[j].name \in Keys(tier)
        BY <1>0, <1>10, DeclaredAs, FieldsAre
      <4>2. D[j].name # D[i].name
        BY <1>0, <1>10, <2>3, <3>2, CoherentIs
      <4> QED
        BY <2>5, <4>1, <4>2
    <3> QED
      BY <3>1, <3>2
  <2> QED
    BY <1>10, <2>6, <2>7, UndeclaredIs
<1> QED
  BY <1>0, <1>2, <1>3, <1>4, <1>5, <1>6, <1>7, <1>8, <1>9, <1>10, TierCases

(* What a declaration does not mention stays as it is                      *)
(* (configuration.md:31-49), if it says who may push.                      *)
THEOREM UndeclaredIsKept ==
    ASSUME AbsentIsNone, AllWhole, AllCoherent
    PROVE  Spec => KeepsUndeclared
<1>1. IInv /\ [Next]_vars =>
        [\A w \in Workers : Send(w) /\ quiet[w] => UndeclaredKept(cfg[w], live, live')]_vars
  <2> SUFFICES ASSUME IInv, NEW w \in Workers, Send(w), quiet[w]
               PROVE  UndeclaredKept(cfg[w], live, live')
    OBVIOUS
  <2>1. TypeOK /\ PlanIsRight /\ tier \in Tiers /\ cfg[w] \in Versions
    BY DEF IInv, TypeOK
  <2>2. Whole(tier, Desired(w)) /\ Coherent(tier, Desired(w))
    BY <2>1 DEF AllWhole, AllCoherent, Desired
  <2> QED
    BY <2>1, <2>2, SendLeaves
<1> QED
  BY <1>1, QuietRunsAreRight, PTL DEF Spec, KeepsUndeclared
====
