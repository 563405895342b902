----------------------------- MODULE MCSettings -----------------------------
(* Instances of Settings for TLC: two versions of every tier, the second   *)
(* of which turns back or leaves out what the first declares.              *)
EXTENDS Settings

CONSTANTS absent, unset, x, y

V(v, first, second) == IF v = 0 THEN first ELSE second

P(rules, restrictions, signatures) ==
    [rules |-> rules, restrictions |-> restrictions, signatures |-> signatures]

MCDeclared(t, v) ==
    CASE t = "repository" ->
            V(v, [archived |-> Off, merge |-> x,
                  security_and_analysis |-> [a |-> On, b |-> Off]],
                 [merge |-> y])
      [] t = "organization" -> V(v, [privileges |-> x], [privileges |-> y, profile |-> x])
      [] t = "org_custom_properties" -> V(v, [one |-> x], [one |-> y, two |-> x])
      [] t = "security" -> V(v, [alerts |-> On, fixes |-> On], [alerts |-> Off, reporting |-> On])
      [] t = "org_actions" ->
            V(v, [enabled |-> On, workflow_permissions |-> y], [enabled |-> Off, can_approve |-> On])
      [] t = "actions" ->
            V(v, [enabled |-> On, can_approve |-> Off],
                 [enabled |-> On, allowed_actions |-> x, workflow_permissions |-> x])
      [] t \in LimitTiers -> V(v, [limit |-> x], [limit |-> absent])
      [] t = "pages" -> V(v, [source |-> x, cname |-> x], [build_type |-> y, cname |-> y])
      [] t = "code_scanning" -> V(v, [state |-> On, suite |-> x], [state |-> Off, suite |-> y])
      [] t = "org_code_security" ->
            V(v, [config |-> x, attached |-> On], [config |-> y, attached |-> On, default |-> On])
      [] t = "branches" ->
            V(v, << [name |-> "default", protection |-> P(AllOff, Unrestricted, TRUE)],
                    [name |-> "rel", protection |-> P(x, y, FALSE)] >>,
                 << [name |-> "default", protection |-> P(x, Unrestricted, FALSE)],
                    [name |-> "rel", protection |-> absent] >>)
      [] t \in RulesetTiers ->
            V(v, << [name |-> "one", rules |-> [checks |-> [need |-> x]], bypass |-> [app |-> [mode |-> x]]],
                    [name |-> "two", rules |-> << >>, bypass |-> unset] >>,
                 << [name |-> "one", rules |-> [checks |-> [need |-> y], merge |-> << >>], bypass |-> unset] >>)

(* These declarations do not work against themselves, and leave nothing    *)
(* half managed.                                                           *)
ASSUME DeclaredWell ==
    \A t \in AllTiers, v \in {0, 1} :
        t \in Tiers => Coherent(t, MCDeclared(t, v)) /\ Whole(t, MCDeclared(t, v))

MCUnrestricted(t, v) == << [name |-> "default", protection |-> P(V(v, x, AllOff), unset, FALSE)] >>

MCTiers == AllTiers

MCNames(t) ==
    CASE t = "repository" -> {"a", "b"}
      [] t = "branches" -> {"main", "dev", "rel"}
      [] OTHER -> {"one", "two"}

MCDefaultBranches == {"main", "dev"}

MCBranches == {"branches"}

Protections == {absent} \cup {P(r, w, s) : r \in {AllOff, x}, w \in {Unrestricted, y}, s \in BOOLEAN}

Rules == {<< >>, [checks |-> [need |-> x, added |-> Off]],
          [checks |-> [need |-> y, added |-> Off], merge |-> [added |-> Off]]}

LiveRulesets ==
    {absent} \cup {[rules |-> r, bypass |-> b] :
                     r \in Rules, b \in {<< >>, [app |-> [mode |-> x]],
                                         [app |-> [mode |-> x], team |-> [mode |-> x]]}}

MCStates(t) ==
    CASE t = "repository" ->
            [archived : {On, Off}, merge : {x, y}, security_and_analysis : [a : {On, Off}, b : {On, Off}]]
      [] t = "organization" -> [privileges : {x, y}, profile : {x, y}]
      [] t = "org_custom_properties" -> [one : {absent, x, y}, two : {absent, x, y}]
      [] t = "security" -> {s \in [alerts : {On, Off}, fixes : {On, Off}, reporting : {On, Off}] :
                              s.fixes = On => s.alerts = On}
      [] t \in ActionsTiers ->
            {s \in [enabled : {On, Off}, allowed_actions : {absent, AllActions, x},
                    workflow_permissions : {x, y}, can_approve : {On, Off}] :
               s.allowed_actions = absent <=> s.enabled = Off}
      [] t \in LimitTiers -> [limit : {absent, x, y}]
      [] t = "pages" -> {s \in [site : {On, absent}, build_type : {absent, x, y}, source : {absent, x},
                                cname : {absent, x, y}] :
                           s.site = absent => s.build_type = absent /\ s.source = absent /\ s.cname = absent}
      [] t = "code_scanning" -> [state : {On, Off}, suite : {x, y}] \cup {[state |-> absent, suite |-> absent]}
      [] t = "org_code_security" ->
            [config : {x, y}, attached : {On, Off}, default : {On, Off}]
              \cup {[config |-> absent, attached |-> Off, default |-> Off]}
      [] t = "branches" ->
            [archived : {On, Off}, default_branch : MCDefaultBranches,
             main : Protections, dev : {absent}, rel : {absent, P(x, y, FALSE), P(x, y, TRUE)}]
      [] t \in RulesetTiers -> [one : LiveRulesets, two : {absent, [rules |-> << >>, bypass |-> << >>]}]
=============================================================================
