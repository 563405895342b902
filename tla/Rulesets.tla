------------------------------ MODULE Rulesets ------------------------------
(***************************************************************************)
(* Rulesets of a repository or an organization (reconcile/ruleset.py).  A  *)
(* ruleset maps each type of rule it has to its parameters, and each actor *)
(* that may bypass it to its mode.  Both are functions of keys, because    *)
(* what GitHub returns has keys the request had not.                       *)
(***************************************************************************)
EXTENDS Sequences

CONSTANTS Unset

(* What the schema lets a file declare: the rules are passed on as they    *)
(* are, and each bypass actor has a mode.                                  *)
Ruleset(d) ==
    /\ DOMAIN d = {"name", "rules", "bypass"}
    /\ d.bypass # Unset => \A a \in DOMAIN d.bypass : DOMAIN d.bypass[a] = {"mode"}

(* Every declared key is there with its value; other keys do not matter.   *)
SubsetMatch(desired, actual) ==
    \A k \in DOMAIN desired : k \in DOMAIN actual /\ actual[k] = desired[k]

(* Every declared rule or actor has a match.  There is one of each type,   *)
(* so the search for a match that no other declared one has used is a      *)
(* look-up.                                                                *)
EachMatched(desired, actual) ==
    \A e \in DOMAIN desired : e \in DOMAIN actual /\ SubsetMatch(desired[e], actual[e])

(* Declared bypass actors are the only ones; undeclared they are not       *)
(* looked at.                                                              *)
UnexpectedBypassActors(desired, actual) ==
    DOMAIN actual.bypass \ DOMAIN desired.bypass # {}

(* Mutant: bypass actors are compared as rules are.                        *)
HasDriftSubsetOnly(desired, actual) ==
    \/ ~EachMatched(desired.rules, actual.rules)
    \/ desired.bypass # Unset /\ ~EachMatched(desired.bypass, actual.bypass)

(* Mutant: the rules are compared as they are.                             *)
HasDriftExact(desired, actual) ==
    \/ desired.rules # actual.rules
    \/ desired.bypass # Unset /\ desired.bypass # actual.bypass

HasDrift(desired, actual) ==
    \/ ~EachMatched(desired.rules, actual.rules)
    \/ /\ desired.bypass # Unset
       /\ ~EachMatched(desired.bypass, actual.bypass) \/ UnexpectedBypassActors(desired, actual)

RulesetRequest(op, desired) == [op |-> op, ruleset |-> desired]

(* A ruleset that is not declared is left alone.                           *)
RulesetPlan(desired, listed, actual) ==
    IF desired.name \notin listed THEN << RulesetRequest("create", desired) >>
    ELSE IF HasDrift(desired, actual) THEN << RulesetRequest("replace", desired) >>
    ELSE << >>

OrgRulesetPlan(desired, listed, actual) == RulesetPlan(desired, listed, actual)
=============================================================================
