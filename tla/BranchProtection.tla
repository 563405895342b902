-------------------------- MODULE BranchProtection --------------------------
(***************************************************************************)
(* The protection of one branch (reconcile/branch.py).  A protection has   *)
(* the rules that the code compares and puts as a whole (reviews, checks   *)
(* and the booleans; AllOff when all are off), who may push, and whether   *)
(* commits must be signed, which has an endpoint of its own.               *)
(***************************************************************************)
EXTENDS Sequences

CONSTANTS Absent, AllOff, Unrestricted, Unset

(* What the schema lets a file declare for a branch.                       *)
BranchConfig(d) ==
    /\ DOMAIN d = {"name", "protection"}
    /\ d.protection # Absent =>
         /\ DOMAIN d.protection = {"rules", "restrictions", "signatures"}
         /\ d.protection.signatures \in BOOLEAN

(* Both sides brought into one shape: no protection is one with all off,   *)
(* and restrictions left out are none.                                     *)
CanonicalActual(p) ==
    IF p = Absent THEN [rules |-> AllOff, restrictions |-> Unrestricted]
    ELSE [rules |-> p.rules, restrictions |-> p.restrictions]

CanonicalDesired(p) ==
    [rules |-> p.rules,
     restrictions |-> IF p.restrictions = Unset THEN Unrestricted ELSE p.restrictions]

(* The name default stands for whatever the default branch is.             *)
ResolveBranch(name, default) == IF name = "default" THEN default ELSE name

BranchRequest(op, b) == [op |-> op, branch |-> b]

PutRequest(b, p) == [op |-> "put", branch |-> b, set |-> CanonicalDesired(p)]

(* Mutant: only a change of the rules puts the protection that the         *)
(* signatures need.                                                        *)
BranchPlanSignsBare(b, p, actual) ==
    LET changed == CanonicalDesired(p) # CanonicalActual(actual)
        signed  == actual # Absent /\ actual.signatures
    IN  IF p = Absent
        THEN IF actual = Absent THEN << >> ELSE << BranchRequest("unprotect", b) >>
        ELSE (IF changed THEN << PutRequest(b, p) >> ELSE << >>)
             \o (IF p.signatures = signed THEN << >>
                 ELSE << BranchRequest(IF p.signatures THEN "sign" ELSE "unsign", b) >>)

(* p is the declared protection of branch b, Absent if it is to have none. *)
BranchPlan(b, p, actual) ==
    LET changed == CanonicalDesired(p) # CanonicalActual(actual)
        signed  == actual # Absent /\ actual.signatures
    IN  IF p = Absent
        THEN IF actual = Absent THEN << >> ELSE << BranchRequest("unprotect", b) >>
        ELSE (IF changed \/ (p.signatures /\ actual = Absent) THEN << PutRequest(b, p) >>
              ELSE << >>)
             \o (IF p.signatures = signed THEN << >>
                 ELSE << BranchRequest(IF p.signatures THEN "sign" ELSE "unsign", b) >>)
=============================================================================
