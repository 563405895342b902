----------------------------- MODULE Enforcement -----------------------------
(***************************************************************************)
(* What Caldrith promises of an account, without queue, jobs or webhooks:  *)
(* the settings file goes through a history of merged versions; a section  *)
(* of a target's settings changes by hand at any time, and otherwise only  *)
(* takes a value that some merged version of the file declares for that    *)
(* very section of that very target.  Excluded repositories, sections      *)
(* nobody declared and proposals that were never merged are out of reach.  *)
(* Reconciler implements this specification.                               *)
(***************************************************************************)
EXTENDS Naturals

CONSTANTS
    Targets,          \* repositories and the organization
    Sections,         \* the tiers of a repository, the blocks of an organization
    MaxVersion,       \* bound: the last version of the settings file
    Foreign,          \* a value set by hand
    Declares(_, _)    \* Declares(v, t): sections version v manages on target t

VARIABLES version, live

Versions == 0 .. MaxVersion

Places == Targets \X Sections

Init ==
    /\ version = 0
    /\ live = [p \in Places |-> Foreign]

(* A change of the settings file is merged.                                *)
Merge ==
    /\ version < MaxVersion
    /\ version' = version + 1
    /\ UNCHANGED live

(* Somebody changes a section by hand.                                     *)
Drift(p) ==
    /\ live' = [live EXCEPT ![p] = Foreign]
    /\ UNCHANGED version

(* A section takes the value a merged version declares for it.             *)
Enforce(p, v) ==
    /\ v <= version
    /\ p[2] \in Declares(v, p[1])
    /\ live' = [live EXCEPT ![p] = v]
    /\ UNCHANGED version

Next ==
    \/ Merge
    \/ \E p \in Places : Drift(p)
    \/ \E p \in Places, v \in Versions : Enforce(p, v)

Spec == Init /\ [][Next]_<< version, live >>
=============================================================================
