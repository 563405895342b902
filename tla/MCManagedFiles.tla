--------------------------- MODULE MCManagedFiles ---------------------------
(* Instances of ManagedFiles for TLC: a release workflow that pins an      *)
(* action, under its two possible names.                                   *)
EXTENDS ManagedFiles

(* c1 and c2 pin the same action, c2 newer; own pins something else.       *)
MCPins(c) ==
    CASE c = "c1"  -> [action |-> 1]
      [] c = "c2"  -> [action |-> 2]
      [] c = "own" -> [image |-> 1]

MCSibling(p) == IF p = "rel.yaml" THEN "rel.yml" ELSE "rel.yaml"

Only(p, c, create) ==
    [q \in {p} |-> [content |-> c, create_only |-> create, allow_downgrade |-> FALSE]]

(* Version 0 keeps rel.yaml in sync, version 1 drops it and provisions     *)
(* rel.yml where there is no release workflow yet.                         *)
MCConfig(v) == IF v = 0 THEN Only("rel.yaml", "c1", FALSE) ELSE Only("rel.yml", "c2", TRUE)

TreeOf(yaml, yml) == [p \in Paths |-> IF p = "rel.yaml" THEN yaml ELSE yml]

MCBases == { TreeOf("none", "none"), TreeOf("own", "none") }

(* A bot bumps the action, a person writes a workflow of their own.        *)
MCEdits == { << "rel.yaml", "c2" >>, << "rel.yaml", "own" >>, << "rel.yml", "own" >> }
=============================================================================
