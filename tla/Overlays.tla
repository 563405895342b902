------------------------------ MODULE Overlays ------------------------------
(***************************************************************************)
(* Which repositories a version of the settings file manages and what it   *)
(* declares for each (reconcile/selection.py, reconcile/overlay.py).       *)
(*                                                                         *)
(* A configuration has the base block, the suborgs and the repos overlays, *)
(* each with the tiers it declares as a function; the repository block is  *)
(* a function of its fields.  A list of globs is the set of repositories   *)
(* they match, {} if there is none.  The organization block is left out:   *)
(* the runs for repositories take no notice of it (see Reconciler).        *)
(***************************************************************************)
EXTENDS Naturals, Sequences

CONSTANTS
    Builtin,      \* the admin repo and ".github" (builtin_excludes)
    Unknown       \* the visibility of a repository nobody has asked GitHub about

(* What the schema lets a file declare (config/schema.py).                 *)
SafeSettingsConfig(c) ==
    /\ DOMAIN c = {"base", "suborgs", "repos", "include", "exclude"}
    /\ c.suborgs \in Seq({c.suborgs[i] : i \in DOMAIN c.suborgs})
    /\ c.repos \in Seq({c.repos[i] : i \in DOMAIN c.repos})
    /\ \A i \in DOMAIN c.suborgs :
         c.suborgs[i].visibility \subseteq {"public", "private", "internal"}

is_managed(c, r) ==
    /\ r \notin Builtin
    /\ c.include = {} \/ r \in c.include
    /\ r \notin c.exclude

select_targets(c, repos) == {r \in repos : is_managed(c, r)}

has_overlays(c) == c.suborgs # << >> \/ c.repos # << >>

(* Some repository tier is configured, or an overlay may configure one; an *)
(* organization block is no work here.                                     *)
HasRepoWork(c) == DOMAIN c.base # {} \/ has_overlays(c)

(* Mutant: either selector is enough.                                      *)
SubOrgMatchesEither(o, r, visibility) ==
    r \in o.match \/ (visibility # Unknown /\ visibility \in o.visibility)

(* Each selector that is set must match, and one must be set.              *)
SubOrgMatches(o, r, visibility) ==
    /\ o.match # {} \/ o.visibility # {}
    /\ o.match # {} => r \in o.match
    /\ o.visibility # {} => visibility # Unknown /\ visibility \in o.visibility

(* Base, then the suborgs, then the repos overlays.  One that does not     *)
(* match declares nothing for r.                                           *)
Layers(c, r, visibility) ==
    LET Suborg(o) == IF SubOrgMatches(o, r, visibility) THEN o.tiers ELSE << >>
        Override(o) == IF r \in o.match THEN o.tiers ELSE << >>
    IN  << c.base >> \o [i \in DOMAIN c.suborgs |-> Suborg(c.suborgs[i])]
                     \o [i \in DOMAIN c.repos |-> Override(c.repos[i])]

Over(below, above) ==
    [k \in DOMAIN below \cup DOMAIN above |-> IF k \in DOMAIN above THEN above[k] ELSE below[k]]

(* The repository block is merged field by field, any other tier replaced. *)
MergeLayer(below, above) ==
    IF "repository" \in DOMAIN below \cap DOMAIN above
    THEN [Over(below, above) EXCEPT !["repository"] =
            Over(below["repository"], above["repository"])]
    ELSE Over(below, above)

(* What the first n layers come to, for each n.                            *)
Merging(layers) ==
    LET merged[n \in 0 .. Len(layers)] ==
          IF n = 0 THEN << >> ELSE MergeLayer(merged[n - 1], layers[n])
    IN  merged

resolve_for_repo(c, r, visibility) ==
    LET layers == Layers(c, r, visibility) IN Merging(layers)[Len(layers)]

Effective(c, r, visibility) ==
    IF has_overlays(c) THEN resolve_for_repo(c, r, visibility) ELSE c.base
=============================================================================
