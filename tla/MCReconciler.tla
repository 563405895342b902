---------------------------- MODULE MCReconciler ----------------------------
(* Instances of Reconciler for TLC.  Version 1 leaves lib out and begins   *)
(* declaring topics; labels and rulesets echo a webhook, topics and        *)
(* actions do not.                                                         *)
EXTENDS Reconciler

MCRepoTiers == << "labels", "topics" >>
MCOrgBlocks == << "actions", "rulesets" >>
MCNoBlocks  == << >>

MCRestricted(v) == IF v = 1 THEN {"lib"} ELSE {}

(* Version 1 declares every tier and block, version 0 no topics.           *)
MCConfigured(v, t) ==
    IF v = 0 THEN OwnSections(t) \ {"topics"} ELSE OwnSections(t)

MCAllManaged(v) == {}

(* Every version declares every tier, and no organization block.           *)
MCRepoOnly(v, t) == IF t = "org" THEN {} ELSE OwnSections(t)

(* A tier GitHub refuses, followed by one it accepts.                      *)
MCRefusedTier == { << "lib", "labels" >> }
=============================================================================
