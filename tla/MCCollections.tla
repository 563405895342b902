--------------------------- MODULE MCCollections ---------------------------
(* Instances of Collections for TLC: three names, of which version 0       *)
(* declares two and version 1 another two, one of them with a value.  Both *)
(* declare an environment without a wait ("x"); version 1 clears the       *)
(* custom property c.                                                      *)
EXTENDS Collections

D(name, oldname, want) == [name |-> name, oldname |-> oldname, want |-> want]

(* Version 1 renames a to b.                                               *)
MCDeclared(t, v) ==
    CASE t = "topics" -> << D(IF v = 0 THEN "a" ELSE "b", "none", "unset"),
                            D("c", "none", "unset") >>
      [] v = 0 /\ t # "topics" -> << D("a", "none", "x"), D("c", "none", "y") >>
      [] v = 1 /\ t = "labels" -> << D("b", "a", "y"), D("c", "none", "unset") >>
      [] v = 1 /\ t = "secrets" -> << D("b", "none", "unset"), D("c", "none", "unset") >>
      [] v = 1 /\ t = "custom_properties" -> << D("b", "none", "y"), D("c", "none", Absent) >>
      [] v = 1 /\ t \notin {"labels", "secrets", "topics", "custom_properties"} ->
            << D("b", "none", "y"), D("c", "none", "x") >>

MCPrune(v) == v = 1

MCTiers == AllTiers

MCAnyLive == Collection
=============================================================================
