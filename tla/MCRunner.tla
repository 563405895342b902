------------------------------ MODULE MCRunner ------------------------------
(* Instances of Runner for TLC: an account with the admin repo, a public   *)
(* and a private repository, and a configuration without overlays,         *)
(* one with overlays and one that leaves a repository out.                 *)
EXTENDS Runner

Config(base, suborgs, repos, exclude) ==
    [base |-> base, suborgs |-> suborgs, repos |-> repos, include |-> {}, exclude |-> exclude]

Plain == Config([labels |-> "x", repository |-> [merge |-> "x"]], << >>, << >>, {"lib"})

Layered ==
    Config([labels |-> "x", repository |-> [merge |-> "x", wiki |-> "x"]],
           << [match |-> {"app"}, visibility |-> {}, tiers |-> [labels |-> "y"]],
              [match |-> {"app", "lib"}, visibility |-> {"private"},
               tiers |-> [repository |-> [wiki |-> "y"]]] >>,
           << [match |-> {"app"}, tiers |-> [repository |-> [merge |-> "y"]]] >>, {})

ByVisibility ==
    Config([labels |-> "x"],
           << [match |-> {}, visibility |-> {"public"}, tiers |-> [labels |-> "y"]] >>, << >>, {})

(* No tier of a repository: an empty file, or an organization block alone. *)
NoRepoWork == Config(<< >>, << >>, << >>, {})

MCConfigs == {Plain, Layered, NoRepoWork}

MCVisible == {ByVisibility}

MCVisibility == [r \in Repos |-> IF r = "app" THEN "public" ELSE "internal"]

MCInitial == [labels |-> "none", repository |-> [merge |-> "none", wiki |-> "none"]]
=============================================================================
