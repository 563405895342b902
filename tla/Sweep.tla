-------------------------------- MODULE Sweep --------------------------------
(***************************************************************************)
(* The sweep that brings the open pull requests of the admin repo up to    *)
(* date after the settings have changed (update_admin_prs, that is         *)
(* reconcile/pr_update.py).                                                *)
(*                                                                         *)
(* The default branch is the number of its commits, and base how many of   *)
(* them a pull request contains.  The dry run that a commit of the sweep   *)
(* leads to is in Runner, the delivery of events in Ingest.  GitHub and    *)
(* ARQ are external: a job cut off by a crash runs again from its start.   *)
(***************************************************************************)
EXTENDS Naturals

CONSTANTS
    PRs,              \* pull requests on the admin repo
    Forks,            \* those whose branch the App cannot push to
    Slots,            \* sweeps the worker runs at the same time
    MaxVersion,       \* bound: commits on the default branch
    MaxDisturbances,  \* bound: failed calls and crashes in one behaviour
    None

ASSUME PRsAssumption == Forks \subseteq PRs /\ None \notin PRs
ASSUME BoundsAssumption == {MaxVersion, MaxDisturbances} \subseteq Nat

VARIABLES
    version,      \* commits on the default branch
    pr,           \* [PRs -> state, base and version when opened]
    conflicted,   \* pull requests that cannot be merged with the default branch
    due,          \* whether a job update_admin_prs waits
    sweep,        \* [Slots -> where each sweep is, what it has read]
    skipped,      \* pull requests the last sweep that came to them has skipped
    lost,         \* history: whether a sweep has raised, which nothing retries
    disturbances

vars == << version, pr, conflicted, due, sweep, skipped, lost, disturbances >>
account == << version, pr, conflicted >>

Idle == [at |-> "idle", todo |-> {}, pr |-> None, since |-> 0]

Disturb == disturbances < MaxDisturbances /\ disturbances' = disturbances + 1

End(w) == sweep' = [sweep EXCEPT ![w] = Idle]

-----------------------------------------------------------------------------
(* A sweep updates one of the pull requests it has listed.                 *)
TypeOK ==
    /\ version \in 0 .. MaxVersion
    /\ pr \in [PRs -> [state : {"none", "open", "closed", "merged"},
                       base : 0 .. version, opened : 0 .. version]]
    /\ conflicted \subseteq PRs /\ skipped \subseteq PRs
    /\ due \in BOOLEAN /\ lost \in BOOLEAN
    /\ sweep \in [Slots -> [at : {"idle", "compare", "update"}, todo : SUBSET PRs,
                            pr : PRs \cup {None}, since : 0 .. version]]
    /\ \A w \in Slots :
         IF sweep[w].at = "update" THEN sweep[w].pr \in sweep[w].todo ELSE sweep[w].pr = None
    /\ disturbances \in 0 .. MaxDisturbances

Unopened == [state |-> "none", base |-> 0, opened |-> 0]

Init ==
    /\ version = 0
    /\ pr = [p \in PRs |-> Unopened]
    /\ conflicted = {}
    /\ due = FALSE
    /\ sweep = [w \in Slots |-> Idle]
    /\ skipped = {} /\ lost = FALSE
    /\ disturbances = 0

-----------------------------------------------------------------------------
(* The administrators.                                                     *)

Open(p) ==
    /\ pr[p].state = "none"
    /\ \E b \in 0 .. version :
         pr' = [pr EXCEPT ![p] = [state |-> "open", base |-> b, opened |-> version]]
    /\ UNCHANGED << version, conflicted, due, sweep, skipped, lost, disturbances >>

(* People merge the default branch into the branch of p, which ends a      *)
(* conflict.                                                               *)
Resolve(p) ==
    /\ pr[p].state = "open" /\ pr[p].base < version
    /\ pr' = [pr EXCEPT ![p].base = version]
    /\ conflicted' = conflicted \ {p}
    /\ UNCHANGED << version, due, sweep, skipped, lost, disturbances >>

Close(p) ==
    /\ pr[p].state = "open"
    /\ pr' = [pr EXCEPT ![p].state = "closed"]
    /\ UNCHANGED << version, conflicted, due, sweep, skipped, lost, disturbances >>

Reopen(p) ==
    /\ pr[p].state = "closed"
    /\ pr' = [pr EXCEPT ![p].state = "open", ![p].opened = version]
    /\ UNCHANGED << version, conflicted, due, sweep, skipped, lost, disturbances >>

(* The settings on the default branch change, by a push or a merge, which  *)
(* enqueues the sweep (_handle_push); a pull request may conflict now.     *)
Push ==
    /\ version < MaxVersion
    /\ version' = version + 1
    /\ \/ UNCHANGED << pr, skipped >>
       \/ \E p \in PRs \ conflicted :
            /\ pr[p].state = "open"
            /\ pr' = [pr EXCEPT ![p] = [Unopened EXCEPT !.state = "merged"]]
            /\ skipped' = skipped \ {p}
    /\ \E more \in SUBSET {p \in PRs : pr'[p].state \in {"open", "closed"}} :
         conflicted' = conflicted \cup more
    /\ due' = TRUE
    /\ UNCHANGED << sweep, lost, disturbances >>

-----------------------------------------------------------------------------
(* The job update_admin_prs: the open pull requests are listed, then       *)
(* looked at one after the other.                                          *)
ListOpen(w) ==
    /\ sweep[w].at = "idle" /\ due
    /\ due' = FALSE
    /\ sweep' = [sweep EXCEPT ![w] = [at |-> "compare", pr |-> None, since |-> version,
                                      todo |-> {p \in PRs : pr[p].state = "open"}]]
    /\ UNCHANGED << account, skipped, lost, disturbances >>

(* The listing is the one call of the sweep that nothing isolates.         *)
ListFails(w) ==
    /\ sweep[w].at = "idle" /\ due
    /\ Disturb
    /\ due' = FALSE /\ lost' = TRUE
    /\ UNCHANGED << account, sweep, skipped >>

Behind(p) == pr[p].base < version

(* The sweep is done with p.                                               *)
NextPR(w, p) ==
    sweep' = [sweep EXCEPT ![w].at = "compare", ![w].pr = None, ![w].todo = @ \ {p}]

Compare(w) ==
    /\ sweep[w].at = "compare"
    /\ \E p \in sweep[w].todo :
         IF Behind(p)
         THEN /\ sweep' = [sweep EXCEPT ![w].at = "update", ![w].pr = p]
              /\ UNCHANGED skipped
         ELSE NextPR(w, p) /\ skipped' = skipped \ {p}
    /\ UNCHANGED << account, due, lost, disturbances >>

(* Mutant: the sweep ends at the first pull request it has to skip.        *)
SkipEndsSweep(w, p) == skipped' = skipped \cup {p} /\ End(w)

(* Mutant: the next one is looked at before this one is put away.          *)
SkipKeepsPR(w, p) ==
    skipped' = skipped \cup {p} /\ sweep' = [sweep EXCEPT ![w].at = "compare", ![w].todo = @ \ {p}]

(* One that cannot be compared or updated does not hold up the others.     *)
Skip(w, p) == skipped' = skipped \cup {p} /\ NextPR(w, p)

CompareFails(w) ==
    /\ sweep[w].at = "compare"
    /\ Disturb
    /\ \E p \in sweep[w].todo : Skip(w, p)
    /\ UNCHANGED << account, due, lost >>

Updatable(p) == pr[p].state = "open" /\ Behind(p) /\ p \notin conflicted \cup Forks

(* GitHub merges the default branch into the pull request.  It answers 202 *)
(* and merges a little later, which is one step here.                      *)
Update(w) ==
    /\ sweep[w].at = "update"
    /\ LET p == sweep[w].pr IN
         /\ Updatable(p)
         /\ pr' = [pr EXCEPT ![p].base = version]
         /\ skipped' = skipped \ {p}
         /\ NextPR(w, p)
    /\ UNCHANGED << version, conflicted, due, lost, disturbances >>

(* It refuses to (a conflict, a fork, nothing to merge), or the call fails.*)
UpdateFails(w) ==
    /\ sweep[w].at = "update"
    /\ IF Updatable(sweep[w].pr) THEN Disturb ELSE UNCHANGED disturbances
    /\ Skip(w, sweep[w].pr)
    /\ UNCHANGED << account, due, lost >>

(* Mutant: only one sweep may be known at a time.                          *)
SweepEndsClearing(w) ==
    /\ sweep[w].at = "compare" /\ sweep[w].todo = {}
    /\ End(w)
    /\ due' = FALSE
    /\ UNCHANGED << account, skipped, lost, disturbances >>

SweepEnds(w) ==
    /\ sweep[w].at = "compare" /\ sweep[w].todo = {}
    /\ End(w)
    /\ UNCHANGED << account, due, skipped, lost, disturbances >>

(* The worker dies, and the job is run again from its start; or it times   *)
(* out, or a call raises anything but RequestFailed, and nothing retries.  *)
Fail(w) ==
    /\ sweep[w].at # "idle"
    /\ Disturb
    /\ \/ due' = TRUE /\ UNCHANGED lost
       \/ lost' = TRUE /\ UNCHANGED due
    /\ End(w)
    /\ UNCHANGED << account, skipped >>

Work(w) == ListOpen(w) \/ Compare(w) \/ Update(w) \/ UpdateFails(w) \/ SweepEnds(w)

Next ==
    \/ \E p \in PRs : Open(p) \/ Resolve(p) \/ Close(p) \/ Reopen(p)
    \/ Push
    \/ \E w \in Slots : Work(w) \/ ListFails(w) \/ CompareFails(w) \/ Fail(w)

Spec == Init /\ [][Next]_vars

(* The worker comes to a job that waits, and a sweep goes on.              *)
FairSpec == Spec /\ \A w \in Slots : WF_vars(Work(w))

-----------------------------------------------------------------------------
(* Properties.                                                             *)

(* "Never raises for a single PR that cannot be updated" (pr_update.py:84):*)
(* when a sweep that was not cut off is over, each pull request that was   *)
(* open before the default branch moved is up to date with what the sweep  *)
(* began from, unless it has been skipped or closed.                       *)
SweepIsThorough ==
    [][\A w \in Slots, p \in PRs :
         /\ sweep[w].at # "idle" /\ sweep'[w].at = "idle"
         /\ UNCHANGED disturbances
         /\ pr[p].state = "open" /\ pr[p].opened < sweep[w].since
         => pr[p].base >= sweep[w].since \/ p \in skipped']_vars

(* Each open pull request ends up with the last of the default branch if   *)
(* that has moved since it was opened, so that its dry run compares with   *)
(* what is live; unless it was skipped, or a sweep has raised.             *)
ProposalsBecomeCurrent ==
    \A p \in PRs : <>[](pr[p].state = "open" =>
        \/ version \in {pr[p].opened, pr[p].base}
        \/ p \in skipped \/ lost)
=============================================================================
