----------------------------- MODULE SweepProofs -----------------------------
(* Machine-checked proofs about Sweep.  That a sweep is thorough when it   *)
(* ends is about all it has met on its way, while others go on: Accounted  *)
(* says at each moment what has become of each pull request.               *)
EXTENDS Sweep, TLAPS

(* What a sweep owes a pull request that was open before the default       *)
(* branch moved: it is still to be looked at, or up to date with what the  *)
(* sweep began from, or was skipped.                                       *)
Accounted ==
    \A w \in Slots, p \in PRs :
        /\ sweep[w].at # "idle"
        /\ pr[p].state = "open" /\ pr[p].opened < sweep[w].since
        => \/ p \in sweep[w].todo
           \/ pr[p].base >= sweep[w].since
           \/ p \in skipped

IInv == TypeOK /\ Accounted

-----------------------------------------------------------------------------
(* A pull request, and a sweep, while the default branch has v commits.    *)
PRStates(v) ==
    [state : {"none", "open", "closed", "merged"}, base : 0 .. v, opened : 0 .. v]

SweepStates(v) ==
    {s \in [at : {"idle", "compare", "update"}, todo : SUBSET PRs,
            pr : PRs \cup {None}, since : 0 .. v] :
        IF s.at = "update" THEN s.pr \in s.todo ELSE s.pr = None}

(* The type invariant, with what each slot holds said in one place.        *)
LEMMA Types ==
    TypeOK <=>
        /\ version \in 0 .. MaxVersion
        /\ pr \in [PRs -> PRStates(version)]
        /\ conflicted \subseteq PRs /\ skipped \subseteq PRs
        /\ due \in BOOLEAN /\ lost \in BOOLEAN
        /\ sweep \in [Slots -> SweepStates(version)]
        /\ disturbances \in 0 .. MaxDisturbances
  BY DEF TypeOK, PRStates, SweepStates

(* The same for the next state.                                            *)
LEMMA TypesNext ==
    TypeOK' <=>
        /\ version' \in 0 .. MaxVersion
        /\ pr' \in [PRs -> PRStates(version')]
        /\ conflicted' \subseteq PRs /\ skipped' \subseteq PRs
        /\ due' \in BOOLEAN /\ lost' \in BOOLEAN
        /\ sweep' \in [Slots -> SweepStates(version')]
        /\ disturbances' \in 0 .. MaxDisturbances
  BY DEF TypeOK, PRStates, SweepStates

(* The types hold initially.                                               *)
LEMMA InitTypeOK == Init => TypeOK
<1> SUFFICES ASSUME Init PROVE TypeOK
  OBVIOUS
<1>1. 0 \in 0 .. 0 /\ 0 \in 0 .. MaxVersion /\ 0 \in 0 .. MaxDisturbances
  BY BoundsAssumption
<1>2. Unopened \in PRStates(0) /\ Idle \in SweepStates(0)
  BY <1>1 DEF Unopened, Idle, PRStates, SweepStates
<1> QED
  BY <1>1, <1>2, Types DEF Init

(* The counter of disturbances stays within its bound.                     *)
LEMMA DisturbBound ==
    ASSUME TypeOK, Disturb \/ UNCHANGED disturbances
    PROVE  disturbances' \in 0 .. MaxDisturbances
  BY BoundsAssumption DEF Disturb, TypeOK

(* A sweep that ends keeps the types of all.                               *)
LEMMA EndType ==
    ASSUME TypeOK, NEW w \in Slots, End(w)
    PROVE  sweep' \in [Slots -> SweepStates(version)]
<1>1. 0 \in 0 .. version
  BY BoundsAssumption DEF TypeOK
<1>2. Idle \in SweepStates(version)
  BY <1>1 DEF Idle, SweepStates
<1> QED
  BY <1>2, Types DEF End

(* So does one that goes on to its next pull request.                      *)
LEMMA NextPRType ==
    ASSUME TypeOK, NEW w \in Slots, NEW p, NextPR(w, p)
    PROVE  sweep' \in [Slots -> SweepStates(version)]
<1>1. sweep[w] \in SweepStates(version)
  BY Types
<1>2. [sweep[w] EXCEPT !.at = "compare", !.pr = None, !.todo = @ \ {p}] \in SweepStates(version)
  BY <1>1 DEF SweepStates
<1>3. sweep' = [sweep EXCEPT ![w] =
                  [sweep[w] EXCEPT !.at = "compare", !.pr = None, !.todo = @ \ {p}]]
  BY Types DEF NextPR, SweepStates
<1> QED
  BY <1>2, <1>3, Types

(* So does one that skips a pull request.                                  *)
LEMMA SkipType ==
    ASSUME TypeOK, NEW w \in Slots, NEW p \in PRs, Skip(w, p)
    PROVE  sweep' \in [Slots -> SweepStates(version)] /\ skipped' \subseteq PRs
<1>1. NextPR(w, p) /\ skipped' = skipped \cup {p}
  BY DEF Skip
<1> QED
  BY <1>1, NextPRType, Types

(* The types survive when the default branch gets a commit.                *)
LEMMA TypesGrow ==
    ASSUME TypeOK, version' = version + 1
    PROVE  /\ PRStates(version) \subseteq PRStates(version')
           /\ SweepStates(version) \subseteq SweepStates(version')
<1>1. 0 .. version \subseteq 0 .. version'
  BY BoundsAssumption DEF TypeOK
<1> QED
  BY <1>1 DEF PRStates, SweepStates

(* Every step keeps the types.                                             *)
LEMMA NextTypeOK == TypeOK /\ [Next]_vars => TypeOK'
<1> SUFFICES ASSUME TypeOK, [Next]_vars PROVE TypeOK'
  OBVIOUS
<1> USE TypesNext
<1>0. version \in 0 .. version /\ 0 \in 0 .. version /\ version \in Nat
  BY BoundsAssumption, Types
<1>1. ASSUME NEW p \in PRs, Open(p) PROVE TypeOK'
  <2>1. PICK b \in 0 .. version :
          pr' = [pr EXCEPT ![p] = [state |-> "open", base |-> b, opened |-> version]]
    BY <1>1 DEF Open
  <2>2. [state |-> "open", base |-> b, opened |-> version] \in PRStates(version)
    BY <1>0 DEF PRStates
  <2> QED
    BY <1>1, <2>1, <2>2, Types DEF Open
<1>2. ASSUME NEW p \in PRs, Resolve(p) PROVE TypeOK'
  <2>1. pr' = [pr EXCEPT ![p] = [pr[p] EXCEPT !.base = version]]
    BY <1>2, Types DEF Resolve
  <2>2. [pr[p] EXCEPT !.base = version] \in PRStates(version)
    BY <1>0, Types DEF PRStates
  <2> QED
    BY <1>2, <2>1, <2>2, Types DEF Resolve
<1>3. ASSUME NEW p \in PRs, Close(p) PROVE TypeOK'
  <2>1. pr' = [pr EXCEPT ![p] = [pr[p] EXCEPT !.state = "closed"]]
    BY <1>3, Types DEF Close
  <2>2. [pr[p] EXCEPT !.state = "closed"] \in PRStates(version)
    BY Types DEF PRStates
  <2> QED
    BY <1>3, <2>1, <2>2, Types DEF Close
<1>4. ASSUME NEW p \in PRs, Reopen(p) PROVE TypeOK'
  <2>1. pr' = [pr EXCEPT ![p] = [pr[p] EXCEPT !.state = "open", !.opened = version]]
    BY <1>4, Types DEF Reopen
  <2>2. [pr[p] EXCEPT !.state = "open", !.opened = version] \in PRStates(version)
    BY <1>0, Types DEF PRStates
  <2> QED
    BY <1>4, <2>1, <2>2, Types DEF Reopen
<1>5. ASSUME Push PROVE TypeOK'
  <2>1. version' = version + 1 /\ version' \in 0 .. MaxVersion
    BY <1>0, <1>5, BoundsAssumption DEF Push
  <2>2. Unopened \in PRStates(version) /\ [Unopened EXCEPT !.state = "merged"] \in PRStates(version)
    BY <1>0 DEF Unopened, PRStates
  <2>3. pr' \in [PRs -> PRStates(version)] /\ skipped' \subseteq PRs
    BY <1>5, <2>2, Types DEF Push
  <2>4. pr' \in [PRs -> PRStates(version')] /\ sweep \in [Slots -> SweepStates(version')]
    BY <2>1, <2>3, TypesGrow, Types
  <2>5. conflicted' \subseteq PRs
    BY <1>5, Types DEF Push
  <2> QED
    BY <1>5, <2>1, <2>3, <2>4, <2>5, Types DEF Push
<1>6. ASSUME NEW w \in Slots, ListOpen(w) PROVE TypeOK'
  <2>1. [at |-> "compare", pr |-> None, since |-> version,
         todo |-> {p \in PRs : pr[p].state = "open"}] \in SweepStates(version)
    BY <1>0 DEF SweepStates
  <2> QED
    BY <1>6, <2>1, Types DEF ListOpen, account
<1>7. ASSUME NEW w \in Slots, Compare(w) PROVE TypeOK'
  <2>1. PICK p \in sweep[w].todo :
          IF Behind(p)
          THEN /\ sweep' = [sweep EXCEPT ![w].at = "update", ![w].pr = p]
               /\ UNCHANGED skipped
          ELSE NextPR(w, p) /\ skipped' = skipped \ {p}
    BY <1>7 DEF Compare
  <2>2. sweep[w] \in SweepStates(version)
    BY Types
  <2>3. [sweep[w] EXCEPT !.at = "update", !.pr = p] \in SweepStates(version)
    BY <2>2 DEF SweepStates
  <2>4. sweep' \in [Slots -> SweepStates(version)] /\ skipped' \subseteq PRs
    <3>1. CASE Behind(p)
      <4>1. sweep' = [sweep EXCEPT ![w] = [sweep[w] EXCEPT !.at = "update", !.pr = p]]
        BY <2>1, <3>1, Types
      <4> QED
        BY <2>1, <2>3, <3>1, <4>1, Types
    <3>2. CASE ~Behind(p)
      BY <2>1, <3>2, NextPRType, Types
    <3> QED
      BY <3>1, <3>2
  <2> QED
    BY <1>7, <2>4, Types DEF Compare, account
<1>8. ASSUME NEW w \in Slots, Update(w) PROVE TypeOK'
  <2> DEFINE p == sweep[w].pr
  <2>1. pr' = [pr EXCEPT ![p].base = version] /\ skipped' = skipped \ {p} /\ NextPR(w, p)
    BY <1>8 DEF Update
  <2>2. p \in PRs
    BY <1>8, Types DEF Update, SweepStates
  <2>3. [pr[p] EXCEPT !.base = version] \in PRStates(version)
    BY <1>0, <2>2, Types DEF PRStates
  <2>4. pr' \in [PRs -> PRStates(version)]
    <3> HIDE DEF p
    <3>1. pr' = [pr EXCEPT ![p] = [pr[p] EXCEPT !.base = version]]
      BY <2>1, <2>2, Types
    <3> QED
      BY <2>2, <2>3, <3>1, Types
  <2> QED
    BY <1>8, <2>1, <2>4, NextPRType, Types DEF Update
<1>9. ASSUME NEW w \in Slots, UpdateFails(w) PROVE TypeOK'
  <2>1. sweep[w].pr \in PRs
    BY <1>9, Types DEF UpdateFails, SweepStates
  <2>2. Disturb \/ UNCHANGED disturbances
    BY <1>9 DEF UpdateFails
  <2>3. sweep' \in [Slots -> SweepStates(version)] /\ skipped' \subseteq PRs
    BY <1>9, <2>1, SkipType DEF UpdateFails
  <2> QED
    BY <1>9, <2>2, <2>3, DisturbBound, Types DEF UpdateFails, account
<1>10. ASSUME NEW w \in Slots, SweepEnds(w) PROVE TypeOK'
  BY <1>10, EndType, Types DEF SweepEnds, account
<1>11. ASSUME NEW w \in Slots, ListFails(w) PROVE TypeOK'
  BY <1>11, DisturbBound, Types DEF ListFails, account
<1>12. ASSUME NEW w \in Slots, CompareFails(w) PROVE TypeOK'
  <2>1. PICK p \in sweep[w].todo : Skip(w, p)
    BY <1>12 DEF CompareFails
  <2>2. p \in PRs
    BY Types DEF SweepStates
  <2>3. sweep' \in [Slots -> SweepStates(version)] /\ skipped' \subseteq PRs
    BY <2>1, <2>2, SkipType
  <2> QED
    BY <1>12, <2>3, DisturbBound, Types DEF CompareFails, account
<1>13. ASSUME NEW w \in Slots, Fail(w) PROVE TypeOK'
  BY <1>13, DisturbBound, EndType, Types DEF Fail, account
<1>14. CASE UNCHANGED vars
  BY <1>14, Types DEF vars
<1> QED
  BY <1>1, <1>2, <1>3, <1>4, <1>5, <1>6, <1>7, <1>8, <1>9, <1>10, <1>11, <1>12, <1>13, <1>14
     DEF Next, Work

-----------------------------------------------------------------------------
(* What is left of each sweep when one of them is done with p.             *)
LEMMA NextPRLeaves ==
    ASSUME TypeOK, NEW w \in Slots, NEW p, NextPR(w, p)
    PROVE  \A x \in Slots :
             /\ sweep'[x].since = sweep[x].since
             /\ sweep[x].todo \ {p} \subseteq sweep'[x].todo
             /\ sweep'[x].at # "idle" => sweep[x].at # "idle" \/ x = w
<1>1. sweep' = [sweep EXCEPT ![w] =
                  [sweep[w] EXCEPT !.at = "compare", !.pr = None, !.todo = @ \ {p}]]
  BY Types DEF NextPR
<1>2. \A x \in Slots : sweep[x] \in SweepStates(version)
  BY Types
<1>3. sweep'[w] = [sweep[w] EXCEPT !.at = "compare", !.pr = None, !.todo = @ \ {p}]
  BY <1>1, Types
<1>4. sweep'[w].since = sweep[w].since /\ sweep'[w].todo = sweep[w].todo \ {p}
  BY <1>2, <1>3 DEF SweepStates
<1>5. \A x \in Slots \ {w} : sweep'[x] = sweep[x]
  BY <1>1, Types
<1> QED
  BY <1>4, <1>5

(* An open pull request that contains all of the default branch is         *)
(* accounted for, and so is one that was opened only now.                  *)
LEMMA CurrentIsAccounted ==
    ASSUME TypeOK, NEW x \in Slots, NEW p \in PRs
    PROVE  /\ sweep[x].since <= version
           /\ pr[p].base >= version => pr[p].base >= sweep[x].since
           /\ sweep[x].since \in Nat /\ pr[p].base \in Nat /\ version \in Nat
<1>1. sweep[x].since \in 0 .. version /\ pr[p].base \in 0 .. version /\ version \in Nat
  BY BoundsAssumption, Types DEF SweepStates, PRStates
<1> QED
  BY <1>1

(* Accounted is kept by a step that takes p off the list of a sweep if p   *)
(* is up to date or skipped then.                                          *)
LEMMA DoneWithIsAccounted ==
    ASSUME TypeOK, Accounted, NEW w \in Slots, NEW p \in PRs,
           sweep[w].at # "idle", NextPR(w, p),
           \A q \in PRs : /\ pr'[q].state = pr[q].state /\ pr'[q].opened = pr[q].opened
                          /\ q # p => pr'[q].base = pr[q].base /\ (q \in skipped => q \in skipped'),
           pr'[p].base = version \/ p \in skipped'
    PROVE  Accounted'
<1> SUFFICES ASSUME NEW x \in Slots, NEW q \in PRs,
                    sweep'[x].at # "idle",
                    pr'[q].state = "open" /\ pr'[q].opened < sweep'[x].since
             PROVE  q \in sweep'[x].todo \/ pr'[q].base >= sweep'[x].since \/ q \in skipped'
  BY DEF Accounted
<1>1. sweep'[x].since = sweep[x].since /\ sweep[x].todo \ {p} \subseteq sweep'[x].todo
      /\ sweep[x].at # "idle"
  BY NextPRLeaves
<1>2. q \in sweep[x].todo \/ pr[q].base >= sweep[x].since \/ q \in skipped
  BY <1>1 DEF Accounted
<1>3. CASE q = p
  BY <1>1, <1>3, CurrentIsAccounted
<1>4. CASE q # p
  BY <1>1, <1>2, <1>4
<1> QED
  BY <1>3, <1>4

(* Nothing is lost track of by a step that leaves alone the pull requests  *)
(* and what is skipped, and at most ends a sweep.                          *)
LEMMA EndIsAccounted ==
    ASSUME TypeOK, Accounted, NEW w \in Slots, End(w) \/ UNCHANGED sweep, UNCHANGED << pr, skipped >>
    PROVE  Accounted'
<1>1. \A x \in Slots : sweep'[x].at # "idle" => sweep'[x] = sweep[x]
  BY Types DEF End, Idle
<1> QED
  BY <1>1 DEF Accounted

(* Every step keeps account of the pull requests.                          *)
LEMMA NextAccounted == IInv /\ [Next]_vars => Accounted'
<1> SUFFICES ASSUME TypeOK, Accounted, [Next]_vars PROVE Accounted'
  BY DEF IInv
<1>1. ASSUME NEW p \in PRs, Open(p) PROVE Accounted'
  <2>1. pr'[p].opened = version /\ \A q \in PRs \ {p} : pr'[q] = pr[q]
    BY <1>1, Types DEF Open
  <2>2. UNCHANGED << sweep, skipped >>
    BY <1>1 DEF Open
  <2>3. \A x \in Slots : ~(pr'[p].opened < sweep[x].since)
    BY <2>1, CurrentIsAccounted
  <2> QED
    BY <2>1, <2>2, <2>3 DEF Accounted
<1>2. ASSUME NEW p \in PRs, Resolve(p) PROVE Accounted'
  <2>1. pr' = [pr EXCEPT ![p] = [pr[p] EXCEPT !.base = version]]
    BY <1>2, Types DEF Resolve
  <2>2. [pr[p] EXCEPT !.base = version].base = version
    BY Types DEF PRStates
  <2>3. pr'[p].base = version /\ \A q \in PRs \ {p} : pr'[q] = pr[q]
    BY <2>1, <2>2, Types
  <2>4. UNCHANGED << sweep, skipped >>
    BY <1>2 DEF Resolve
  <2>5. \A x \in Slots : pr'[p].base >= sweep[x].since
    BY <2>3, CurrentIsAccounted
  <2> QED
    BY <2>3, <2>4, <2>5 DEF Accounted
<1>3. ASSUME NEW p \in PRs, Close(p) PROVE Accounted'
  <2>1. pr' = [pr EXCEPT ![p] = [pr[p] EXCEPT !.state = "closed"]]
    BY <1>3, Types DEF Close
  <2>2. [pr[p] EXCEPT !.state = "closed"].state = "closed"
    BY Types DEF PRStates
  <2>3. pr'[p].state = "closed" /\ \A q \in PRs \ {p} : pr'[q] = pr[q]
    BY <2>1, <2>2, Types
  <2>4. UNCHANGED << sweep, skipped >>
    BY <1>3 DEF Close
  <2> QED
    BY <2>3, <2>4 DEF Accounted
<1>4. ASSUME NEW p \in PRs, Reopen(p) PROVE Accounted'
  <2>1. pr' = [pr EXCEPT ![p] = [pr[p] EXCEPT !.state = "open", !.opened = version]]
    BY <1>4, Types DEF Reopen
  <2>2. [pr[p] EXCEPT !.state = "open", !.opened = version].opened = version
    BY Types DEF PRStates
  <2>3. pr'[p].opened = version /\ \A q \in PRs \ {p} : pr'[q] = pr[q]
    BY <2>1, <2>2, Types
  <2>4. UNCHANGED << sweep, skipped >>
    BY <1>4 DEF Reopen
  <2>5. \A x \in Slots : ~(pr'[p].opened < sweep[x].since)
    BY <2>3, CurrentIsAccounted
  <2> QED
    BY <2>3, <2>4, <2>5 DEF Accounted
<1>5. ASSUME Push PROVE Accounted'
  <2>1. UNCHANGED sweep
    BY <1>5 DEF Push
  <2>2. \A q \in PRs :
          \/ pr'[q] = pr[q] /\ (q \in skipped => q \in skipped')
          \/ pr'[q].state = "merged"
    BY <1>5, Types DEF Push, Unopened
  <2> QED
    BY <2>1, <2>2 DEF Accounted
<1>6. ASSUME NEW w \in Slots, ListOpen(w) PROVE Accounted'
  <2>1. sweep'[w].todo = {p \in PRs : pr[p].state = "open"}
        /\ \A x \in Slots \ {w} : sweep'[x] = sweep[x]
    BY <1>6, Types DEF ListOpen
  <2>2. UNCHANGED << pr, skipped >>
    BY <1>6 DEF ListOpen, account
  <2> QED
    BY <2>1, <2>2 DEF Accounted
<1>7. ASSUME NEW w \in Slots, Compare(w) PROVE Accounted'
  <2>1. PICK p \in sweep[w].todo :
          IF Behind(p)
          THEN /\ sweep' = [sweep EXCEPT ![w].at = "update", ![w].pr = p]
               /\ UNCHANGED skipped
          ELSE NextPR(w, p) /\ skipped' = skipped \ {p}
    BY <1>7 DEF Compare
  <2>2. sweep[w] \in SweepStates(version) /\ sweep[w].at = "compare" /\ UNCHANGED pr
    BY <1>7, Types DEF Compare, account
  <2>3. p \in PRs
    BY <2>2 DEF SweepStates
  <2>4. CASE Behind(p)
    <3>1. sweep' = [sweep EXCEPT ![w] = [sweep[w] EXCEPT !.at = "update", !.pr = p]]
      BY <2>1, <2>4, Types
    <3>2. [sweep[w] EXCEPT !.at = "update", !.pr = p].todo = sweep[w].todo
          /\ [sweep[w] EXCEPT !.at = "update", !.pr = p].since = sweep[w].since
      BY <2>2 DEF SweepStates
    <3>3. sweep'[w].todo = sweep[w].todo /\ sweep'[w].since = sweep[w].since
          /\ \A x \in Slots \ {w} : sweep'[x] = sweep[x]
      BY <3>1, <3>2, Types
    <3> QED
      BY <2>1, <2>2, <2>4, <3>3 DEF Accounted
  <2>5. CASE ~Behind(p)
    <3>1. pr[p].base = version
      BY <2>3, <2>5, BoundsAssumption, Types DEF Behind, PRStates
    <3> QED
      BY <2>1, <2>2, <2>3, <2>5, <3>1, DoneWithIsAccounted
  <2> QED
    BY <2>4, <2>5
<1>8. ASSUME NEW w \in Slots, Update(w) PROVE Accounted'
  <2>1. PICK p \in PRs : /\ pr' = [pr EXCEPT ![p].base = version]
                         /\ skipped' = skipped \ {p} /\ NextPR(w, p)
    BY <1>8, Types DEF Update, SweepStates
  <2>2. pr' = [pr EXCEPT ![p] = [pr[p] EXCEPT !.base = version]]
    BY <2>1, Types
  <2>3. [pr[p] EXCEPT !.base = version].base = version
        /\ [pr[p] EXCEPT !.base = version].state = pr[p].state
        /\ [pr[p] EXCEPT !.base = version].opened = pr[p].opened
    BY Types DEF PRStates
  <2>4. pr'[p].base = version /\ pr'[p].state = pr[p].state /\ pr'[p].opened = pr[p].opened
        /\ \A q \in PRs \ {p} : pr'[q] = pr[q]
    BY <2>2, <2>3, Types
  <2>5. sweep[w].at # "idle"
    BY <1>8 DEF Update
  <2> QED
    BY <2>1, <2>4, <2>5, DoneWithIsAccounted
<1>9. ASSUME NEW w \in Slots, UpdateFails(w) PROVE Accounted'
  <2>1. PICK p \in PRs : Skip(w, p)
    BY <1>9, Types DEF UpdateFails, SweepStates
  <2>2. NextPR(w, p) /\ skipped' = skipped \cup {p} /\ sweep[w].at # "idle" /\ UNCHANGED pr
    BY <1>9, <2>1 DEF UpdateFails, Skip, account
  <2> QED
    BY <2>2, DoneWithIsAccounted
<1>10. ASSUME NEW w \in Slots, SweepEnds(w) PROVE Accounted'
  BY <1>10, EndIsAccounted DEF SweepEnds, account
<1>11. ASSUME NEW w \in Slots, ListFails(w) PROVE Accounted'
  BY <1>11, EndIsAccounted DEF ListFails, account
<1>12. ASSUME NEW w \in Slots, CompareFails(w) PROVE Accounted'
  <2>1. PICK p \in PRs : Skip(w, p)
    BY <1>12, Types DEF CompareFails, SweepStates
  <2>2. NextPR(w, p) /\ skipped' = skipped \cup {p} /\ sweep[w].at # "idle" /\ UNCHANGED pr
    BY <1>12, <2>1 DEF CompareFails, Skip, account
  <2> QED
    BY <2>2, DoneWithIsAccounted
<1>13. ASSUME NEW w \in Slots, Fail(w) PROVE Accounted'
  BY <1>13, EndIsAccounted DEF Fail, account
<1>14. CASE UNCHANGED vars
  BY <1>14 DEF vars, Accounted
<1> QED
  BY <1>1, <1>2, <1>3, <1>4, <1>5, <1>6, <1>7, <1>8, <1>9, <1>10, <1>11, <1>12, <1>13, <1>14
     DEF Next, Work

(* The strengthened invariant holds throughout.                            *)
LEMMA Inductive == Spec => []IInv
<1>1. Init => IInv
  <2>1. Init => Accounted
    BY DEF Init, Accounted, Idle
  <2> QED
    BY <2>1, InitTypeOK DEF IInv
<1>2. IInv /\ [Next]_vars => IInv'
  BY NextTypeOK, NextAccounted DEF IInv
<1> QED
  BY <1>1, <1>2, PTL DEF Spec

-----------------------------------------------------------------------------
(* The types hold throughout: each sweep updates a pull request it has     *)
(* listed (pr_update.py:91-109).                                           *)
THEOREM TypeCorrect == Spec => []TypeOK
<1>1. IInv => TypeOK
  BY DEF IInv
<1> QED
  BY <1>1, Inductive, PTL

(* What a step that ends a sweep without a disturbance may be.             *)
LEMMA OnlySweepEnds ==
    ASSUME TypeOK, [Next]_vars, NEW w \in Slots,
           sweep[w].at # "idle", sweep'[w].at = "idle", UNCHANGED disturbances
    PROVE  SweepEnds(w)
<1>0. disturbances \in Nat
  BY BoundsAssumption DEF TypeOK
<1>1. ~Disturb
  BY <1>0 DEF Disturb
<1>2. \A x \in Slots : ~ListFails(x) /\ ~CompareFails(x) /\ ~Fail(x)
  BY <1>1 DEF ListFails, CompareFails, Fail
<1>3. ~UNCHANGED sweep
  OBVIOUS
<1>4. PICK x \in Slots : Work(x)
  BY <1>2, <1>3 DEF Next, Push, Open, Resolve, Close, Reopen, vars
<1>5. \A p : NextPR(x, p) => sweep'[w].at # "idle"
  <2> SUFFICES ASSUME NEW p, NextPR(x, p) PROVE sweep'[w].at # "idle"
    OBVIOUS
  <2>1. sweep[x] \in SweepStates(version)
    BY Types
  <2>2. sweep' = [sweep EXCEPT ![x] =
                    [sweep[x] EXCEPT !.at = "compare", !.pr = None, !.todo = @ \ {p}]]
    BY Types DEF NextPR
  <2>3. [sweep[x] EXCEPT !.at = "compare", !.pr = None, !.todo = @ \ {p}].at = "compare"
    BY <2>1 DEF SweepStates
  <2> QED
    BY <2>2, <2>3, Types
<1>6. ~Compare(x)
  <2>1. \A p : sweep' = [sweep EXCEPT ![x].at = "update", ![x].pr = p] => sweep'[w].at # "idle"
    <3> SUFFICES ASSUME NEW p, sweep' = [sweep EXCEPT ![x].at = "update", ![x].pr = p]
                 PROVE  sweep'[w].at # "idle"
      OBVIOUS
    <3>1. sweep' = [sweep EXCEPT ![x] = [sweep[x] EXCEPT !.at = "update", !.pr = p]]
      BY Types
    <3>2. sweep[x] \in SweepStates(version)
      BY Types
    <3>3. [sweep[x] EXCEPT !.at = "update", !.pr = p].at = "update"
      BY <3>2 DEF SweepStates
    <3> QED
      BY <3>1, <3>3, Types
  <2> QED
    BY <1>5, <2>1 DEF Compare
<1>7. ~Update(x)
  BY <1>5 DEF Update
<1>8. ~UpdateFails(x)
  BY <1>5 DEF UpdateFails, Skip
<1>9. ~ListOpen(x)
  BY Types DEF ListOpen
<1>10. SweepEnds(x)
  BY <1>4, <1>6, <1>7, <1>8, <1>9 DEF Work
<1> QED
  BY <1>10, Types DEF SweepEnds, End

(* "Never raises for a single PR that cannot be updated" (pr_update.py:84):*)
(* a sweep that was not cut off has brought up to date, or skipped, every  *)
(* pull request that was open before the default branch moved, whatever    *)
(* people and other sweeps did meanwhile.                                  *)
THEOREM Thorough == Spec => SweepIsThorough
<1> DEFINE Done(w, p) ==
      (/\ sweep[w].at # "idle" /\ sweep'[w].at = "idle"
       /\ UNCHANGED disturbances
       /\ pr[p].state = "open" /\ pr[p].opened < sweep[w].since)
         => pr[p].base >= sweep[w].since \/ p \in skipped'
<1>1. ASSUME IInv, [Next]_vars, NEW w \in Slots, NEW p \in PRs PROVE Done(w, p)
  <2> SUFFICES ASSUME sweep[w].at # "idle", sweep'[w].at = "idle", UNCHANGED disturbances,
                      pr[p].state = "open", pr[p].opened < sweep[w].since
               PROVE  pr[p].base >= sweep[w].since \/ p \in skipped'
    OBVIOUS
  <2>1. SweepEnds(w)
    BY <1>1, OnlySweepEnds DEF IInv
  <2>2. sweep[w].todo = {} /\ skipped' = skipped
    BY <2>1 DEF SweepEnds
  <2> QED
    BY <1>1, <2>2 DEF IInv, Accounted
<1>2. IInv /\ [Next]_vars => \A w \in Slots, p \in PRs : Done(w, p)
  BY <1>1
<1>3. IInv /\ [Next]_vars => [\A w \in Slots, p \in PRs : Done(w, p)]_vars
  BY <1>2
<1> QED
  BY <1>3, Inductive, PTL DEF Spec, SweepIsThorough
=============================================================================
