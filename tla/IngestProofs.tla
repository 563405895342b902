---------------------------- MODULE IngestProofs ----------------------------
(* Machine-checked proofs about Ingest.  The argument: a dedup key is held *)
(* by at most one request that still enqueues (Exclusive), and that        *)
(* request's place in the plan is exactly the number of jobs enqueued for  *)
(* the delivery (InStep).                                                  *)
EXTENDS Ingest, TLAPS, SequenceTheorems

(* At most one request enqueues for a delivery id at a time.               *)
Exclusive ==
    \A g, h \in Handlers :
        (/\ pc[g] = "enqueue" /\ pc[h] = "enqueue"
         /\ serving[g] = serving[h] /\ serving[g] \in Ids) => g = h

(* A request that enqueues holds the key, and has enqueued the jobs before *)
(* its place in the plan and no other.                                     *)
InStep ==
    \A h \in Handlers :
        (pc[h] = "enqueue" /\ serving[h] \in Ids) =>
            /\ serving[h] \in claimed
            /\ next[h] = Len(enqueued[serving[h]]) + 1

(* A delivery whose key is not set has nothing on record.                  *)
Fresh ==
    \A d \in Ids \ claimed : enqueued[d] = << >> /\ replies[d] \subseteq {"invalid signature"}

(* What a claimed delivery owes: somebody has done it, is doing it, or     *)
(* gave it up.                                                             *)
Covered ==
    \A d \in claimed :
        \/ enqueued[d] = JobsOf(d)
        \/ \E h \in Handlers : pc[h] = "enqueue" /\ serving[h] = d
        \/ d \in failed
        \/ "ignored" \in replies[d]

(* Once a delivery has been accepted nobody enqueues for it any more.      *)
Settled ==
    \A d \in Ids : "accepted" \in replies[d] =>
        \A h \in Handlers : ~(pc[h] = "enqueue" /\ serving[h] = d)

IInv ==
    /\ TypeOK
    /\ Exclusive
    /\ InStep
    /\ Fresh
    /\ Covered
    /\ Settled
    /\ AtMostOncePerWindow
    /\ AcceptedIsComplete

-----------------------------------------------------------------------------
(* Every plan is a sequence of jobs.                                       *)
LEMMA PlanIsSeq ==
    ASSUME NEW p \in PayloadFields
    PROVE  Plan(p) \in Seq(Jobs)
<1>1. AccountJob("reconcile_installation") \in Jobs /\ AccountJob("update_admin_prs") \in Jobs
      /\ AccountJob("reconcile_org") \in Jobs
  BY DEF AccountJob, Jobs, Functions
<1>2. \A dry \in BOOLEAN : p.repo # NoRepo => RepoJob(p.repo, dry) \in Jobs
  BY DEF RepoJob, Jobs, Functions, PayloadFields
<1>0. << >> \in Seq(Jobs) /\ \A j \in Jobs : << j >> \in Seq(Jobs)
  OBVIOUS
<1>3. PushJobs(p) \in Seq(Jobs)
  BY <1>1 DEF PushJobs
<1>4. RepositoryJobs(p) \in Seq(Jobs)
  <2>1. p.repo # NoRepo => << RepoJob(p.repo, FALSE) >> \in Seq(Jobs)
    BY <1>0, <1>2
  <2> QED
    BY <1>0, <2>1 DEF RepositoryJobs
<1>5. PullRequestJobs(p) \in Seq(Jobs)
  <2>1. p.repo = AdminRepo => << RepoJob(p.repo, TRUE) >> \in Seq(Jobs)
    BY <1>0, <1>2, ReposAssumption
  <2> QED
    BY <1>0, <2>1 DEF PullRequestJobs
<1>6. DriftJobs(p) \in Seq(Jobs)
  <2>1. p.repo # NoRepo => << RepoJob(p.repo, FALSE) >> \in Seq(Jobs)
    BY <1>0, <1>2
  <2>2. << AccountJob("reconcile_org") >> \in Seq(Jobs)
    BY <1>0, <1>1
  <2> QED
    BY <1>0, <2>1, <2>2 DEF DriftJobs, PayloadFields
<1>7. p.event \in Kinds
  BY DEF PayloadFields
<1> QED
  BY <1>3, <1>4, <1>5, <1>6, <1>7 DEF Plan, Kinds

(* The plan of every delivery is a sequence of jobs.                       *)
LEMMA JobsOfIsSeq ==
    ASSUME TypeOK, NEW d \in Deliveries
    PROVE  JobsOf(d) \in Seq(Jobs)
<1>1. payload[d] \in PayloadFields
  BY PayloadsAssumption DEF TypeOK
<1> QED
  BY <1>1, PlanIsSeq DEF JobsOf

(* The types hold initially.                                               *)
LEMMA InitTypeOK == Init => TypeOK
  BY SendsAssumption DEF Init, TypeOK, Deliveries, Requests

(* Every step keeps the types.                                             *)
LEMMA NextTypeOK == TypeOK /\ [Next]_vars => TypeOK'
<1>1. ASSUME TypeOK, NEW q \in Requests, Send(q) PROVE TypeOK'
  BY <1>1, SendsAssumption DEF TypeOK, Send
<1>2. ASSUME TypeOK, NEW q \in Requests, Lose(q) PROVE TypeOK'
  BY <1>2 DEF TypeOK, Lose
<1>3. ASSUME TypeOK, NEW h \in Handlers, NEW q \in Requests, Receive(h, q) PROVE TypeOK'
  <2>1. q.id \in Deliveries
    BY DEF Requests
  <2>2. wire[q] > 0 /\ wire' = [wire EXCEPT ![q] = @ - 1]
    BY <1>3 DEF Receive
  <2>3. wire' \in [Requests -> Nat]
    BY <1>3, <2>2 DEF TypeOK
  <2>4. pc' \in [Handlers -> {"idle", "dedup", "enqueue"}] /\ serving' \in [Handlers -> Deliveries]
    BY <1>3, <2>1 DEF TypeOK, Receive
  <2>5. replies' \in [Deliveries -> SUBSET Statuses]
    <3>1. \/ replies' = replies
          \/ replies' = [replies EXCEPT ![q.id] = @ \cup {"invalid signature"}]
      BY <1>3 DEF Receive
    <3>2. replies \in [Deliveries -> SUBSET Statuses]
      BY <1>3 DEF TypeOK
    <3>3. replies[q.id] \cup {"invalid signature"} \in SUBSET Statuses
      BY <2>1, <3>2 DEF Statuses
    <3> QED
      BY <2>1, <3>1, <3>2, <3>3
  <2> QED
    BY <1>3, <2>3, <2>4, <2>5 DEF TypeOK, Receive
<1>4. ASSUME TypeOK, NEW h \in Handlers, DropDuplicate(h) PROVE TypeOK'
  BY <1>4 DEF TypeOK, DropDuplicate, Reply, Statuses
<1>5. ASSUME TypeOK, NEW h \in Handlers, Claim(h) PROVE TypeOK'
  <2>1. claimed' \subseteq Ids
    BY <1>5 DEF TypeOK, Claim, Deliveries
  <2>2. UNCHANGED << payload, sends, wire, serving, enqueued, failed >>
    BY <1>5 DEF Claim
  <2>3. CASE payload[serving[h]].installation
    <3>1. /\ pc' = [pc EXCEPT ![h] = "enqueue"]
          /\ next' = [next EXCEPT ![h] = 1]
          /\ replies' = replies
      BY <1>5, <2>3 DEF Claim
    <3> QED
      BY <1>5, <2>1, <2>2, <3>1 DEF TypeOK
  <2>4. CASE ~payload[serving[h]].installation
    <3>1. /\ pc' = [pc EXCEPT ![h] = "idle"]
          /\ next' = next
          /\ replies' = [replies EXCEPT ![serving[h]] = @ \cup {"ignored"}]
      BY <1>5, <2>4 DEF Claim, Reply
    <3> QED
      BY <1>5, <2>1, <2>2, <3>1 DEF TypeOK, Statuses
  <2> QED
    BY <2>3, <2>4
<1>6. ASSUME TypeOK, NEW h \in Handlers, Enqueue(h) PROVE TypeOK'
  <2> DEFINE d == serving[h]
             job == JobsOf(d)[next[h]]
  <2>1. d \in Deliveries /\ JobsOf(d) \in Seq(Jobs) /\ enqueued[d] \in Seq(Jobs)
    BY <1>6, JobsOfIsSeq DEF TypeOK
  <2>2. job \in Jobs
    <3>1. next[h] \in Nat \ {0} /\ next[h] <= Len(JobsOf(d))
      BY <1>6 DEF TypeOK, Enqueue
    <3>2. next[h] \in 1 .. Len(JobsOf(d))
      BY <2>1, <3>1
    <3> QED
      BY <2>1, <3>2, ElementOfSeq
  <2>3. Append(enqueued[d], job) \in Seq(Jobs)
    BY <2>1, <2>2, AppendProperties
  <2>4. enqueued' \in [Deliveries -> Seq(Jobs)]
    BY <1>6, <2>3, Zenon DEF TypeOK, Enqueue
  <2>5. next' \in [Handlers -> Nat \ {0}]
    BY <1>6 DEF TypeOK, Enqueue
  <2> QED
    BY <1>6, <2>4, <2>5 DEF TypeOK, Enqueue
<1>7. ASSUME TypeOK, NEW h \in Handlers, Accept(h) PROVE TypeOK'
  BY <1>7 DEF TypeOK, Accept, Reply, Statuses
<1>8. ASSUME TypeOK, NEW h \in Handlers, Die(h) PROVE TypeOK'
  BY <1>8 DEF TypeOK, Die
<1>9. ASSUME TypeOK, NEW d \in Ids, Expire(d) PROVE TypeOK'
  <2>1. << >> \in Seq(Jobs)
    OBVIOUS
  <2>2. enqueued' \in [Deliveries -> Seq(Jobs)]
    BY <1>9, <2>1, Zenon DEF TypeOK, Expire
  <2> QED
    BY <1>9, <2>2 DEF TypeOK, Expire
<1>10. ASSUME TypeOK, UNCHANGED vars PROVE TypeOK'
  BY <1>10 DEF TypeOK, vars
<1> QED
  BY <1>1, <1>2, <1>3, <1>4, <1>5, <1>6, <1>7, <1>8, <1>9, <1>10 DEF Next

(* Type correctness: every variable of the ingest keeps its type.          *)
THEOREM TypeCorrect == Spec => []TypeOK
<1> QED
  BY InitTypeOK, NextTypeOK, PTL DEF Spec

-----------------------------------------------------------------------------
(* The handlers that hold a place in a plan after a step are the same ones *)
(* as before, except where h itself takes or leaves one.                   *)
SameEnqueuers(h) ==
    \A g \in Handlers \ {h} :
        pc'[g] = pc[g] /\ serving'[g] = serving[g] /\ next'[g] = next[g]

(* A step that leaves every variable but sends and wire keeps IInv.        *)
LEMMA FrameIInv ==
    ASSUME IInv, TypeOK',
           UNCHANGED << payload, claimed, pc, serving, next, enqueued, failed, replies >>
    PROVE  IInv'
  BY DEF IInv, Exclusive, InStep, Fresh, Covered, Settled, AtMostOncePerWindow,
         AcceptedIsComplete, JobsOf

(* IInv holds initially.                                                   *)
LEMMA InitIInv == Init => IInv
<1> SUFFICES ASSUME Init PROVE IInv
  OBVIOUS
<1>1. TypeOK
  BY InitTypeOK
<1>2. \A d \in Ids : enqueued[d] = << >> /\ replies[d] = {}
  BY DEF Init, Deliveries
<1>3. claimed = {} /\ \A h \in Handlers : pc[h] = "idle"
  BY DEF Init
<1>4. \A d \in Ids : Len(JobsOf(d)) \in Nat
  BY <1>1, JobsOfIsSeq, LenProperties DEF Deliveries
<1>5. AtMostOncePerWindow
  <2>1. ASSUME NEW d \in Ids
        PROVE  /\ Len(enqueued[d]) <= Len(JobsOf(d))
               /\ \A i \in 1 .. Len(enqueued[d]) : enqueued[d][i] = JobsOf(d)[i]
    <3>1. Len(enqueued[d]) = 0
      BY <1>2, EmptySeq
    <3> QED
      BY <1>4, <3>1
  <2> QED
    BY <2>1, Zenon DEF AtMostOncePerWindow
<1> QED
  BY <1>1, <1>2, <1>3, <1>5
  DEF IInv, Exclusive, InStep, Fresh, Covered, Settled, AcceptedIsComplete

(* A request arrives.                                                      *)
LEMMA ReceiveIInv ==
    ASSUME IInv, TypeOK', NEW h \in Handlers, NEW q \in Requests, Receive(h, q)
    PROVE  IInv'
<1> USE DEF IInv
<1>1. /\ UNCHANGED << payload, claimed, next, enqueued, failed >>
      /\ pc[h] = "idle"
  BY DEF Receive
<1>2. CASE q.signed
  <2>1. /\ pc' = [pc EXCEPT ![h] = "dedup"]
        /\ serving' = [serving EXCEPT ![h] = q.id]
        /\ replies' = replies
    BY <1>2 DEF Receive
  <2>2. SameEnqueuers(h) /\ pc'[h] = "dedup"
    BY <1>1, <2>1 DEF TypeOK, SameEnqueuers
  <2>3. Exclusive'
    BY <2>2 DEF Exclusive, SameEnqueuers
  <2>4. InStep'
    BY <1>1, <2>2 DEF InStep, SameEnqueuers
  <2>5. Covered'
    BY <1>1, <2>1, <2>2 DEF Covered, SameEnqueuers, JobsOf
  <2>6. Settled'
    BY <1>1, <2>1, <2>2 DEF Settled, SameEnqueuers
  <2> QED
    BY <1>1, <2>1, <2>3, <2>4, <2>5, <2>6
    DEF Fresh, AtMostOncePerWindow, AcceptedIsComplete, JobsOf
<1>3. CASE ~q.signed
  <2>1. /\ UNCHANGED << pc, serving >>
        /\ replies' = [replies EXCEPT ![q.id] = @ \cup {"invalid signature"}]
    BY <1>3 DEF Receive
  <2>2. \A d \in Ids : /\ replies[d] \subseteq replies'[d]
                       /\ replies'[d] \subseteq replies[d] \cup {"invalid signature"}
    BY <2>1 DEF TypeOK, Deliveries
  <2>3. Fresh'
    BY <1>1, <2>2 DEF Fresh
  <2>4. Covered'
    BY <1>1, <2>1, <2>2 DEF Covered, JobsOf, TypeOK
  <2>5. Settled' /\ AcceptedIsComplete'
    BY <1>1, <2>1, <2>2 DEF Settled, AcceptedIsComplete, JobsOf
  <2> QED
    BY <1>1, <2>1, <2>3, <2>4, <2>5
    DEF Exclusive, InStep, AtMostOncePerWindow, JobsOf
<1> QED
  BY <1>2, <1>3

(* A duplicate is dropped.                                                 *)
LEMMA DropDuplicateIInv ==
    ASSUME IInv, TypeOK', NEW h \in Handlers, DropDuplicate(h)
    PROVE  IInv'
<1> USE DEF IInv
<1>1. /\ UNCHANGED << payload, claimed, serving, next, enqueued, failed >>
      /\ pc[h] = "dedup"
      /\ serving[h] \in claimed
      /\ pc' = [pc EXCEPT ![h] = "idle"]
      /\ replies' = [replies EXCEPT ![serving[h]] = @ \cup {"duplicate"}]
  BY DEF DropDuplicate, Reply
<1>2. SameEnqueuers(h) /\ pc'[h] = "idle"
  BY <1>1 DEF TypeOK, SameEnqueuers
<1>3. \A d \in Ids : /\ replies[d] \subseteq replies'[d]
                     /\ replies'[d] \subseteq replies[d] \cup {"duplicate"}
                     /\ d # serving[h] => replies'[d] = replies[d]
  BY <1>1 DEF TypeOK, Deliveries
<1>4. Exclusive' /\ InStep'
  BY <1>1, <1>2 DEF Exclusive, InStep, SameEnqueuers
<1>5. Fresh'
  BY <1>1, <1>3 DEF Fresh
<1>6. Covered'
  BY <1>1, <1>2, <1>3 DEF Covered, SameEnqueuers, JobsOf, TypeOK
<1>7. Settled' /\ AcceptedIsComplete'
  BY <1>1, <1>2, <1>3 DEF Settled, AcceptedIsComplete, SameEnqueuers, JobsOf
<1> QED
  BY <1>1, <1>4, <1>5, <1>6, <1>7 DEF AtMostOncePerWindow, JobsOf

(* A request claims its delivery.                                          *)
LEMMA ClaimIInv ==
    ASSUME IInv, TypeOK', NEW h \in Handlers, Claim(h)
    PROVE  IInv'
<1> DEFINE d == serving[h]
<1> USE DEF IInv
<1>1. /\ UNCHANGED << payload, serving, enqueued, failed >>
      /\ pc[h] = "dedup"
      /\ d \notin claimed
      /\ claimed' = claimed \cup ({d} \ {NoId})
  BY DEF Claim
<1>2. \A g \in Handlers : pc[g] = "enqueue" /\ serving[g] \in Ids => serving[g] # d
  BY <1>1 DEF InStep
<1>3. d \in Ids => enqueued[d] = << >> /\ "accepted" \notin replies[d] /\ d \in claimed'
  BY <1>1, IdsAssumption DEF Fresh
<1>4. claimed \subseteq claimed' /\ claimed' \subseteq claimed \cup {d}
  BY <1>1
<1>5. CASE payload[d].installation
  <2>1. /\ pc' = [pc EXCEPT ![h] = "enqueue"]
        /\ next' = [next EXCEPT ![h] = 1]
        /\ replies' = replies
    BY <1>5 DEF Claim
  <2>2. SameEnqueuers(h) /\ pc'[h] = "enqueue" /\ next'[h] = 1 /\ serving'[h] = d
    BY <1>1, <2>1 DEF TypeOK, SameEnqueuers
  <2>3. Exclusive'
    BY <1>1, <1>2, <2>2 DEF Exclusive, SameEnqueuers
  <2>4. InStep'
    <3>1. d \in Ids => next'[h] = Len(enqueued'[d]) + 1
      BY <1>1, <1>3, <2>2
    <3> QED
      BY <1>1, <1>3, <1>4, <2>2, <3>1 DEF InStep, SameEnqueuers
  <2>5. Fresh'
    BY <1>1, <1>4, <2>1 DEF Fresh
  <2>6. Covered'
    BY <1>1, <1>4, <2>1, <2>2 DEF Covered, SameEnqueuers, JobsOf, TypeOK
  <2>7. Settled'
    BY <1>1, <1>3, <2>1, <2>2 DEF Settled, SameEnqueuers
  <2> QED
    BY <1>1, <2>1, <2>3, <2>4, <2>5, <2>6, <2>7
    DEF AtMostOncePerWindow, AcceptedIsComplete, JobsOf
<1>6. CASE ~payload[d].installation
  <2>1. /\ pc' = [pc EXCEPT ![h] = "idle"]
        /\ next' = next
        /\ replies' = [replies EXCEPT ![d] = @ \cup {"ignored"}]
    BY <1>6 DEF Claim, Reply
  <2>2. SameEnqueuers(h) /\ pc'[h] = "idle"
    BY <1>1, <2>1 DEF TypeOK, SameEnqueuers
  <2>3. \A e \in Ids : /\ replies[e] \subseteq replies'[e]
                       /\ replies'[e] \subseteq replies[e] \cup {"ignored"}
                       /\ e # d => replies'[e] = replies[e]
    BY <2>1 DEF TypeOK, Deliveries
  <2>4. d \in Ids => "ignored" \in replies'[d]
    BY <2>1 DEF TypeOK, Deliveries
  <2>5. Exclusive' /\ InStep'
    BY <1>1, <1>4, <2>2 DEF Exclusive, InStep, SameEnqueuers
  <2>6. Fresh'
    BY <1>1, <1>3, <1>4, <2>3 DEF Fresh
  <2>7. Covered'
    BY <1>1, <1>4, <2>2, <2>3, <2>4 DEF Covered, SameEnqueuers, JobsOf, TypeOK
  <2>8. Settled' /\ AcceptedIsComplete'
    BY <1>1, <2>2, <2>3 DEF Settled, AcceptedIsComplete, SameEnqueuers, JobsOf
  <2> QED
    BY <1>1, <2>5, <2>6, <2>7, <2>8 DEF AtMostOncePerWindow, JobsOf
<1> QED
  BY <1>5, <1>6

(* A request enqueues the next job of its plan.                            *)
LEMMA EnqueueIInv ==
    ASSUME IInv, TypeOK', NEW h \in Handlers, Enqueue(h)
    PROVE  IInv'
<1> DEFINE d == serving[h]
           job == JobsOf(d)[next[h]]
<1> USE DEF IInv
<1>1. /\ UNCHANGED << payload, claimed, pc, serving, failed, replies >>
      /\ pc[h] = "enqueue"
      /\ next[h] <= Len(JobsOf(d))
      /\ enqueued' = [enqueued EXCEPT ![d] = Append(@, job)]
      /\ next' = [next EXCEPT ![h] = @ + 1]
  BY DEF Enqueue
<1>2. d \in Deliveries /\ JobsOf(d) \in Seq(Jobs) /\ enqueued[d] \in Seq(Jobs)
  BY JobsOfIsSeq DEF TypeOK
<1>3. \A e \in Deliveries : e # d => enqueued'[e] = enqueued[e]
  BY <1>1 DEF TypeOK
<1>4. enqueued'[d] = Append(enqueued[d], job)
  BY <1>1, <1>2 DEF TypeOK
<1>5. /\ Len(enqueued'[d]) = Len(enqueued[d]) + 1
      /\ enqueued'[d][Len(enqueued[d]) + 1] = job
      /\ \A i \in 1 .. Len(enqueued[d]) : enqueued'[d][i] = enqueued[d][i]
  <2>1. next[h] \in 1 .. Len(JobsOf(d))
    BY <1>1, <1>2, LenProperties DEF TypeOK
  <2>2. job \in Jobs
    BY <1>2, <2>1, ElementOfSeq
  <2> QED
    BY <1>2, <1>4, <2>2, AppendProperties
<1>6. next'[h] = next[h] + 1 /\ \A g \in Handlers \ {h} : next'[g] = next[g]
  BY <1>1 DEF TypeOK
<1>7. d \in Ids => d \in claimed /\ next[h] = Len(enqueued[d]) + 1
  BY <1>1 DEF InStep
<1>8. \A g \in Handlers \ {h} : pc[g] = "enqueue" /\ serving[g] \in Ids => serving[g] # d
  BY <1>1 DEF Exclusive
<1>9. "accepted" \notin replies[d] \/ d \notin Ids
  BY <1>1 DEF Settled
<1>10. Len(enqueued[d]) \in Nat /\ Len(JobsOf(d)) \in Nat
  BY <1>2, LenProperties
<1>11. InStep'
  <2>1. ASSUME NEW g \in Handlers, pc'[g] = "enqueue", serving'[g] \in Ids
        PROVE  serving'[g] \in claimed' /\ next'[g] = Len(enqueued'[serving'[g]]) + 1
    <3>1. CASE g = h
      BY <1>1, <1>5, <1>6, <1>7, <2>1, <3>1
    <3>2. CASE g # h
      BY <1>1, <1>3, <1>6, <1>8, <2>1, <3>2 DEF InStep, Deliveries
    <3> QED
      BY <3>1, <3>2
  <2> QED
    BY <2>1 DEF InStep
<1>12. AtMostOncePerWindow'
  <2>1. ASSUME NEW e \in Ids
        PROVE  /\ Len(enqueued'[e]) <= Len(JobsOf(e))
               /\ \A i \in 1 .. Len(enqueued'[e]) : enqueued'[e][i] = JobsOf(e)[i]
    <3>1. CASE e = d
      <4>1. Len(enqueued'[d]) <= Len(JobsOf(d))
        BY <1>1, <1>5, <1>7, <1>10, <3>1
      <4>2. ASSUME NEW i \in 1 .. Len(enqueued'[d])
            PROVE  enqueued'[d][i] = JobsOf(d)[i]
        <5>1. CASE i = Len(enqueued[d]) + 1
          BY <1>5, <1>7, <3>1, <5>1
        <5>2. CASE i \in 1 .. Len(enqueued[d])
          BY <1>5, <3>1, <5>2 DEF AtMostOncePerWindow
        <5> QED
          BY <1>5, <1>10, <5>1, <5>2
      <4> QED
        BY <3>1, <4>1, <4>2
    <3>2. CASE e # d
      BY <1>3, <3>2 DEF AtMostOncePerWindow, Deliveries
    <3> QED
      BY <3>1, <3>2
  <2> QED
    BY <1>1, <2>1 DEF AtMostOncePerWindow, JobsOf
<1>13. Fresh'
  BY <1>1, <1>3, <1>7 DEF Fresh, Deliveries
<1>14. Covered'
  BY <1>1, <1>3 DEF Covered, JobsOf, TypeOK, Deliveries
<1>15. Settled' /\ Exclusive'
  BY <1>1 DEF Settled, Exclusive
<1>16. AcceptedIsComplete'
  BY <1>1, <1>3, <1>9 DEF AcceptedIsComplete, JobsOf, Deliveries
<1> QED
  BY <1>11, <1>12, <1>13, <1>14, <1>15, <1>16

(* A request answers 202.                                                  *)
LEMMA AcceptIInv ==
    ASSUME IInv, TypeOK', NEW h \in Handlers, Accept(h)
    PROVE  IInv'
<1> DEFINE d == serving[h]
<1> USE DEF IInv
<1>1. /\ UNCHANGED << payload, claimed, serving, next, enqueued, failed >>
      /\ pc[h] = "enqueue"
      /\ next[h] > Len(JobsOf(d))
      /\ pc' = [pc EXCEPT ![h] = "idle"]
      /\ replies' = [replies EXCEPT ![d] = @ \cup {"accepted"}]
  BY DEF Accept, Reply
<1>2. d \in Deliveries /\ JobsOf(d) \in Seq(Jobs) /\ enqueued[d] \in Seq(Jobs)
  BY JobsOfIsSeq DEF TypeOK
<1>3. SameEnqueuers(h) /\ pc'[h] = "idle"
  BY <1>1 DEF TypeOK, SameEnqueuers
<1>4. \A e \in Ids : /\ replies[e] \subseteq replies'[e]
                     /\ replies'[e] \subseteq replies[e] \cup {"accepted"}
                     /\ e # d => replies'[e] = replies[e]
  BY <1>1 DEF TypeOK, Deliveries
<1>5. d \in Ids => d \in claimed /\ enqueued[d] = JobsOf(d)
  <2>1. Len(enqueued[d]) \in Nat /\ Len(JobsOf(d)) \in Nat
    BY <1>2, LenProperties
  <2>2. d \in Ids => Len(enqueued[d]) = Len(JobsOf(d))
    BY <1>1, <2>1 DEF InStep, AtMostOncePerWindow, TypeOK
  <2>3. ASSUME d \in Ids PROVE enqueued[d] = JobsOf(d)
    <3>1. \A i \in 1 .. Len(enqueued[d]) : enqueued[d][i] = JobsOf(d)[i]
      BY <2>3 DEF AtMostOncePerWindow
    <3> QED
      BY <1>2, <2>2, <2>3, <3>1, SeqEqual
  <2> QED
    BY <1>1, <2>3 DEF InStep
<1>6. \A g \in Handlers \ {h} : pc[g] = "enqueue" /\ serving[g] \in Ids => serving[g] # d
  BY <1>1 DEF Exclusive
<1>7. Exclusive' /\ InStep'
  BY <1>1, <1>3 DEF Exclusive, InStep, SameEnqueuers
<1>8. Fresh'
  BY <1>1, <1>4, <1>5 DEF Fresh
<1>9. Covered'
  <2>1. ASSUME NEW e \in claimed
        PROVE  \/ enqueued[e] = JobsOf(e)
               \/ \E g \in Handlers : pc'[g] = "enqueue" /\ serving[g] = e
               \/ e \in failed
               \/ "ignored" \in replies'[e]
    <3>1. CASE e = d
      BY <1>5, <3>1 DEF TypeOK
    <3>2. CASE e # d
      BY <1>1, <1>3, <1>4, <3>2 DEF Covered, SameEnqueuers, TypeOK
    <3> QED
      BY <3>1, <3>2
  <2> QED
    BY <1>1, <2>1 DEF Covered, JobsOf
<1>10. Settled'
  <2>1. ASSUME NEW e \in Ids, "accepted" \in replies'[e], NEW g \in Handlers,
               pc'[g] = "enqueue", serving[g] = e
        PROVE  FALSE
    <3>1. g # h /\ pc[g] = "enqueue"
      BY <1>3, <2>1 DEF SameEnqueuers
    <3>2. e # d
      BY <1>6, <2>1, <3>1
    <3> QED
      BY <1>4, <2>1, <3>1, <3>2 DEF Settled
  <2> QED
    BY <1>1, <2>1 DEF Settled
<1>11. AcceptedIsComplete'
  BY <1>1, <1>4, <1>5 DEF AcceptedIsComplete, JobsOf
<1> QED
  BY <1>1, <1>7, <1>8, <1>9, <1>10, <1>11 DEF AtMostOncePerWindow, JobsOf

(* A request dies.                                                         *)
LEMMA DieIInv ==
    ASSUME IInv, TypeOK', NEW h \in Handlers, Die(h)
    PROVE  IInv'
<1> USE DEF IInv
<1>1. /\ UNCHANGED << payload, claimed, serving, next, enqueued, replies >>
      /\ pc' = [pc EXCEPT ![h] = "idle"]
      /\ failed' = failed \cup {serving[h]}
  BY DEF Die
<1>2. SameEnqueuers(h) /\ pc'[h] = "idle"
  BY <1>1 DEF TypeOK, SameEnqueuers
<1>3. Exclusive' /\ InStep'
  BY <1>1, <1>2 DEF Exclusive, InStep, SameEnqueuers
<1>4. Covered'
  BY <1>1, <1>2 DEF Covered, SameEnqueuers, JobsOf, TypeOK
<1>5. Settled'
  BY <1>1, <1>2 DEF Settled, SameEnqueuers
<1> QED
  BY <1>1, <1>3, <1>4, <1>5 DEF Fresh, AtMostOncePerWindow, AcceptedIsComplete, JobsOf

(* A dedup key expires.                                                    *)
LEMMA ExpireIInv ==
    ASSUME IInv, TypeOK', NEW d \in Ids, Expire(d)
    PROVE  IInv'
<1> USE DEF IInv
<1>1. /\ UNCHANGED << payload, pc, serving, next >>
      /\ \A h \in Handlers : pc[h] # "idle" => serving[h] # d
      /\ claimed' = claimed \ {d}
      /\ enqueued' = [enqueued EXCEPT ![d] = << >>]
      /\ failed' = failed \ {d}
      /\ replies' = [replies EXCEPT ![d] = {}]
  BY DEF Expire
<1>2. \A h \in Handlers : pc[h] = "enqueue" => serving[h] # d
  BY <1>1
<1>3. /\ enqueued'[d] = << >> /\ replies'[d] = {}
      /\ \A e \in Ids \ {d} : enqueued'[e] = enqueued[e] /\ replies'[e] = replies[e]
  BY <1>1 DEF TypeOK, Deliveries
<1>4. Exclusive'
  BY <1>1 DEF Exclusive
<1>5. InStep'
  BY <1>1, <1>2, <1>3 DEF InStep
<1>6. Fresh'
  BY <1>1, <1>3 DEF Fresh
<1>7. Covered'
  BY <1>1, <1>2, <1>3 DEF Covered, JobsOf, TypeOK
<1>8. Settled'
  BY <1>1, <1>3 DEF Settled
<1>9. AcceptedIsComplete'
  BY <1>1, <1>3 DEF AcceptedIsComplete, JobsOf
<1>10. AtMostOncePerWindow'
  <2>1. Len(enqueued'[d]) = 0 /\ Len(JobsOf(d)) \in Nat
    BY <1>3, JobsOfIsSeq, LenProperties DEF Deliveries
  <2>2. ASSUME NEW e \in Ids
        PROVE  /\ Len(enqueued'[e]) <= Len(JobsOf(e))
               /\ \A i \in 1 .. Len(enqueued'[e]) : enqueued'[e][i] = JobsOf(e)[i]
    BY <1>3, <2>1 DEF AtMostOncePerWindow
  <2> QED
    BY <1>1, <2>2 DEF AtMostOncePerWindow, JobsOf
<1> QED
  BY <1>4, <1>5, <1>6, <1>7, <1>8, <1>9, <1>10

(* Every step keeps IInv.                                                  *)
LEMMA NextIInv == IInv /\ [Next]_vars => IInv'
<1> SUFFICES ASSUME IInv, Next \/ UNCHANGED vars PROVE IInv'
  BY DEF vars
<1>0. TypeOK'
  BY NextTypeOK DEF IInv
<1>1. ASSUME NEW q \in Requests, Send(q) PROVE IInv'
  BY <1>0, <1>1, FrameIInv DEF Send
<1>2. ASSUME NEW q \in Requests, Lose(q) PROVE IInv'
  BY <1>0, <1>2, FrameIInv DEF Lose
<1>3. CASE UNCHANGED vars
  BY <1>0, <1>3, FrameIInv DEF vars
<1> QED
  BY <1>0, <1>1, <1>2, <1>3, ReceiveIInv, DropDuplicateIInv, ClaimIInv, EnqueueIInv,
     AcceptIInv, DieIInv, ExpireIInv DEF Next

(* IInv is an invariant of the ingest.                                     *)
LEMMA SpecIInv == Spec => []IInv
  BY InitIInv, NextIInv, PTL DEF Spec

(* For any number of deliveries, requests and resends: while a dedup key   *)
(* lives the jobs enqueued for its delivery are a prefix of the plan.      *)
THEOREM AtMostOnce == Spec => []AtMostOncePerWindow
<1>1. IInv => AtMostOncePerWindow
  BY DEF IInv
<1> QED
  BY <1>1, SpecIInv, PTL

(* A delivery answered 202 has its whole plan on the queue.                *)
THEOREM AcceptedComplete == Spec => []AcceptedIsComplete
<1>1. IInv => AcceptedIsComplete
  BY DEF IInv
<1> QED
  BY <1>1, SpecIInv, PTL

(* A delivery dropped as a duplicate was taken over by another request.    *)
THEOREM DuplicateCovered == Spec => []DuplicateIsCovered
<1>1. IInv => DuplicateIsCovered
  BY DEF IInv, Covered, Fresh, DuplicateIsCovered
<1> QED
  BY <1>1, SpecIInv, PTL
=============================================================================
