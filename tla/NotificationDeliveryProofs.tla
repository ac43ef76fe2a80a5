--------------------- MODULE NotificationDeliveryProofs ---------------------
(***************************************************************************)
(* The proof that NotificationQueue implements Delivery, for any number of *)
(* jobs, workers, callers, handlers and attempts.                          *)
(***************************************************************************)
EXTENDS NotificationDelivery, NotificationQueueProofs

(* What an observer of the promise sees of the queue.                      *)
Seen == <<StatusOf, InApp, delivered, confirmed, callbacks, aborts + lost>>

(* A step that keeps the statuses and keys of the rows shows nothing of    *)
(* the job table.                                                          *)
LEMMA SameTable ==
  ASSUME \A i \in Jobs : row'[i].status = row[i].status /\ row'[i].key = row[i].key
  PROVE  StatusOf' = StatusOf /\ InApp' = InApp
BY DEF StatusOf, InApp, Exists, Kind

(* A step that rewrites the status of one existing row.                    *)
LEMMA OneStatus ==
  ASSUME NEW j \in Jobs, NEW s, Exists(j), Rewritten(j, s), s # "NONE"
  PROVE  StatusOf' = [StatusOf EXCEPT ![j] = s] /\ InApp' = InApp
<1>1. \A i \in Jobs : i # j => row'[i] = row[i]
  BY DEF Rewritten, OthersKept
<1>2. row'[j].status = s /\ row'[j].key = row[j].key
  BY DEF Rewritten
<1>3. StatusOf' = [StatusOf EXCEPT ![j] = s]
  BY <1>1, <1>2 DEF StatusOf
<1>4. \A i \in Jobs : (row'[i].status # "NONE") = (row[i].status # "NONE")
                      /\ row'[i].key = row[i].key
  BY <1>1, <1>2 DEF Exists
<1>5. InApp' = InApp
  BY <1>4 DEF InApp, Exists, Kind
<1> QED
  BY <1>3, <1>5

(* The insert of enqueueJob accepts a message.                             *)
LEMMA CreateAccepts ==
  ASSUME TypeOK, NEW c \in Callers, NEW j \in Jobs, EnqueueCreate(c, j)
  PROVE  Promised!Accept(j, KindOf[caller[c].key] = "portal")
<1>1. /\ ~Exists(j) /\ row'[j].status = "QUEUED" /\ row'[j].key = caller[c].key
      /\ \A i \in Jobs : i # j => row'[i] = row[i]
  BY CreateEffect DEF OthersKept
<1>2. StatusOf[j] = "NONE" /\ StatusOf' = [StatusOf EXCEPT ![j] = "QUEUED"]
  BY <1>1 DEF StatusOf, Exists
<1>3. InApp' = IF KindOf[caller[c].key] = "portal" THEN InApp \cup {j} ELSE InApp
  BY <1>1 DEF InApp, Exists, Kind
<1>4. UNCHANGED <<delivered, confirmed, callbacks, aborts, lost>>
  BY DEF EnqueueCreate, history
<1> QED
  BY <1>2, <1>3, <1>4 DEF Promised!Accept, Promised!Accepted

(* A worker that has yet to hear from the provider keeps the successes     *)
(* below their bound, and so the deliveries below theirs.                  *)
LEMMA RoomToDeliver ==
  ASSUME IInv, NEW w \in Workers, worker[w].pc = "counted",
         NEW j \in Jobs, worker[w].job = j
  PROVE  delivered[j] < Cardinality(Workers) * (callbacks + 1) + (aborts + lost)
<1>1. /\ acked[j] \in Nat /\ callbacks \in Nat /\ aborts \in Nat
      /\ delivered[j] \in Nat /\ lost \in Nat
      /\ delivered[j] <= acked[j] + lost
  BY QueueAssumption DEF IInv, TypeOK, HeardInv
<1>2. Cardinality(Undecided(j)) >= 1 /\ Cardinality(Undecided(j)) \in Nat
  <2>1. w \in Undecided(j)
    BY DEF Undecided
  <2>2. IsFiniteSet(Undecided(j)) /\ Cardinality(Undecided(j)) \in Nat
    BY QueueAssumption, FS_Subset, FS_CardinalityType DEF Undecided
  <2>3. Cardinality(Undecided(j)) # 0
    BY <2>1, <2>2, FS_EmptySet
  <2> QED
    BY <2>2, <2>3
<1>3. acked[j] + Cardinality(Undecided(j)) <= Cardinality(Workers) + Allowance
  BY DEF IInv, DeliveryInv
<1>4. Allowance \in Nat
  BY Allowances DEF IInv
<1>5. Cardinality(Workers) * (callbacks + 1) + aborts = Cardinality(Workers) + Allowance
  BY <1>1, SomeWorkers DEF Allowance
<1>6. acked[j] < Cardinality(Workers) * (callbacks + 1) + aborts
  BY <1>1, <1>2, <1>3, <1>4, <1>5, SomeWorkers
<1>7. Cardinality(Workers) * (callbacks + 1) \in Nat
  BY <1>1, SomeWorkers
<1> QED
  BY <1>1, <1>6, <1>7

(* A provider call is a delivery, heard of or not, or shows nothing.       *)
LEMMA DispatchDelivers ==
  ASSUME IInv, NEW w \in Workers, NEW t \in BOOLEAN, NEW s \in BOOLEAN,
         Dispatch(w, t, s)
  PROVE  \/ Promised!Deliver(worker[w].job)
         \/ Promised!DeliverUnheard(worker[w].job)
         \/ UNCHANGED Seen
<1> DEFINE j == worker[w].job
<1>1. worker[w].pc = "counted" /\ j \in Jobs /\ row' = row /\ Exists(j)
  BY DispatchEffect DEF IInv, RowInv
<1>2. StatusOf' = StatusOf /\ InApp' = InApp /\ StatusOf[j] # "NONE"
  BY <1>1, SameTable DEF StatusOf, Exists
<1>3. UNCHANGED <<confirmed, callbacks, aborts>> /\ (s => t)
  BY DEF Dispatch
<1>4. CASE UNCHANGED <<delivered, lost>>
  BY <1>2, <1>3, <1>4 DEF Seen
<1>5. CASE t /\ s /\ delivered' = [delivered EXCEPT ![j] = @ + 1] /\ lost' = lost
  <2>1. delivered[j] < Cardinality(Workers) * (callbacks + 1) + (aborts + lost)
    BY <1>1, RoomToDeliver
  <2> QED
    BY <1>2, <1>3, <1>5, <2>1 DEF Promised!Deliver, Promised!Accepted
<1>6. CASE t /\ ~s /\ delivered' = [delivered EXCEPT ![j] = @ + 1] /\ lost' = lost + 1
  <2>1. aborts' + lost' = (aborts + lost) + 1
    BY <1>3, <1>6, QueueAssumption DEF IInv, TypeOK
  <2> QED
    BY <1>2, <1>3, <1>6, <2>1 DEF Promised!DeliverUnheard, Promised!Accepted
<1> QED
  BY <1>4, <1>5, <1>6 DEF Dispatch

(* A status a worker writes is a conclusion with its reason.               *)
LEMMA WorkerConcludes ==
  ASSUME NEW j \in Jobs, NEW s \in {"SENT", "FAILED"}, Exists(j), Rewritten(j, s),
         s = "SENT" => delivered[j] > 0 \/ Kind(j) = "portal",
         UNCHANGED <<delivered, confirmed, callbacks, aborts, lost>>
  PROVE  Promised!Conclude(j, s)
<1>1. StatusOf' = [StatusOf EXCEPT ![j] = s] /\ InApp' = InApp
  BY OneStatus
<1>2. StatusOf[j] # "NONE"
  BY DEF StatusOf, Exists
<1>3. s = "SENT" => delivered[j] > 0 \/ j \in InApp \/ j \in confirmed
  BY DEF InApp
<1> QED
  BY <1>1, <1>2, <1>3 DEF Promised!Conclude, Promised!Accepted, Promised!Reached

(* A retry leaves the status as it finds it.                               *)
LEMMA KeptStatus ==
  ASSUME NEW j \in Jobs, Rewritten(j, row[j].status) PROVE StatusOf' = StatusOf /\ InApp' = InApp
BY SameTable DEF Rewritten, OthersKept

(* Every step of the queue is a step of the promise or is not seen.        *)
LEMMA StepRefines ==
  ASSUME IInv, Next
  PROVE  Promised!Next \/ UNCHANGED Seen
<1> USE DEF Seen
<1>0. TypeOK /\ RowInv
  BY DEF IInv
<1>1. ASSUME NEW c \in Callers, Enqueue(c) PROVE Promised!Next \/ UNCHANGED Seen
  <2>1. CASE \E k \in Keys : EnqueueMiss(c, k)
    BY <2>1, SameTable DEF EnqueueMiss, history
  <2>2. ASSUME NEW j \in Jobs, EnqueueCreate(c, j) PROVE Promised!Next
    <3>1. (KindOf[caller[c].key] = "portal") \in BOOLEAN
      OBVIOUS
    <3> QED
      BY <1>0, <2>2, <3>1, CreateAccepts DEF Promised!Next
  <2>3. CASE EnqueueConflict(c)
    BY <2>3, SameTable DEF EnqueueConflict, history
  <2> QED
    BY <1>1, <2>1, <2>2, <2>3 DEF Enqueue
<1>2. ASSUME NEW w \in Workers, Process(w) PROVE Promised!Next \/ UNCHANGED Seen
  <2> DEFINE j == worker[w].job
  <2>1. worker[w].pc # "idle" => j \in Jobs /\ Exists(j)
    BY <1>0, BusyHaveJobs DEF RowInv
  <2>2. CASE \E i \in Jobs : PickJob(w, i)
    BY <2>2, SameTable DEF PickJob, history
  <2>3. CASE CountAttempt(w)
    <3>1. \A i \in Jobs : row'[i].status = row[i].status /\ row'[i].key = row[i].key
      BY <1>0, <2>3, CountEffect DEF OthersKept
    <3> QED
      BY <2>3, <3>1, SameTable DEF CountAttempt, history
  <2>4. CASE RetryLater(w)
    BY <1>0, <2>1, <2>4, RetryEffect, KeptStatus DEF RetryLater, history
  <2>5. CASE GiveUp(w)
    <3>1. j \in Jobs /\ Exists(j) /\ Rewritten(j, "FAILED")
      BY <1>0, <2>1, <2>5, GiveUpEffect
    <3>2. Promised!Conclude(j, "FAILED")
      BY <2>5, <3>1, WorkerConcludes DEF GiveUp, history
    <3> QED
      BY <3>1, <3>2 DEF Promised!Next
  <2>6. ASSUME NEW t \in BOOLEAN, NEW s \in BOOLEAN, Dispatch(w, t, s)
        PROVE  Promised!Next \/ UNCHANGED Seen
    <3>1. j \in Jobs
      BY <1>0, <2>6, DispatchEffect
    <3> QED
      BY <2>6, <3>1, DispatchDelivers DEF Promised!Next
  <2>7. CASE Settle(w)
    <3>1. worker[w].pc = "dispatched" /\ j \in Jobs /\ Exists(j)
      BY <1>0, <2>1, <2>7, SettleEffect
    <3>2. UNCHANGED <<delivered, confirmed, callbacks, aborts, lost>>
      BY <2>7 DEF Settle, history
    <3>3. CASE worker[w].success /\ Rewritten(j, "SENT")
      <4>1. delivered[j] > 0 \/ Kind(j) = "portal"
        BY <3>1, <3>3 DEF IInv, SuccessInv, HeardInv, TypeOK
      <4>2. Promised!Conclude(j, "SENT")
        BY <3>1, <3>2, <3>3, <4>1, WorkerConcludes
      <4> QED
        BY <3>1, <4>2 DEF Promised!Next
    <3>4. CASE Rewritten(j, "FAILED")
      <4>1. Promised!Conclude(j, "FAILED")
        BY <3>1, <3>2, <3>4, WorkerConcludes
      <4> QED
        BY <3>1, <4>1 DEF Promised!Next
    <3>5. CASE Rewritten(j, row[j].status)
      BY <3>1, <3>2, <3>5, KeptStatus
    <3> QED
      BY <1>0, <2>7, <3>3, <3>4, <3>5, SettleEffect
  <2>8. CASE WriteDeadLetter(w)
    BY <2>8, SameTable DEF WriteDeadLetter, history
  <2> QED
    BY <1>2, <2>2, <2>3, <2>4, <2>5, <2>6, <2>7, <2>8 DEF Process
<1>3. ASSUME NEW i \in Jobs, BackoffElapses(i) PROVE UNCHANGED Seen
  BY <1>0, <1>3, BackoffEffect, KeptStatus DEF BackoffElapses, history
<1>4. ASSUME NEW h \in Handlers, NEW i \in Jobs, NEW kind \in CallbackKinds,
             ProviderCallback(h, i, kind)
      PROVE  Promised!Next
  <2> DEFINE s == CASE kind = "failed" -> "FAILED" [] kind = "queued" -> "QUEUED"
                    [] kind = "sent" -> "SENT"
  <2>1. s \in {"QUEUED", "SENT", "FAILED"} /\ (s = "SENT" <=> kind = "sent")
    BY DEF CallbackKinds
  <2>2. Exists(i) /\ callbacks' = callbacks + 1 /\ Rewritten(i, s)
    BY <1>0, <1>4, CallbackEffect DEF CallbackKinds
  <2>3. StatusOf' = [StatusOf EXCEPT ![i] = s] /\ InApp' = InApp
    BY <2>1, <2>2, OneStatus
  <2>4. confirmed' = IF s = "SENT" THEN confirmed \cup {i} ELSE confirmed
    BY <1>4, <2>1 DEF ProviderCallback
  <2>5. UNCHANGED <<delivered, aborts, lost>> /\ StatusOf[i] # "NONE"
    BY <1>4 DEF ProviderCallback, StatusOf, Exists
  <2>6. Promised!Report(i, s)
    BY <2>2, <2>3, <2>4, <2>5 DEF Promised!Report, Promised!Accepted
  <2> QED
    BY <2>1, <2>6 DEF Promised!Next
<1>5. ASSUME NEW h \in Handlers, CallbackDeadLetter(h) PROVE UNCHANGED Seen
  BY <1>5, SameTable DEF CallbackDeadLetter, history
<1>6. ASSUME NEW w \in Workers, AbortWorker(w) PROVE Promised!Next
  <2>1. aborts' + lost' = (aborts + lost) + 1
    BY <1>6, QueueAssumption DEF AbortWorker, IInv, TypeOK
  <2> QED
    BY <1>6, <2>1, SameTable DEF AbortWorker, Promised!Next, Promised!Cut
<1>7. ASSUME NEW h \in Handlers, AbortHandler(h) PROVE Promised!Next
  <2>1. aborts' + lost' = (aborts + lost) + 1
    BY <1>7, QueueAssumption DEF AbortHandler, IInv, TypeOK
  <2> QED
    BY <1>7, <2>1, SameTable DEF AbortHandler, Promised!Next, Promised!Cut
<1> QED
  BY <1>1, <1>2, <1>3, <1>4, <1>5, <1>6, <1>7 DEF Next, Callback

(* An empty job table promises nothing yet.                                *)
LEMMA InitRefines == Init => Promised!Init
BY NewRowEffects DEF Init, Promised!Init, StatusOf, InApp, Exists

(* The queue implements the promise: every behaviour of enqueueJob,        *)
(* processNextJob and applyProviderCallback, however they interleave and   *)
(* wherever they are cut short, is one of Delivery.                        *)
THEOREM QueueDelivers == Spec => DeliversAsPromised
<1>1. IInv /\ [Next]_vars => [Promised!Next]_(Promised!vars)
  <2>1. CASE UNCHANGED vars
    BY <2>1, SameTable DEF vars, Promised!vars
  <2> QED
    BY <2>1, StepRefines DEF Seen, Promised!vars
<1> QED
  BY <1>1, InitRefines, Inductive, PTL DEF Spec, Promised!Spec, DeliversAsPromised
=============================================================================
