----------------------- MODULE NotificationQueueProofs -----------------------
(***************************************************************************)
(* Proofs about NotificationQueue for any number of jobs, workers, callers *)
(* and handlers, any keys and any number of attempts.                      *)
(***************************************************************************)
EXTENDS NotificationQueue, FiniteSetTheorems, TLAPS

(* What each write leaves of a row, and that it stays a row.               *)
LEMMA RowWrites ==
  ASSUME NEW r \in Row
  PROVE  /\ Counted(r) \in Row /\ Postponed(r) \in Row /\ Failed(r) \in Row
         /\ Sent(r) \in Row /\ Ripened(r) \in Row
         /\ \A kind \in CallbackKinds : Reported(r, kind) \in Row
<1>1. Counted(r) \in Row
  BY DEF Row, Counted
<1>2. Postponed(r) \in Row /\ Ripened(r) \in Row
  BY DEF Row, Postponed, Ripened
<1>3. Failed(r) \in Row
  BY DEF Row, Failed
<1>4. Sent(r) \in Row
  BY DEF Row, Sent
<1>5. ASSUME NEW kind \in CallbackKinds PROVE Reported(r, kind) \in Row
  BY <1>3 DEF Row, Reported, CallbackKinds
<1> QED
  BY <1>1, <1>2, <1>3, <1>4, <1>5

LEMMA ProcessStates ==
  /\ NoRow \in Row
  /\ \A k \in Keys : NewRow(k) \in Row
  /\ IdleWorker \in WorkerState /\ IdleWorker.pc = "idle"
  /\ IdleCaller \in CallerState /\ IdleCaller.pc = "idle"
  /\ IdleHandler \in HandlerState /\ IdleHandler.pc = "idle"
  /\ \A j \in Jobs, n \in Nat : Holding(j, n) \in WorkerState
BY DEF Row, NoRow, NewRow, WorkerState, CallerState, HandlerState, IdleWorker,
       IdleCaller, IdleHandler, Holding

LEMMA WorkerMoves ==
  ASSUME NEW ws \in WorkerState
  PROVE  /\ \A pc \in {"idle", "picked", "counted", "dispatched", "failed"} :
               MovedTo(ws, pc) \in WorkerState /\ MovedTo(ws, pc).job = ws.job
         /\ \A s \in BOOLEAN : Answered(ws, s) \in WorkerState
                               /\ Answered(ws, s).job = ws.job
BY DEF WorkerState, MovedTo, Answered

(* Every behaviour of the queue keeps its tables and process states well   *)
(* formed (processNextJob, enqueueJob, applyProviderCallback).             *)
THEOREM TypeCorrect == Spec => []TypeOK
<1>1. Init => TypeOK
  BY QueueAssumption, ProcessStates DEF Init, TypeOK
<1>2. TypeOK /\ [Next]_vars => TypeOK'
  <2> SUFFICES ASSUME TypeOK, [Next]_vars PROVE TypeOK'
    OBVIOUS
  <2> USE QueueAssumption, ProcessStates, RowWrites, WorkerMoves DEF TypeOK, history
  <2>1. ASSUME NEW c \in Callers, NEW k \in Keys, EnqueueMiss(c, k) PROVE TypeOK'
    BY <2>1 DEF EnqueueMiss, CallerState
  <2>2. ASSUME NEW c \in Callers, NEW j \in Jobs, EnqueueCreate(c, j) PROVE TypeOK'
    BY <2>2 DEF EnqueueCreate
  <2>3. ASSUME NEW c \in Callers, EnqueueConflict(c) PROVE TypeOK'
    BY <2>3 DEF EnqueueConflict
  <2>4. ASSUME NEW w \in Workers, NEW j \in Jobs, PickJob(w, j) PROVE TypeOK'
    <3>1. row[j].attempts + 1 \in Nat
      BY DEF Row
    <3>2. Holding(j, row[j].attempts + 1).job \in Jobs
      BY DEF Holding
    <3> QED
      BY <2>4, <3>1, <3>2 DEF PickJob
  <2>5. ASSUME NEW w \in Workers, CountAttempt(w) PROVE TypeOK'
    BY <2>5 DEF CountAttempt, Step
  <2>6. ASSUME NEW w \in Workers, RetryLater(w) PROVE TypeOK'
    BY <2>6 DEF RetryLater, Rest
  <2>7. ASSUME NEW w \in Workers, GiveUp(w) PROVE TypeOK'
    BY <2>7 DEF GiveUp, Step
  <2>8. ASSUME NEW w \in Workers, NEW t \in BOOLEAN, NEW s \in BOOLEAN,
               Dispatch(w, t, s) PROVE TypeOK'
    <3>1. worker[w].job \in Jobs
      BY <2>8 DEF Dispatch
    <3>2. /\ calls' \in [Jobs -> Nat] /\ acked' \in [Jobs -> Nat]
          /\ delivered' \in [Jobs -> Nat] /\ lost' \in Nat
      BY <2>8, <3>1 DEF Dispatch
    <3>3. /\ worker' \in [Workers -> WorkerState]
          /\ \A v \in Workers : worker'[v].pc # "idle" => worker'[v].job \in Jobs
      <4>1. worker' = [worker EXCEPT ![w] = Answered(@, s)]
        BY <2>8 DEF Dispatch
      <4> QED
        BY <3>1, <4>1
    <3> QED
      BY <2>8, <3>2, <3>3 DEF Dispatch
  <2>9. ASSUME NEW w \in Workers, Settle(w) PROVE TypeOK'
    BY <2>9 DEF Settle, Step, Rest
  <2>10. ASSUME NEW w \in Workers, WriteDeadLetter(w) PROVE TypeOK'
    BY <2>10 DEF WriteDeadLetter, Rest
  <2>11. ASSUME NEW j \in Jobs, BackoffElapses(j) PROVE TypeOK'
    BY <2>11 DEF BackoffElapses
  <2>12. ASSUME NEW h \in Handlers, NEW j \in Jobs, NEW kind \in CallbackKinds,
                ProviderCallback(h, j, kind) PROVE TypeOK'
    <3>1. row' \in [Jobs -> Row]
      BY <2>12 DEF ProviderCallback
    <3>2. [pc |-> "failed", job |-> j] \in HandlerState
      BY DEF HandlerState
    <3>3. /\ handler' \in [Handlers -> HandlerState]
          /\ \A g \in Handlers : handler'[g].pc # "idle" => handler'[g].job \in Jobs
      BY <2>12, <3>2 DEF ProviderCallback
    <3>4. callbacks' \in 0 .. MaxCallbacks /\ confirmed' \subseteq Jobs
      BY <2>12 DEF ProviderCallback
    <3> QED
      BY <2>12, <3>1, <3>3, <3>4 DEF ProviderCallback
  <2>13. ASSUME NEW h \in Handlers, CallbackDeadLetter(h) PROVE TypeOK'
    BY <2>13 DEF CallbackDeadLetter
  <2>14. ASSUME NEW w \in Workers, AbortWorker(w) PROVE TypeOK'
    BY <2>14 DEF AbortWorker, Rest
  <2>15. ASSUME NEW h \in Handlers, AbortHandler(h) PROVE TypeOK'
    BY <2>15 DEF AbortHandler
  <2>16. CASE UNCHANGED vars
    BY <2>16 DEF vars
  <2> QED
    BY <2>1, <2>2, <2>3, <2>4, <2>5, <2>6, <2>7, <2>8, <2>9, <2>10, <2>11,
       <2>12, <2>13, <2>14, <2>15, <2>16
    DEF Next, Enqueue, Process, Callback
<1> QED
  BY <1>1, <1>2, PTL DEF Spec

(* What the writes do to the columns the invariants read.                  *)
LEMMA RowEffects ==
  ASSUME NEW r \in Row
  PROVE  /\ Counted(r).status = r.status /\ Counted(r).key = r.key
         /\ Counted(r).attempts = r.attempts + 1
         /\ Postponed(r).status = r.status /\ Postponed(r).key = r.key
         /\ Postponed(r).attempts = r.attempts
         /\ Ripened(r).status = r.status /\ Ripened(r).key = r.key
         /\ Ripened(r).attempts = r.attempts
         /\ Failed(r).status = "FAILED" /\ Failed(r).key = r.key
         /\ Failed(r).attempts = r.attempts
         /\ Sent(r).status = "SENT" /\ Sent(r).key = r.key
         /\ Sent(r).attempts = r.attempts
BY DEF Row, Counted, Postponed, Failed, Sent, Ripened

LEMMA CallbackEffects ==
  ASSUME NEW r \in Row, NEW kind \in CallbackKinds
  PROVE  /\ Reported(r, kind).key = r.key
         /\ Reported(r, kind).attempts = r.attempts
         /\ Reported(r, kind).status = CASE kind = "failed" -> "FAILED"
                                         [] kind = "queued" -> "QUEUED"
                                         [] kind = "sent" -> "SENT"
BY DEF Row, Reported, Failed, CallbackKinds

LEMMA NewRowEffects ==
  /\ NoRow.status = "NONE" /\ NoRow.key = NoKey /\ NoRow.attempts = 0
  /\ \A k \in Keys : /\ NewRow(k).status = "QUEUED" /\ NewRow(k).key = k
                      /\ NewRow(k).attempts = 0
BY DEF NoRow, NewRow

LEMMA WorkerEffects ==
  /\ \A ws \in WorkerState : \A pc \in {"counted", "failed"} :
        /\ MovedTo(ws, pc).pc = pc
        /\ MovedTo(ws, pc).job = ws.job
        /\ MovedTo(ws, pc).attempt = ws.attempt
        /\ MovedTo(ws, pc).success = ws.success
  /\ \A ws \in WorkerState : \A s \in BOOLEAN :
        /\ Answered(ws, s).pc = "dispatched"
        /\ Answered(ws, s).job = ws.job
        /\ Answered(ws, s).attempt = ws.attempt
        /\ Answered(ws, s).success = s
  /\ \A j \in Jobs, n \in Nat :
        /\ Holding(j, n).pc = "picked" /\ Holding(j, n).job = j
        /\ Holding(j, n).attempt = n
BY DEF WorkerState, MovedTo, Answered, Holding

----------------------------------------------------------------------------
(* What each action does to the columns and the process states that the    *)
(* invariants read.                                                        *)

OthersKept(j) == \A i \in Jobs : i # j => row'[i] = row[i]
Rewritten(j, status) ==
    /\ row'[j].key = row[j].key
    /\ row'[j].attempts = row[j].attempts
    /\ row'[j].status = status
    /\ OthersKept(j)

WorkersKept(w) == \A v \in Workers : v # w => worker'[v] = worker[v]
Moved(w, pc) ==
    /\ worker'[w].pc = pc
    /\ worker'[w].job = worker[w].job
    /\ worker'[w].attempt = worker[w].attempt
    /\ worker'[w].success = worker[w].success
    /\ WorkersKept(w)
Rested(w) ==
    /\ worker'[w].pc = "idle" /\ worker'[w].job = Nobody
    /\ worker'[w].success = FALSE
    /\ WorkersKept(w)

LEMMA StepMoves ==
  ASSUME TypeOK, NEW w \in Workers, NEW pc \in {"counted", "failed"}, Step(w, pc)
  PROVE  Moved(w, pc)
BY WorkerEffects DEF TypeOK, Step, Moved, WorkersKept

LEMMA RestRests ==
  ASSUME TypeOK, NEW w \in Workers, Rest(w) PROVE Rested(w)
BY DEF TypeOK, Rest, Rested, WorkersKept, IdleWorker

LEMMA CreateEffect ==
  ASSUME TypeOK, NEW c \in Callers, NEW j \in Jobs, EnqueueCreate(c, j)
  PROVE  /\ caller[c].key \in Keys /\ ~HasKey(caller[c].key) /\ ~Exists(j)
         /\ row'[j].key = caller[c].key /\ row'[j].status = "QUEUED"
         /\ row'[j].attempts = 0
         /\ OthersKept(j)
BY NewRowEffects DEF TypeOK, EnqueueCreate, OthersKept

LEMMA PickEffect ==
  ASSUME TypeOK, NEW w \in Workers, NEW j \in Jobs, PickJob(w, j)
  PROVE  /\ row[j].status = "QUEUED" /\ worker[w].pc = "idle"
         /\ row[j].attempts \in Nat
         /\ worker'[w].pc = "picked" /\ worker'[w].job = j
         /\ worker'[w].attempt = row[j].attempts + 1
         /\ WorkersKept(w)
<1>1. row[j].attempts \in Nat
  BY DEF TypeOK, Row
<1>2. worker'[w] = Holding(j, row[j].attempts + 1)
  BY DEF TypeOK, PickJob
<1> QED
  BY <1>1, <1>2, WorkerEffects DEF TypeOK, PickJob, Ready, WorkersKept

LEMMA CountEffect ==
  ASSUME TypeOK, NEW w \in Workers, CountAttempt(w)
  PROVE  /\ worker[w].pc = "picked" /\ worker[w].job \in Jobs
         /\ row'[worker[w].job].key = row[worker[w].job].key
         /\ row'[worker[w].job].status = row[worker[w].job].status
         /\ row'[worker[w].job].attempts = row[worker[w].job].attempts + 1
         /\ OthersKept(worker[w].job)
         /\ Moved(w, "counted")
<1>1. worker[w].pc = "picked" /\ worker[w].job \in Jobs
  BY DEF TypeOK, CountAttempt
<1>2. /\ row'[worker[w].job] = Counted(row[worker[w].job])
      /\ row[worker[w].job] \in Row
      /\ OthersKept(worker[w].job)
  BY <1>1 DEF TypeOK, CountAttempt, OthersKept
<1> QED
  BY <1>1, <1>2, RowEffects, StepMoves DEF CountAttempt

LEMMA RetryEffect ==
  ASSUME TypeOK, NEW w \in Workers, RetryLater(w)
  PROVE  /\ worker[w].pc = "counted" /\ worker[w].job \in Jobs
         /\ Rewritten(worker[w].job, row[worker[w].job].status)
         /\ Rested(w)
<1>1. worker[w].pc = "counted" /\ worker[w].job \in Jobs
  BY DEF TypeOK, RetryLater
<1>2. /\ row'[worker[w].job] = Postponed(row[worker[w].job])
      /\ row[worker[w].job] \in Row
      /\ OthersKept(worker[w].job)
  BY <1>1 DEF TypeOK, RetryLater, OthersKept
<1> QED
  BY <1>1, <1>2, RowEffects, RestRests DEF RetryLater, Rewritten

LEMMA GiveUpEffect ==
  ASSUME TypeOK, NEW w \in Workers, GiveUp(w)
  PROVE  /\ worker[w].pc = "counted" /\ worker[w].job \in Jobs
         /\ Rewritten(worker[w].job, "FAILED")
         /\ Moved(w, "failed")
<1>1. worker[w].pc = "counted" /\ worker[w].job \in Jobs
  BY DEF TypeOK, GiveUp
<1>2. /\ row'[worker[w].job] = Failed(row[worker[w].job])
      /\ row[worker[w].job] \in Row
      /\ OthersKept(worker[w].job)
  BY <1>1 DEF TypeOK, GiveUp, OthersKept
<1> QED
  BY <1>1, <1>2, RowEffects, StepMoves DEF GiveUp, Rewritten

(* A worker calls the provider only with an attempt to spare.              *)
LEMMA DispatchEffect ==
  ASSUME TypeOK, NEW w \in Workers, NEW t \in BOOLEAN, NEW s \in BOOLEAN,
               Dispatch(w, t, s)
  PROVE  /\ worker[w].pc = "counted" /\ worker[w].job \in Jobs
         /\ ~LastAttempt(w)
         /\ worker'[w].pc = "dispatched" /\ worker'[w].job = worker[w].job
         /\ worker'[w].attempt = worker[w].attempt
         /\ worker'[w].success = s
         /\ WorkersKept(w) /\ row' = row
         /\ \A i \in Jobs : i # worker[w].job =>
               calls'[i] = calls[i] /\ acked'[i] = acked[i]
         /\ calls'[worker[w].job] \in {calls[worker[w].job], calls[worker[w].job] + 1}
         /\ \/ acked'[worker[w].job] = acked[worker[w].job] + 1 /\ s
            \/ /\ acked'[worker[w].job] = acked[worker[w].job]
               /\ s => Kind(worker[w].job) = "portal"
<1>1. worker[w].pc = "counted" /\ worker[w].job \in Jobs /\ ~LastAttempt(w)
  BY DEF TypeOK, Dispatch, GivesUp
<1>2. worker'[w] = Answered(worker[w], s) /\ WorkersKept(w) /\ row' = row
  BY DEF TypeOK, Dispatch, WorkersKept
<1>3. worker[w] \in WorkerState
  BY DEF TypeOK
<1>4. /\ \A i \in Jobs : i # worker[w].job =>
            calls'[i] = calls[i] /\ acked'[i] = acked[i]
      /\ calls'[worker[w].job] \in {calls[worker[w].job], calls[worker[w].job] + 1}
      /\ \/ acked'[worker[w].job] = acked[worker[w].job] + 1 /\ s
         \/ /\ acked'[worker[w].job] = acked[worker[w].job]
            /\ s => Kind(worker[w].job) = "portal"
  BY <1>1 DEF TypeOK, Dispatch
<1> QED
  BY <1>1, <1>2, <1>3, <1>4, WorkerEffects

LEMMA SettleEffect ==
  ASSUME TypeOK, NEW w \in Workers, Settle(w)
  PROVE  /\ worker[w].pc = "dispatched" /\ worker[w].job \in Jobs
         /\ \/ worker[w].success /\ Rewritten(worker[w].job, "SENT") /\ Rested(w)
            \/ /\ ~worker[w].success
               /\ Rewritten(worker[w].job, "FAILED") /\ Moved(w, "failed")
            \/ /\ ~worker[w].success
               /\ Rewritten(worker[w].job, row[worker[w].job].status) /\ Rested(w)
<1>1. worker[w].pc = "dispatched" /\ worker[w].job \in Jobs
  BY DEF TypeOK, Settle
<1>2. row[worker[w].job] \in Row /\ OthersKept(worker[w].job)
  BY <1>1 DEF TypeOK, Settle, OthersKept
<1>3. CASE worker[w].success
  <2>1. row'[worker[w].job] = Sent(row[worker[w].job]) /\ Rest(w)
    BY <1>1, <1>3 DEF TypeOK, Settle
  <2> QED
    BY <1>1, <1>2, <1>3, <2>1, RowEffects, RestRests DEF Rewritten
<1>4. CASE ~worker[w].success /\ LastAttempt(w)
  <2>1. row'[worker[w].job] = Failed(row[worker[w].job]) /\ Step(w, "failed")
    BY <1>1, <1>4 DEF TypeOK, Settle
  <2> QED
    BY <1>1, <1>2, <1>4, <2>1, RowEffects, StepMoves DEF Rewritten
<1>5. CASE ~worker[w].success /\ ~LastAttempt(w)
  <2>1. row'[worker[w].job] = Postponed(row[worker[w].job]) /\ Rest(w)
    BY <1>1, <1>5 DEF TypeOK, Settle
  <2> QED
    BY <1>1, <1>2, <1>5, <2>1, RowEffects, RestRests DEF Rewritten
<1> QED
  BY <1>3, <1>4, <1>5

LEMMA BackoffEffect ==
  ASSUME TypeOK, NEW j \in Jobs, BackoffElapses(j)
  PROVE  Exists(j) /\ Rewritten(j, row[j].status)
<1>1. row[j] \in Row /\ row'[j] = Ripened(row[j]) /\ OthersKept(j)
  BY DEF TypeOK, BackoffElapses, OthersKept
<1> QED
  BY <1>1, RowEffects DEF BackoffElapses, Rewritten

LEMMA CallbackEffect ==
  ASSUME TypeOK, NEW h \in Handlers, NEW j \in Jobs, NEW kind \in CallbackKinds,
         ProviderCallback(h, j, kind)
  PROVE  /\ Exists(j) /\ callbacks' = callbacks + 1
         /\ \/ kind = "failed" /\ Rewritten(j, "FAILED")
            \/ kind = "queued" /\ Rewritten(j, "QUEUED")
            \/ kind = "sent" /\ Rewritten(j, "SENT") /\ j \in confirmed'
<1>1. row[j] \in Row /\ row'[j] = Reported(row[j], kind) /\ OthersKept(j)
  BY DEF TypeOK, ProviderCallback, OthersKept
<1> QED
  BY <1>1, CallbackEffects DEF ProviderCallback, Rewritten, CallbackKinds

LEMMA BusyHaveJobs ==
  ASSUME TypeOK
  PROVE  /\ \A w \in Workers : worker[w].pc # "idle" => worker[w].job \in Jobs
         /\ \A h \in Handlers : handler[h].pc # "idle" => handler[h].job \in Jobs
BY DEF TypeOK

(* A handler changes hands only with its own callback.                     *)
LEMMA HandlerEffect ==
  ASSUME TypeOK, NEW h \in Handlers,
         \/ \E j \in Jobs, kind \in CallbackKinds : ProviderCallback(h, j, kind)
         \/ CallbackDeadLetter(h) \/ AbortHandler(h)
  PROVE  /\ \A g \in Handlers : g # h => handler'[g] = handler[g]
         /\ \/ handler'[h].pc = "idle"
            \/ \E j \in Jobs, kind \in CallbackKinds :
                  /\ ProviderCallback(h, j, kind)
                  /\ kind = "failed" /\ handler'[h].pc = "failed"
                  /\ handler'[h].job = j
<1>1. CASE CallbackDeadLetter(h) \/ AbortHandler(h)
  BY <1>1 DEF TypeOK, CallbackDeadLetter, AbortHandler, IdleHandler
<1>2. ASSUME NEW j \in Jobs, NEW kind \in CallbackKinds, ProviderCallback(h, j, kind)
      PROVE  /\ \A g \in Handlers : g # h => handler'[g] = handler[g]
             /\ handler'[h].pc = "idle" \/ (/\ kind = "failed"
                                           /\ handler'[h].pc = "failed"
                                           /\ handler'[h].job = j)
  BY <1>2 DEF TypeOK, ProviderCallback
<1> QED
  BY <1>1, <1>2

(* The shape of a step that keeps RowInv.                                  *)
RowsKept == \A i \in Jobs :
    \/ /\ row'[i] = row[i]
       /\ Exists(i) \/ (calls'[i] = calls[i] /\ acked'[i] = acked[i])
    \/ row'[i].status # "NONE" /\ row'[i].key \in Keys
WorkersHold == \A w \in Workers :
    \/ worker'[w].pc = "idle"
    \/ worker[w].pc # "idle" /\ worker'[w].job = worker[w].job
    \/ worker'[w].job \in Jobs /\ row[worker'[w].job].status # "NONE"
HandlersHold == \A h \in Handlers :
    \/ handler'[h].pc = "idle"
    \/ handler[h].pc # "idle" /\ handler'[h].job = handler[h].job
    \/ handler'[h].job \in Jobs /\ row[handler'[h].job].status # "NONE"

LEMMA RowInvKept ==
  ASSUME TypeOK, RowInv, RowsKept, WorkersHold, HandlersHold
  PROVE  RowInv'
<1>1. \A i \in Jobs : IF row'[i].status # "NONE" THEN row'[i].key \in Keys
        ELSE row'[i] = NoRow /\ calls'[i] = 0 /\ acked'[i] = 0
  BY DEF RowInv, Exists, RowsKept
<1>2. \A i \in Jobs : row[i].status # "NONE" => row'[i].status # "NONE"
  BY DEF RowsKept
<1>3. \A w \in Workers : worker'[w].pc # "idle" => row'[worker'[w].job].status # "NONE"
  BY <1>2, BusyHaveJobs DEF RowInv, Exists, WorkersHold
<1>4. \A h \in Handlers : handler'[h].pc # "idle" => row'[handler'[h].job].status # "NONE"
  BY <1>2, BusyHaveJobs DEF RowInv, Exists, HandlersHold
<1> QED
  BY <1>1, <1>3, <1>4 DEF RowInv, Exists

LEMMA RowInvUse ==
  ASSUME TypeOK, RowInv
  PROVE  /\ \A w \in Workers : worker[w].pc # "idle" =>
               /\ worker[w].job \in Jobs /\ row[worker[w].job].status # "NONE"
               /\ row[worker[w].job].key \in Keys
         /\ \A j \in Jobs : row[j].status # "NONE" => row[j].key \in Keys
BY BusyHaveJobs DEF RowInv, Exists

(* Each of the three, where a step leaves its part alone, rewrites one row *)
(* that exists, or moves one worker that has its job.                      *)
LEMMA RowsStay ==
  ASSUME row' = row, calls' = calls, acked' = acked PROVE RowsKept
BY DEF RowsKept

LEMMA RowsWritten ==
  ASSUME TypeOK, RowInv, NEW j \in Jobs, Exists(j), NEW st, st # "NONE",
         Rewritten(j, st), calls' = calls, acked' = acked
  PROVE  RowsKept
<1>1. row'[j].status # "NONE" /\ row'[j].key \in Keys
  BY RowInvUse DEF Rewritten, Exists
<1>2. \A i \in Jobs : i # j => row'[i] = row[i]
  BY DEF Rewritten, OthersKept
<1> QED
  BY <1>1, <1>2 DEF RowsKept

LEMMA WorkersStay == ASSUME worker' = worker PROVE WorkersHold
BY DEF WorkersHold

LEMMA WorkersMove ==
  ASSUME NEW w \in Workers, WorkersKept(w),
         \/ worker'[w].pc = "idle"
         \/ worker[w].pc # "idle" /\ worker'[w].job = worker[w].job
  PROVE  WorkersHold
BY DEF WorkersHold, WorkersKept

LEMMA HandlersStay == ASSUME handler' = handler PROVE HandlersHold
BY DEF HandlersHold

(* A row that does not exist has no history, and nobody works on it.       *)
LEMMA RowInvStep == TypeOK /\ RowInv /\ [Next]_vars => RowInv'
<1> SUFFICES ASSUME TypeOK, RowInv, [Next]_vars PROVE RowInv'
  OBVIOUS
<1> QED
  <2>1. ASSUME NEW c \in Callers, NEW k \in Keys, EnqueueMiss(c, k) PROVE RowInv'
    <3>1. UNCHANGED <<row, calls, acked, worker, handler>>
      BY <2>1 DEF EnqueueMiss, history
    <3> QED
      BY <3>1, RowsStay, WorkersStay, HandlersStay, RowInvKept
  <2>2. ASSUME NEW c \in Callers, NEW j \in Jobs, EnqueueCreate(c, j) PROVE RowInv'
    <3>1. /\ row'[j].key \in Keys /\ row'[j].status = "QUEUED"
          /\ OthersKept(j)
      BY <2>2, CreateEffect
    <3>2. UNCHANGED <<calls, acked, worker, handler>>
      BY <2>2 DEF EnqueueCreate, history
    <3>3. RowsKept
      BY <3>1, <3>2 DEF RowsKept, OthersKept
    <3> QED
      BY <3>2, <3>3, WorkersStay, HandlersStay, RowInvKept
  <2>3. ASSUME NEW c \in Callers, EnqueueConflict(c) PROVE RowInv'
    <3>1. UNCHANGED <<row, calls, acked, worker, handler>>
      BY <2>3 DEF EnqueueConflict, history
    <3> QED
      BY <3>1, RowsStay, WorkersStay, HandlersStay, RowInvKept
  <2>4. ASSUME NEW w \in Workers, NEW j \in Jobs, PickJob(w, j) PROVE RowInv'
    <3>1. /\ row[j].status = "QUEUED" /\ worker'[w].job = j
          /\ WorkersKept(w)
      BY <2>4, PickEffect
    <3>2. UNCHANGED <<row, calls, acked, handler>>
      BY <2>4 DEF PickJob, history
    <3>3. WorkersHold
      BY <3>1 DEF WorkersHold, WorkersKept
    <3> QED
      BY <3>2, <3>3, RowsStay, HandlersStay, RowInvKept
  <2>5. ASSUME NEW w \in Workers, CountAttempt(w) PROVE RowInv'
    <3>1. /\ worker[w].pc # "idle" /\ worker[w].job \in Jobs
          /\ row'[worker[w].job].key = row[worker[w].job].key
          /\ row'[worker[w].job].status = row[worker[w].job].status
          /\ OthersKept(worker[w].job) /\ Moved(w, "counted")
      BY <2>5, CountEffect
    <3>2. UNCHANGED <<calls, acked, handler>>
      BY <2>5 DEF CountAttempt, history
    <3>3. RowsKept
      BY <3>1, <3>2, RowInvUse DEF RowsKept, OthersKept
    <3>4. WorkersHold
      BY <3>1, WorkersMove DEF Moved
    <3> QED
      BY <3>2, <3>3, <3>4, HandlersStay, RowInvKept
  <2>6. ASSUME NEW w \in Workers, RetryLater(w) PROVE RowInv'
    <3>1. /\ worker[w].pc # "idle" /\ worker[w].job \in Jobs
          /\ Rewritten(worker[w].job, row[worker[w].job].status)
          /\ Rested(w)
      BY <2>6, RetryEffect
    <3>2. UNCHANGED <<calls, acked, handler>>
      BY <2>6 DEF RetryLater, history
    <3>3. RowsKept
      BY <3>1, <3>2, RowInvUse, RowsWritten DEF Exists
    <3>4. WorkersHold
      BY <3>1, WorkersMove DEF Moved, Rested
    <3> QED
      BY <3>2, <3>3, <3>4, HandlersStay, RowInvKept
  <2>7. ASSUME NEW w \in Workers, GiveUp(w) PROVE RowInv'
    <3>1. /\ worker[w].pc # "idle" /\ worker[w].job \in Jobs
          /\ Rewritten(worker[w].job, "FAILED")
          /\ Moved(w, "failed")
      BY <2>7, GiveUpEffect
    <3>2. UNCHANGED <<calls, acked, handler>>
      BY <2>7 DEF GiveUp, history
    <3>3. RowsKept
      BY <3>1, <3>2, RowInvUse, RowsWritten DEF Exists
    <3>4. WorkersHold
      BY <3>1, WorkersMove DEF Moved, Rested
    <3> QED
      BY <3>2, <3>3, <3>4, HandlersStay, RowInvKept
  <2>8. ASSUME NEW w \in Workers, NEW t \in BOOLEAN, NEW s \in BOOLEAN,
               Dispatch(w, t, s) PROVE RowInv'
    <3>1. /\ worker[w].pc # "idle" /\ worker'[w].job = worker[w].job
          /\ WorkersKept(w) /\ row' = row
          /\ \A i \in Jobs : i # worker[w].job =>
                calls'[i] = calls[i] /\ acked'[i] = acked[i]
      BY <2>8, DispatchEffect
    <3>2. handler' = handler
      BY <2>8 DEF Dispatch
    <3>3. row[worker[w].job].status # "NONE"
      BY <3>1, RowInvUse
    <3>4. RowsKept
      BY <3>1, <3>3 DEF RowsKept, Exists
    <3>5. WorkersHold
      BY <3>1, WorkersMove
    <3> QED
      BY <3>2, <3>4, <3>5, HandlersStay, RowInvKept
  <2>9. ASSUME NEW w \in Workers, Settle(w) PROVE RowInv'
    <3>1. /\ worker[w].pc # "idle" /\ worker[w].job \in Jobs
          /\ \E st \in {"SENT", "FAILED", row[worker[w].job].status} :
                Rewritten(worker[w].job, st)
          /\ Moved(w, "failed") \/ Rested(w)
      BY <2>9, SettleEffect
    <3>2. UNCHANGED <<calls, acked, handler>>
      BY <2>9 DEF Settle, history
    <3>3. RowsKept
      BY <3>1, <3>2, RowInvUse, RowsWritten DEF Exists
    <3>4. WorkersHold
      BY <3>1, WorkersMove DEF Moved, Rested
    <3> QED
      BY <3>2, <3>3, <3>4, HandlersStay, RowInvKept
  <2>10. ASSUME NEW w \in Workers, WriteDeadLetter(w) PROVE RowInv'
    <3>1. Rested(w)
      BY <2>10, RestRests DEF WriteDeadLetter
    <3>2. UNCHANGED <<row, calls, acked, handler>>
      BY <2>10 DEF WriteDeadLetter, history
    <3>3. WorkersHold
      BY <3>1, WorkersMove DEF Rested
    <3> QED
      BY <3>2, <3>3, RowsStay, HandlersStay, RowInvKept
  <2>11. ASSUME NEW j \in Jobs, BackoffElapses(j) PROVE RowInv'
    <3>1. Exists(j) /\ Rewritten(j, row[j].status)
      BY <2>11, BackoffEffect
    <3>2. UNCHANGED <<calls, acked, worker, handler>>
      BY <2>11 DEF BackoffElapses, history
    <3>3. RowsKept
      BY <3>1, <3>2, RowsWritten DEF Exists
    <3> QED
      BY <3>2, <3>3, WorkersStay, HandlersStay, RowInvKept
  <2>12. ASSUME NEW h \in Handlers, NEW j \in Jobs, NEW kind \in CallbackKinds,
                ProviderCallback(h, j, kind) PROVE RowInv'
    <3>1. RowsKept
      <4>1. /\ Exists(j) /\ calls' = calls /\ acked' = acked
            /\ \E st \in {"FAILED", "QUEUED", "SENT"} : Rewritten(j, st)
        BY <2>12, CallbackEffect DEF ProviderCallback
      <4> QED
        BY <4>1, RowInvUse DEF RowsKept, OthersKept, Rewritten, Exists
    <3>2. WorkersHold
      BY <2>12, WorkersStay DEF ProviderCallback
    <3>3. HandlersHold
      BY <2>12, CallbackEffect, HandlerEffect DEF HandlersHold, ProviderCallback, Exists
    <3> QED
      BY <3>1, <3>2, <3>3, RowInvKept
  <2>13. ASSUME NEW h \in Handlers, CallbackDeadLetter(h) PROVE RowInv'
    <3>1. RowsKept
      BY <2>13, RowsStay DEF CallbackDeadLetter, history
    <3>2. WorkersHold
      BY <2>13, WorkersStay DEF CallbackDeadLetter
    <3>3. HandlersHold
      BY <2>13 DEF TypeOK, HandlersHold, CallbackDeadLetter, IdleHandler
    <3> QED
      BY <3>1, <3>2, <3>3, RowInvKept
  <2>14. ASSUME NEW w \in Workers, AbortWorker(w) PROVE RowInv'
    <3>1. Rested(w)
      BY <2>14, RestRests DEF AbortWorker
    <3>2. UNCHANGED <<row, calls, acked, handler>>
      BY <2>14 DEF AbortWorker, history
    <3>3. WorkersHold
      BY <3>1, WorkersMove DEF Rested
    <3> QED
      BY <3>2, <3>3, RowsStay, HandlersStay, RowInvKept
  <2>15. ASSUME NEW h \in Handlers, AbortHandler(h) PROVE RowInv'
    <3>1. RowsKept
      BY <2>15, RowsStay DEF AbortHandler, history
    <3>2. WorkersHold
      BY <2>15, WorkersStay DEF AbortHandler
    <3>3. HandlersHold
      BY <2>15 DEF TypeOK, HandlersHold, AbortHandler, IdleHandler
    <3> QED
      BY <3>1, <3>2, <3>3, RowInvKept
  <2>16. CASE UNCHANGED vars
    BY <2>16 DEF vars, RowInv, Exists
  <2> QED
    BY <2>1, <2>2, <2>3, <2>4, <2>5, <2>6, <2>7, <2>8, <2>9, <2>10, <2>11,
       <2>12, <2>13, <2>14, <2>15, <2>16
    DEF Next, Enqueue, Process, Callback

----------------------------------------------------------------------------
(* Counting workers: a step of one worker changes the size of a set of     *)
(* workers by that worker's own membership.                                *)
LEMMA CountOne ==
  ASSUME NEW U, IsFiniteSet(U), NEW S \in SUBSET U, NEW T \in SUBSET U,
         NEW x \in U, \A y \in U : y # x => (y \in S <=> y \in T)
  PROVE  /\ Cardinality(S) \in Nat /\ Cardinality(T) \in Nat
         /\ Cardinality(T) <= Cardinality(U)
         /\ Cardinality(T) + (IF x \in S THEN 1 ELSE 0)
              = Cardinality(S) + (IF x \in T THEN 1 ELSE 0)
<1>1. IsFiniteSet(S) /\ IsFiniteSet(T) /\ Cardinality(T) <= Cardinality(U)
  BY FS_Subset
<1>2. Cardinality(S) \in Nat /\ Cardinality(T) \in Nat
  BY <1>1, FS_CardinalityType
<1>3. CASE x \in S /\ x \notin T
  <2>1. T = S \ {x}
    BY <1>3
  <2> QED
    BY <1>1, <1>2, <1>3, <2>1, FS_RemoveElement
<1>4. CASE x \notin S /\ x \in T
  <2>1. T = S \cup {x}
    BY <1>4
  <2> QED
    BY <1>1, <1>2, <1>4, <2>1, FS_AddElement
<1>5. CASE x \in S <=> x \in T
  <2>1. T = S
    BY <1>5
  <2> QED
    BY <1>1, <1>2, <1>5, <2>1
<1> QED
  BY <1>3, <1>4, <1>5

(* No worker is both undecided about j and recording its success.          *)
LEMMA DisjointWorkers ==
  ASSUME NEW A \in SUBSET Workers, NEW B \in SUBSET Workers, A \cap B = {}
  PROVE  Cardinality(A) + Cardinality(B) <= Cardinality(Workers)
<1>1. /\ IsFiniteSet(A) /\ IsFiniteSet(B) /\ IsFiniteSet(A \cup B)
      /\ Cardinality(A \cup B) <= Cardinality(Workers)
  <2>1. A \cup B \in SUBSET Workers
    OBVIOUS
  <2> QED
    BY <2>1, QueueAssumption, FS_Subset
<1>2. Cardinality(A \cup B) = Cardinality(A) + Cardinality(B) - Cardinality(A \cap B)
  BY <1>1, FS_Union
<1>3. Cardinality(A \cap B) = 0
  BY FS_EmptySet
<1>4. Cardinality(A) \in Nat /\ Cardinality(B) \in Nat /\ Cardinality(Workers) \in Nat
  BY <1>1, QueueAssumption, FS_CardinalityType
<1> QED
  BY <1>1, <1>2, <1>3, <1>4

LEMMA SomeWorkers == Cardinality(Workers) \in Nat /\ Cardinality(Workers) >= 1
BY QueueAssumption, FS_CardinalityType, FS_EmptySet

(* Whether a worker in state ws counts in each of the sets of job j.       *)
InOffering(ws, j) ==
    IF ws.job = j /\ ws.pc = "counted" /\ ~(ws.attempt >= MaxAttempts) THEN 1 ELSE 0
InMayOffer(ws, j) ==
    IF /\ ws.job = j /\ ws.pc \in {"picked", "counted"}
       /\ ~(ws.attempt >= MaxAttempts) THEN 1 ELSE 0
InUndecided(ws, j) ==
    IF ws.job = j /\ ws.pc \in {"picked", "counted"} THEN 1 ELSE 0
InRecording(ws, j) ==
    IF ws.job = j /\ ws.pc = "dispatched" /\ ws.success THEN 1 ELSE 0

LEMMA OfferCounts ==
  ASSUME TypeOK, NEW w \in Workers, WorkersKept(w), NEW j
  PROVE  /\ Cardinality(Offering(j)) \in Nat /\ Cardinality(Offering(j)') \in Nat
         /\ Cardinality(MayOffer(j)) \in Nat /\ Cardinality(MayOffer(j)') \in Nat
         /\ Cardinality(Offering(j)') + InOffering(worker[w], j)
              = Cardinality(Offering(j)) + InOffering(worker'[w], j)
         /\ Cardinality(MayOffer(j)') + InMayOffer(worker[w], j)
              = Cardinality(MayOffer(j)) + InMayOffer(worker'[w], j)
         /\ Cardinality(MayOffer(j)') <= Cardinality(Workers)
<1> USE QueueAssumption
<1>1. /\ Offering(j) \in SUBSET Workers /\ Offering(j)' \in SUBSET Workers
      /\ MayOffer(j) \in SUBSET Workers /\ MayOffer(j)' \in SUBSET Workers
  BY DEF Offering, MayOffer
<1>2. \A v \in Workers : v # w => (v \in Offering(j) <=> v \in Offering(j)')
  BY DEF Offering, WorkersKept, LastAttempt
<1>3. \A v \in Workers : v # w => (v \in MayOffer(j) <=> v \in MayOffer(j)')
  BY DEF MayOffer, WorkersKept, LastAttempt
<1>4. /\ (IF w \in Offering(j) THEN 1 ELSE 0) = InOffering(worker[w], j)
      /\ (IF w \in Offering(j)' THEN 1 ELSE 0) = InOffering(worker'[w], j)
  BY DEF Offering, InOffering, LastAttempt
<1>5. /\ (IF w \in MayOffer(j) THEN 1 ELSE 0) = InMayOffer(worker[w], j)
      /\ (IF w \in MayOffer(j)' THEN 1 ELSE 0) = InMayOffer(worker'[w], j)
  BY DEF MayOffer, InMayOffer, LastAttempt
<1>6. /\ Cardinality(Offering(j)) \in Nat /\ Cardinality(Offering(j)') \in Nat
      /\ Cardinality(Offering(j)') + (IF w \in Offering(j) THEN 1 ELSE 0)
           = Cardinality(Offering(j)) + (IF w \in Offering(j)' THEN 1 ELSE 0)
  BY <1>1, <1>2, CountOne
<1>7. /\ Cardinality(MayOffer(j)) \in Nat /\ Cardinality(MayOffer(j)') \in Nat
      /\ Cardinality(MayOffer(j)') + (IF w \in MayOffer(j) THEN 1 ELSE 0)
           = Cardinality(MayOffer(j)) + (IF w \in MayOffer(j)' THEN 1 ELSE 0)
      /\ Cardinality(MayOffer(j)') <= Cardinality(Workers)
  BY <1>1, <1>3, CountOne
<1> QED
  BY <1>4, <1>5, <1>6, <1>7

LEMMA DeliveryCounts ==
  ASSUME TypeOK, NEW w \in Workers, WorkersKept(w), NEW j
  PROVE  /\ Cardinality(Undecided(j)) \in Nat /\ Cardinality(Undecided(j)') \in Nat
         /\ Cardinality(Recording(j)) \in Nat /\ Cardinality(Recording(j)') \in Nat
         /\ Cardinality(Undecided(j)') + InUndecided(worker[w], j)
              = Cardinality(Undecided(j)) + InUndecided(worker'[w], j)
         /\ Cardinality(Recording(j)') + InRecording(worker[w], j)
              = Cardinality(Recording(j)) + InRecording(worker'[w], j)
         /\ Cardinality(Undecided(j)') + Cardinality(Recording(j)') <= Cardinality(Workers)
<1> USE QueueAssumption
<1>1. /\ Undecided(j) \in SUBSET Workers /\ Undecided(j)' \in SUBSET Workers
      /\ Recording(j) \in SUBSET Workers /\ Recording(j)' \in SUBSET Workers
  BY DEF Undecided, Recording
<1>2. \A v \in Workers : v # w => (v \in Undecided(j) <=> v \in Undecided(j)')
  BY DEF Undecided, WorkersKept
<1>3. \A v \in Workers : v # w => (v \in Recording(j) <=> v \in Recording(j)')
  BY DEF Recording, WorkersKept
<1>4. /\ (IF w \in Undecided(j) THEN 1 ELSE 0) = InUndecided(worker[w], j)
      /\ (IF w \in Undecided(j)' THEN 1 ELSE 0) = InUndecided(worker'[w], j)
  BY DEF Undecided, InUndecided
<1>5. /\ (IF w \in Recording(j) THEN 1 ELSE 0) = InRecording(worker[w], j)
      /\ (IF w \in Recording(j)' THEN 1 ELSE 0) = InRecording(worker'[w], j)
  BY DEF Recording, InRecording
<1>6. /\ Cardinality(Undecided(j)) \in Nat /\ Cardinality(Undecided(j)') \in Nat
      /\ Cardinality(Undecided(j)') + (IF w \in Undecided(j) THEN 1 ELSE 0)
           = Cardinality(Undecided(j)) + (IF w \in Undecided(j)' THEN 1 ELSE 0)
  BY <1>1, <1>2, CountOne
<1>7. /\ Cardinality(Recording(j)) \in Nat /\ Cardinality(Recording(j)') \in Nat
      /\ Cardinality(Recording(j)') + (IF w \in Recording(j) THEN 1 ELSE 0)
           = Cardinality(Recording(j)) + (IF w \in Recording(j)' THEN 1 ELSE 0)
  BY <1>1, <1>3, CountOne
<1>8. Undecided(j)' \cap Recording(j)' = {}
  BY DEF Undecided, Recording
<1>9. Cardinality(Undecided(j)') + Cardinality(Recording(j)') <= Cardinality(Workers)
  BY <1>1, <1>8, DisjointWorkers
<1> QED
  BY <1>4, <1>5, <1>6, <1>7, <1>9

(* A step that does not touch the workers keeps every set of workers.      *)
LEMMA SameWorkers ==
  ASSUME worker' = worker, NEW j
  PROVE  /\ Offering(j)' = Offering(j) /\ MayOffer(j)' = MayOffer(j)
         /\ Undecided(j)' = Undecided(j) /\ Recording(j)' = Recording(j)
BY DEF Offering, MayOffer, Undecided, Recording, LastAttempt

(* The arithmetic of a step by worker w, job by job.                       *)
LEMMA CallInvByWorker ==
  ASSUME TypeOK, CallInv, NEW w \in Workers, WorkersKept(w),
         \A j \in Jobs :
           LET more == InOffering(worker'[w], j) - InOffering(worker[w], j)
               may == InMayOffer(worker'[w], j) - InMayOffer(worker[w], j)
           IN  /\ row'[j].attempts \in Nat /\ calls'[j] \in Nat
               /\ calls'[j] + more + row[j].attempts <= calls[j] + row'[j].attempts
               /\ \/ calls'[j] + may <= calls[j]
                  \/ /\ calls'[j] = calls[j] /\ more = 0
                     /\ row'[j].attempts = row[j].attempts
                     /\ row[j].attempts + 2 <= MaxAttempts
  PROVE  CallInv'
<1> SUFFICES ASSUME NEW j \in Jobs
    PROVE  /\ calls'[j] + Cardinality(Offering(j)') <= row'[j].attempts
           /\ calls'[j] + Cardinality(MayOffer(j)') + 2
                 <= MaxAttempts + Cardinality(Workers)
  BY DEF CallInv
<1>1. /\ row[j].attempts \in Nat /\ calls[j] \in Nat /\ MaxAttempts \in Nat
  BY QueueAssumption DEF TypeOK, Row
<1>2. /\ InOffering(worker'[w], j) \in 0 .. 1 /\ InOffering(worker[w], j) \in 0 .. 1
      /\ InMayOffer(worker'[w], j) \in 0 .. 1 /\ InMayOffer(worker[w], j) \in 0 .. 1
  BY DEF InOffering, InMayOffer
<1>3. /\ calls[j] + Cardinality(Offering(j)) <= row[j].attempts
      /\ calls[j] + Cardinality(MayOffer(j)) + 2 <= MaxAttempts + Cardinality(Workers)
  BY DEF CallInv
<1>4. calls'[j] + Cardinality(Offering(j)') <= row'[j].attempts
  BY <1>1, <1>2, <1>3, OfferCounts
<1>5. Cardinality(Workers) \in Nat
  BY SomeWorkers
<1>6. CASE calls'[j] + InMayOffer(worker'[w], j) - InMayOffer(worker[w], j) <= calls[j]
  BY <1>1, <1>2, <1>3, <1>4, <1>5, <1>6, OfferCounts
<1>7. CASE /\ calls'[j] = calls[j]
           /\ row'[j].attempts = row[j].attempts
           /\ row[j].attempts + 2 <= MaxAttempts
  <2>1. Cardinality(MayOffer(j)') <= Cardinality(Workers)
    BY OfferCounts
  <2> QED
    BY <1>1, <1>4, <1>5, <1>7, <2>1, OfferCounts
<1> QED
  BY <1>4, <1>6, <1>7

(* A step that leaves the workers, the calls and the attempts alone; a row *)
(* that comes into being has none of them.                                 *)
LEMMA CallInvElsewhere ==
  ASSUME TypeOK, CallInv, worker' = worker, calls' = calls,
         \A j \in Jobs : row'[j].attempts = row[j].attempts
  PROVE  CallInv'
<1> SUFFICES ASSUME NEW j \in Jobs
    PROVE  /\ calls'[j] + Cardinality(Offering(j)') <= row'[j].attempts
           /\ calls'[j] + Cardinality(MayOffer(j)') + 2
                 <= MaxAttempts + Cardinality(Workers)
  BY DEF CallInv
<1>1. Offering(j)' = Offering(j) /\ MayOffer(j)' = MayOffer(j)
  BY SameWorkers
<1> QED
  BY <1>1 DEF CallInv

(* A step after which worker w is not about to call.                       *)
LEMMA CallInvPast ==
  ASSUME TypeOK, CallInv, NEW w \in Workers, WorkersKept(w),
         worker'[w].pc \notin {"picked", "counted"}, calls' = calls,
         \A j \in Jobs : row'[j].attempts = row[j].attempts
  PROVE  CallInv'
<1>1. \A j \in Jobs : row[j].attempts \in Nat /\ calls[j] \in Nat
  BY DEF TypeOK, Row
<1>2. \A j \in Jobs : /\ InOffering(worker'[w], j) = 0
                      /\ InMayOffer(worker'[w], j) = 0
                      /\ InOffering(worker[w], j) \in 0 .. 1
                      /\ InMayOffer(worker[w], j) \in 0 .. 1
  BY DEF InOffering, InMayOffer
<1> QED
  BY <1>1, <1>2, CallInvByWorker

(* No step makes a call that was not counted, and a worker that picks a job *)
(* up with an attempt to spare leaves room for every other worker's call.  *)
LEMMA CallInvStep == TypeOK /\ RowInv /\ CallInv /\ [Next]_vars => CallInv'
<1> SUFFICES ASSUME TypeOK, RowInv, CallInv, [Next]_vars PROVE CallInv'
  OBVIOUS
<1>0. \A j \in Jobs : row[j].attempts \in Nat /\ calls[j] \in Nat
  BY DEF TypeOK, Row
<1>1. ASSUME NEW c \in Callers, Enqueue(c) PROVE CallInv'
  <2>1. ASSUME NEW k \in Keys, EnqueueMiss(c, k) PROVE CallInv'
    BY <2>1, CallInvElsewhere DEF EnqueueMiss, history
  <2>2. ASSUME NEW j \in Jobs, EnqueueCreate(c, j) PROVE CallInv'
    <3>1. row[j].attempts = 0
      BY <2>2, CreateEffect, NewRowEffects DEF RowInv
    <3>2. \A i \in Jobs : row'[i].attempts = row[i].attempts
      BY <2>2, <3>1, CreateEffect DEF OthersKept
    <3>3. worker' = worker /\ calls' = calls
      BY <2>2 DEF EnqueueCreate, history
    <3> QED
      BY <3>2, <3>3, CallInvElsewhere
  <2>3. CASE EnqueueConflict(c)
    BY <2>3, CallInvElsewhere DEF EnqueueConflict, history
  <2> QED
    BY <1>1, <2>1, <2>2, <2>3 DEF Enqueue
<1>2. ASSUME NEW w \in Workers, NEW i \in Jobs, PickJob(w, i) PROVE CallInv'
  <2>1. row' = row /\ calls' = calls /\ WorkersKept(w)
    BY <1>2, PickEffect DEF PickJob, history
  <2>2. ASSUME NEW j \in Jobs
        PROVE  /\ InOffering(worker'[w], j) = 0 /\ InOffering(worker[w], j) = 0
               /\ InMayOffer(worker[w], j) = 0
               /\ \/ InMayOffer(worker'[w], j) = 0
                  \/ row[j].attempts + 2 <= MaxAttempts
    BY <1>0, <1>2, PickEffect, QueueAssumption DEF InOffering, InMayOffer
  <2> QED
    BY <1>0, <2>1, <2>2, CallInvByWorker
<1>3. ASSUME NEW w \in Workers, CountAttempt(w) PROVE CallInv'
  <2>1. calls' = calls /\ WorkersKept(w)
    BY <1>3, CountEffect DEF CountAttempt, history, Moved
  <2>2. ASSUME NEW j \in Jobs
        PROVE  /\ InMayOffer(worker'[w], j) = InMayOffer(worker[w], j)
               /\ InMayOffer(worker[w], j) \in 0 .. 1
               /\ InOffering(worker[w], j) = 0
               /\ InOffering(worker'[w], j) \in 0 .. 1
               /\ j # worker[w].job => InOffering(worker'[w], j) = 0
    BY <1>3, CountEffect DEF InOffering, InMayOffer, Moved
  <2>3. \A j \in Jobs : row'[j].attempts =
          IF j = worker[w].job THEN row[j].attempts + 1 ELSE row[j].attempts
    BY <1>3, CountEffect DEF OthersKept
  <2> QED
    BY <1>0, <2>1, <2>2, <2>3, CallInvByWorker
<1>4. ASSUME NEW w \in Workers, RetryLater(w) PROVE CallInv'
  BY <1>4, RetryEffect, CallInvPast DEF RetryLater, history, Rewritten, OthersKept, Rested
<1>5. ASSUME NEW w \in Workers, GiveUp(w) PROVE CallInv'
  BY <1>5, GiveUpEffect, CallInvPast DEF GiveUp, history, Rewritten, OthersKept, Moved
<1>6. ASSUME NEW w \in Workers, NEW t \in BOOLEAN, NEW s \in BOOLEAN,
               Dispatch(w, t, s) PROVE CallInv'
  <2>1. row' = row /\ WorkersKept(w)
    BY <1>6, DispatchEffect
  <2>2. ASSUME NEW j \in Jobs
        PROVE  /\ InOffering(worker'[w], j) = 0 /\ InMayOffer(worker'[w], j) = 0
               /\ InOffering(worker[w], j) = (IF j = worker[w].job THEN 1 ELSE 0)
               /\ InMayOffer(worker[w], j) = (IF j = worker[w].job THEN 1 ELSE 0)
    BY <1>6, DispatchEffect DEF InOffering, InMayOffer, LastAttempt
  <2>3. ASSUME NEW j \in Jobs
        PROVE  \/ calls'[j] = calls[j]
               \/ j = worker[w].job /\ calls'[j] = calls[j] + 1
    BY <1>6, DispatchEffect
  <2> QED
    BY <1>0, <2>1, <2>2, <2>3, CallInvByWorker
<1>7. ASSUME NEW w \in Workers, Settle(w) PROVE CallInv'
  <2>1. calls' = calls
    BY <1>7 DEF Settle, history
  <2>2. /\ WorkersKept(w) /\ worker'[w].pc \notin {"picked", "counted"}
        /\ \A j \in Jobs : row'[j].attempts = row[j].attempts
    BY <1>7, SettleEffect DEF Rewritten, OthersKept, Moved, Rested
  <2> QED
    BY <2>1, <2>2, CallInvPast
<1>8. ASSUME NEW w \in Workers, WriteDeadLetter(w) \/ AbortWorker(w) PROVE CallInv'
  <2>1. row' = row /\ calls' = calls /\ Rest(w)
    BY <1>8 DEF WriteDeadLetter, AbortWorker, history
  <2> QED
    BY <2>1, RestRests, CallInvPast DEF Rested
<1>9. ASSUME NEW j \in Jobs, BackoffElapses(j) PROVE CallInv'
  BY <1>9, BackoffEffect, CallInvElsewhere DEF BackoffElapses, history, Rewritten, OthersKept
<1>10. ASSUME NEW h \in Handlers, NEW j \in Jobs, NEW kind \in CallbackKinds,
              ProviderCallback(h, j, kind) PROVE CallInv'
  <2>1. \A i \in Jobs : row'[i].attempts = row[i].attempts
    BY <1>10, CallbackEffect DEF Rewritten, OthersKept
  <2> QED
    BY <1>10, <2>1, CallInvElsewhere DEF ProviderCallback
<1>11. ASSUME NEW h \in Handlers, CallbackDeadLetter(h) \/ AbortHandler(h) PROVE CallInv'
  BY <1>11, CallInvElsewhere DEF CallbackDeadLetter, AbortHandler, history
<1>12. CASE UNCHANGED vars
  BY <1>12, CallInvElsewhere DEF vars
<1> QED
  BY <1>1, <1>2, <1>3, <1>4, <1>5, <1>6, <1>7, <1>8, <1>9, <1>10, <1>11, <1>12
  DEF Next, Process, Callback

----------------------------------------------------------------------------
LEMMA Allowances ==
  ASSUME TypeOK
  PROVE  /\ Allowance \in Nat
         /\ callbacks' = callbacks /\ aborts' = aborts => Allowance' = Allowance
         /\ callbacks' = callbacks /\ aborts' = aborts + 1
               => Allowance' = Allowance + 1
         /\ callbacks' = callbacks + 1 /\ aborts' = aborts
               => Allowance' = Allowance + Cardinality(Workers)
<1>1. callbacks \in Nat /\ aborts \in Nat /\ Cardinality(Workers) \in Nat
  BY QueueAssumption, SomeWorkers DEF TypeOK
<1>2. /\ Cardinality(Workers) * callbacks \in Nat
      /\ Cardinality(Workers) * (callbacks + 1)
           = Cardinality(Workers) * callbacks + Cardinality(Workers)
  BY <1>1
<1> QED
  BY <1>1, <1>2 DEF Allowance

LEMMA DeliveryInvElsewhere ==
  ASSUME TypeOK, DeliveryInv, worker' = worker, acked' = acked,
         NEW n \in Nat, Allowance' = Allowance + n,
         \A j \in Jobs : row'[j].status = "QUEUED" =>
            row[j].status = "QUEUED" \/ acked[j] = 0 \/ n = Cardinality(Workers)
  PROVE  DeliveryInv'
<1> SUFFICES ASSUME NEW j \in Jobs
    PROVE  /\ row'[j].status = "QUEUED" =>
                acked'[j] <= Cardinality(Recording(j)') + Allowance'
           /\ acked'[j] + Cardinality(Undecided(j)')
                <= Cardinality(Workers) + Allowance'
  BY DEF DeliveryInv
<1>1. /\ row[j].status = "QUEUED" =>
            acked[j] <= Cardinality(Recording(j)) + Allowance
      /\ acked[j] + Cardinality(Undecided(j)) <= Cardinality(Workers) + Allowance
  BY DEF DeliveryInv
<1>2. Undecided(j)' = Undecided(j) /\ Recording(j)' = Recording(j)
  BY SameWorkers
<1>3. Cardinality(Undecided(j)) \in Nat /\ Cardinality(Recording(j)) \in Nat
  BY QueueAssumption, FS_Subset, FS_CardinalityType DEF Undecided, Recording
<1>4. acked[j] \in Nat /\ Allowance \in Nat /\ Cardinality(Workers) \in Nat
  BY Allowances, SomeWorkers DEF TypeOK
<1> QED
  BY <1>1, <1>2, <1>3, <1>4

(* The arithmetic of a step by worker w, job by job.                       *)
LEMMA DeliveryInvByWorker ==
  ASSUME TypeOK, DeliveryInv, NEW w \in Workers, WorkersKept(w),
         NEW n \in Nat, Allowance' = Allowance + n,
         \A j \in Jobs :
            /\ acked'[j] \in Nat
            /\ row'[j].status = "QUEUED" =>
                  /\ row[j].status = "QUEUED"
                  /\ acked'[j] + InRecording(worker[w], j)
                       <= acked[j] + InRecording(worker'[w], j) + n
            /\ \/ acked'[j] + InUndecided(worker'[w], j)
                    <= acked[j] + InUndecided(worker[w], j) + n
               \/ /\ row[j].status = "QUEUED" /\ acked'[j] = acked[j]
                  /\ InRecording(worker'[w], j) = InRecording(worker[w], j)
  PROVE  DeliveryInv'
<1> SUFFICES ASSUME NEW j \in Jobs
    PROVE  /\ row'[j].status = "QUEUED" =>
                acked'[j] <= Cardinality(Recording(j)') + Allowance'
           /\ acked'[j] + Cardinality(Undecided(j)')
                <= Cardinality(Workers) + Allowance'
  BY DEF DeliveryInv
<1>1. /\ row[j].status = "QUEUED" =>
            acked[j] <= Cardinality(Recording(j)) + Allowance
      /\ acked[j] + Cardinality(Undecided(j)) <= Cardinality(Workers) + Allowance
  BY DEF DeliveryInv
<1>2. /\ InUndecided(worker'[w], j) \in 0 .. 1 /\ InUndecided(worker[w], j) \in 0 .. 1
      /\ InRecording(worker'[w], j) \in 0 .. 1 /\ InRecording(worker[w], j) \in 0 .. 1
  BY DEF InUndecided, InRecording
<1>3. acked[j] \in Nat /\ Allowance \in Nat /\ Cardinality(Workers) \in Nat
  BY Allowances, SomeWorkers DEF TypeOK
<1>4. row'[j].status = "QUEUED" =>
        acked'[j] <= Cardinality(Recording(j)') + Allowance'
  BY <1>1, <1>2, <1>3, DeliveryCounts
<1>5. acked'[j] + Cardinality(Undecided(j)') <= Cardinality(Workers) + Allowance'
  BY <1>1, <1>2, <1>3, DeliveryCounts
<1> QED
  BY <1>4, <1>5

(* A step after which worker w is neither undecided nor recording.         *)
LEMMA DeliveryInvPast ==
  ASSUME TypeOK, DeliveryInv, NEW w \in Workers, WorkersKept(w),
         worker'[w].pc \notin {"picked", "counted", "dispatched"}, acked' = acked,
         NEW n \in Nat, Allowance' = Allowance + n,
         \A j \in Jobs : row'[j].status = "QUEUED" =>
            /\ row[j].status = "QUEUED"
            /\ InRecording(worker[w], j) <= n
  PROVE  DeliveryInv'
<1>1. \A j \in Jobs : acked[j] \in Nat
  BY DEF TypeOK
<1>2. \A j \in Jobs : /\ InUndecided(worker'[w], j) = 0
                      /\ InRecording(worker'[w], j) = 0
                      /\ InUndecided(worker[w], j) \in 0 .. 1
                      /\ InRecording(worker[w], j) \in 0 .. 1
  BY DEF InUndecided, InRecording
<1> QED
  BY <1>1, <1>2, DeliveryInvByWorker

LEMMA DeliveryInvStep == TypeOK /\ RowInv /\ DeliveryInv /\ [Next]_vars => DeliveryInv'
<1> SUFFICES ASSUME TypeOK, RowInv, DeliveryInv, [Next]_vars PROVE DeliveryInv'
  OBVIOUS
<1>0. /\ \A j \in Jobs : acked[j] \in Nat
      /\ Allowance \in Nat /\ Allowance + 0 = Allowance
  BY Allowances DEF TypeOK
<1>1. ASSUME NEW c \in Callers, Enqueue(c) PROVE DeliveryInv'
  <2>0. worker' = worker /\ acked' = acked /\ Allowance' = Allowance + 0
    BY <1>0, <1>1, Allowances
    DEF Enqueue, EnqueueMiss, EnqueueCreate, EnqueueConflict, history
  <2>1. ASSUME NEW k \in Keys, EnqueueMiss(c, k) PROVE DeliveryInv'
    BY <2>0, <2>1, DeliveryInvElsewhere DEF EnqueueMiss
  <2>2. ASSUME NEW j \in Jobs, EnqueueCreate(c, j) PROVE DeliveryInv'
    <3>1. acked[j] = 0
      BY <2>2, CreateEffect DEF RowInv
    <3>2. \A i \in Jobs : row'[i].status = "QUEUED" =>
             row[i].status = "QUEUED" \/ acked[i] = 0
      BY <2>2, <3>1, CreateEffect DEF OthersKept
    <3> QED
      BY <2>0, <3>2, DeliveryInvElsewhere
  <2>3. CASE EnqueueConflict(c)
    BY <2>0, <2>3, DeliveryInvElsewhere DEF EnqueueConflict
  <2> QED
    BY <1>1, <2>1, <2>2, <2>3 DEF Enqueue
<1>2. ASSUME NEW w \in Workers, NEW i \in Jobs, PickJob(w, i) PROVE DeliveryInv'
  <2>1. /\ row' = row /\ acked' = acked /\ WorkersKept(w)
        /\ Allowance' = Allowance + 0
    BY <1>0, <1>2, PickEffect, Allowances DEF PickJob, history
  <2>2. ASSUME NEW j \in Jobs
        PROVE  /\ InRecording(worker'[w], j) = 0 /\ InRecording(worker[w], j) = 0
               /\ InUndecided(worker[w], j) = 0
               /\ InUndecided(worker'[w], j) = 0 \/ row[j].status = "QUEUED"
    BY <1>2, PickEffect DEF InRecording, InUndecided
  <2> QED
    BY <1>0, <2>1, <2>2, DeliveryInvByWorker
<1>3. ASSUME NEW w \in Workers, CountAttempt(w) PROVE DeliveryInv'
  <2>1. acked' = acked /\ WorkersKept(w) /\ Allowance' = Allowance + 0
    BY <1>0, <1>3, CountEffect, Allowances DEF CountAttempt, history, Moved
  <2>2. ASSUME NEW j \in Jobs
        PROVE  /\ InRecording(worker'[w], j) = 0 /\ InRecording(worker[w], j) = 0
               /\ InUndecided(worker'[w], j) = InUndecided(worker[w], j)
               /\ InUndecided(worker[w], j) \in 0 .. 1
    BY <1>3, CountEffect DEF InRecording, InUndecided, Moved
  <2>3. \A j \in Jobs : row'[j].status = row[j].status
    BY <1>3, CountEffect DEF OthersKept
  <2> QED
    BY <1>0, <2>1, <2>2, <2>3, DeliveryInvByWorker
<1>4. ASSUME NEW w \in Workers, RetryLater(w) \/ GiveUp(w) PROVE DeliveryInv'
  <2>1. acked' = acked /\ Allowance' = Allowance + 0
    BY <1>0, <1>4, Allowances DEF RetryLater, GiveUp, history
  <2>2. /\ worker[w].pc = "counted" /\ WorkersKept(w)
        /\ worker'[w].pc \notin {"picked", "counted", "dispatched"}
        /\ \A j \in Jobs : row'[j].status = "QUEUED" => row[j].status = "QUEUED"
    BY <1>4, RetryEffect, GiveUpEffect DEF Rewritten, OthersKept, Moved, Rested
  <2>3. \A j \in Jobs : InRecording(worker[w], j) = 0
    BY <2>2 DEF InRecording
  <2> QED
    BY <2>1, <2>2, <2>3, DeliveryInvPast
<1>5. ASSUME NEW w \in Workers, NEW t \in BOOLEAN, NEW s \in BOOLEAN,
               Dispatch(w, t, s) PROVE DeliveryInv'
  <2>1. row' = row /\ WorkersKept(w) /\ Allowance' = Allowance + 0
    BY <1>0, <1>5, DispatchEffect, Allowances DEF Dispatch
  <2>2. ASSUME NEW j \in Jobs
        PROVE  /\ InRecording(worker[w], j) = 0
               /\ InRecording(worker'[w], j) = (IF j = worker[w].job /\ s THEN 1 ELSE 0)
               /\ InUndecided(worker'[w], j) = 0
               /\ InUndecided(worker[w], j) = (IF j = worker[w].job THEN 1 ELSE 0)
    BY <1>5, DispatchEffect DEF InRecording, InUndecided
  <2>3. ASSUME NEW j \in Jobs
        PROVE  \/ acked'[j] = acked[j]
               \/ j = worker[w].job /\ s /\ acked'[j] = acked[j] + 1
    BY <1>5, DispatchEffect
  <2> QED
    BY <1>0, <2>1, <2>2, <2>3, DeliveryInvByWorker
<1>6. ASSUME NEW w \in Workers, Settle(w) PROVE DeliveryInv'
  <2>1. acked' = acked /\ Allowance' = Allowance + 0
    BY <1>0, <1>6, Allowances DEF Settle, history
  <2>2. /\ WorkersKept(w)
        /\ worker'[w].pc \notin {"picked", "counted", "dispatched"}
    BY <1>6, SettleEffect DEF Moved, Rested, Rewritten
  <2>3. ASSUME NEW j \in Jobs, row'[j].status = "QUEUED"
        PROVE  row[j].status = "QUEUED" /\ InRecording(worker[w], j) = 0
    BY <1>6, <2>3, SettleEffect DEF Rewritten, OthersKept, InRecording
  <2> QED
    BY <2>1, <2>2, <2>3, DeliveryInvPast
<1>7. ASSUME NEW w \in Workers, WriteDeadLetter(w) PROVE DeliveryInv'
  <2>1. /\ row' = row /\ acked' = acked /\ Rested(w)
        /\ worker[w].pc = "failed" /\ Allowance' = Allowance + 0
    BY <1>0, <1>7, RestRests, Allowances DEF WriteDeadLetter, history
  <2>2. \A j \in Jobs : InRecording(worker[w], j) = 0
    BY <2>1 DEF InRecording
  <2> QED
    BY <2>1, <2>2, DeliveryInvPast DEF Rested
<1>8. ASSUME NEW w \in Workers, AbortWorker(w) PROVE DeliveryInv'
  <2>1. /\ row' = row /\ acked' = acked /\ Rested(w)
        /\ Allowance' = Allowance + 1
    BY <1>8, RestRests, Allowances DEF AbortWorker
  <2>2. \A j \in Jobs : InRecording(worker[w], j) <= 1
    BY DEF InRecording
  <2> QED
    BY <2>1, <2>2, DeliveryInvPast DEF Rested
<1>9. ASSUME NEW j \in Jobs, BackoffElapses(j) PROVE DeliveryInv'
  <2>1. worker' = worker /\ acked' = acked /\ Allowance' = Allowance + 0
    BY <1>0, <1>9, Allowances DEF BackoffElapses, history
  <2>2. \A i \in Jobs : row'[i].status = row[i].status
    BY <1>9, BackoffEffect DEF Rewritten, OthersKept
  <2> QED
    BY <2>1, <2>2, DeliveryInvElsewhere
<1>10. ASSUME NEW h \in Handlers, NEW j \in Jobs, NEW kind \in CallbackKinds,
              ProviderCallback(h, j, kind) PROVE DeliveryInv'
  <2>1. /\ worker' = worker /\ acked' = acked
        /\ Allowance' = Allowance + Cardinality(Workers)
    BY <1>10, Allowances DEF ProviderCallback
  <2> QED
    BY <2>1, SomeWorkers, DeliveryInvElsewhere
<1>11. ASSUME NEW h \in Handlers, CallbackDeadLetter(h) PROVE DeliveryInv'
  <2>1. /\ worker' = worker /\ acked' = acked /\ row' = row
        /\ Allowance' = Allowance + 0
    BY <1>0, <1>11, Allowances DEF CallbackDeadLetter, history
  <2> QED
    BY <2>1, DeliveryInvElsewhere
<1>12. ASSUME NEW h \in Handlers, AbortHandler(h) PROVE DeliveryInv'
  <2>1. /\ worker' = worker /\ acked' = acked /\ row' = row
        /\ Allowance' = Allowance + 1
    BY <1>12, Allowances DEF AbortHandler
  <2> QED
    BY <2>1, DeliveryInvElsewhere
<1>13. CASE UNCHANGED vars
  <2>1. /\ worker' = worker /\ acked' = acked /\ row' = row
        /\ Allowance' = Allowance + 0
    BY <1>0, <1>13, Allowances DEF vars
  <2> QED
    BY <2>1, DeliveryInvElsewhere
<1> QED
  BY <1>1, <1>2, <1>3, <1>4, <1>5, <1>6, <1>7, <1>8, <1>9, <1>10, <1>11,
     <1>12, <1>13
  DEF Next, Process, Callback

----------------------------------------------------------------------------
(* Who may change the status of a job, and to what.                        *)
CreatesJob(j) == row'[j].status = "QUEUED" /\ row[j].status = "NONE"
RecordsSuccess(j) ==
    /\ row'[j].status = "SENT"
    /\ \E w \in Workers : /\ worker[w].pc = "dispatched" /\ worker[w].success
                          /\ worker[w].job = j
WorkerFails(j) ==
    /\ row'[j].status = "FAILED"
    /\ \E w \in Workers : worker'[w].pc = "failed" /\ worker'[w].job = j
HandlerReports(j) ==
    /\ callbacks' = callbacks + 1
    /\ \/ /\ row'[j].status = "FAILED"
          /\ \E h \in Handlers : handler'[h].pc = "failed" /\ handler'[h].job = j
       \/ row'[j].status = "QUEUED"
       \/ row'[j].status = "SENT" /\ j \in confirmed'

LEMMA StatusChanges ==
  ASSUME TypeOK, Next, NEW j \in Jobs, row'[j].status # row[j].status
  PROVE  CreatesJob(j) \/ RecordsSuccess(j) \/ WorkerFails(j) \/ HandlerReports(j)
<1>1. ASSUME NEW c \in Callers, Enqueue(c) PROVE CreatesJob(j)
  <2>1. PICK i \in Jobs : EnqueueCreate(c, i)
    BY <1>1 DEF Enqueue, EnqueueMiss, EnqueueConflict
  <2> QED
    BY <2>1, CreateEffect DEF CreatesJob, OthersKept, Exists
<1>2. ASSUME NEW w \in Workers, NEW i \in Jobs, PickJob(w, i) PROVE FALSE
  BY <1>2 DEF PickJob
<1>3. ASSUME NEW w \in Workers, CountAttempt(w) PROVE FALSE
  BY <1>3, CountEffect DEF OthersKept
<1>4. ASSUME NEW w \in Workers, RetryLater(w) PROVE FALSE
  BY <1>4, RetryEffect DEF Rewritten, OthersKept
<1>5. ASSUME NEW w \in Workers, GiveUp(w) PROVE WorkerFails(j)
  BY <1>5, GiveUpEffect DEF Rewritten, OthersKept, Moved, WorkerFails
<1>6. ASSUME NEW w \in Workers, NEW t \in BOOLEAN, NEW s \in BOOLEAN,
               Dispatch(w, t, s) PROVE FALSE
  BY <1>6 DEF Dispatch
<1>7. ASSUME NEW w \in Workers, Settle(w) PROVE RecordsSuccess(j) \/ WorkerFails(j)
  BY <1>7, SettleEffect DEF Rewritten, OthersKept, Moved, RecordsSuccess, WorkerFails
<1>8. ASSUME NEW w \in Workers, WriteDeadLetter(w) \/ AbortWorker(w) PROVE FALSE
  BY <1>8 DEF WriteDeadLetter, AbortWorker
<1>9. ASSUME NEW i \in Jobs, BackoffElapses(i) PROVE FALSE
  BY <1>9, BackoffEffect DEF Rewritten, OthersKept
<1>10. ASSUME NEW h \in Handlers, NEW i \in Jobs, NEW kind \in CallbackKinds,
              ProviderCallback(h, i, kind) PROVE HandlerReports(j)
  <2>1. i = j /\ callbacks' = callbacks + 1
    BY <1>10, CallbackEffect DEF Rewritten, OthersKept
  <2>2. CASE kind = "failed"
    <3>1. row'[j].status = "FAILED"
      BY <1>10, <2>1, <2>2, CallbackEffect DEF Rewritten
    <3>2. handler'[h].pc = "failed" /\ handler'[h].job = j
      BY <1>10, <2>1, <2>2 DEF TypeOK, ProviderCallback
    <3> QED
      BY <2>1, <3>1, <3>2 DEF HandlerReports
  <2>3. CASE kind # "failed"
    BY <1>10, <2>1, <2>3, CallbackEffect DEF Rewritten, HandlerReports
  <2> QED
    BY <2>2, <2>3
<1>11. ASSUME NEW h \in Handlers, CallbackDeadLetter(h) \/ AbortHandler(h) PROVE FALSE
  BY <1>11 DEF CallbackDeadLetter, AbortHandler
<1> QED
  BY <1>1, <1>2, <1>3, <1>4, <1>5, <1>6, <1>7, <1>8, <1>9, <1>10, <1>11
  DEF Next, Process, Callback

(* Nothing that has happened to a job is forgotten.                        *)
LEMMA Monotone ==
  ASSUME TypeOK, [Next]_vars, NEW j \in Jobs
  PROVE  /\ acked[j] > 0 => acked'[j] > 0
         /\ Exists(j) => row'[j].key = row[j].key
         /\ row'[j].key = row[j].key \/ \E c \in Callers : EnqueueCreate(c, j)
         /\ confirmed \subseteq confirmed' /\ deadLetter \subseteq deadLetter'
         /\ aborts > 0 => aborts' > 0
<1>0. /\ \A i \in Jobs : acked[i] \in Nat
      /\ aborts \in Nat
  BY QueueAssumption DEF TypeOK
<1>1. ASSUME NEW c \in Callers, NEW i \in Jobs, EnqueueCreate(c, i)
      PROVE  i = j \/ row'[j].key = row[j].key
  BY <1>1, CreateEffect DEF OthersKept
<1>2. ASSUME NEW w \in Workers, Process(w) PROVE row'[j].key = row[j].key
  <2>1. CASE RetryLater(w) \/ GiveUp(w)
    BY <2>1, RetryEffect, GiveUpEffect DEF Rewritten, OthersKept
  <2>2. CASE Settle(w)
    BY <2>2, SettleEffect DEF Rewritten, OthersKept
  <2>3. CASE CountAttempt(w)
    BY <2>3, CountEffect DEF OthersKept
  <2> QED
    BY <1>2, <2>1, <2>2, <2>3 DEF Process, PickJob, Dispatch, WriteDeadLetter
<1>3. ASSUME NEW i \in Jobs, BackoffElapses(i) PROVE row'[j].key = row[j].key
  BY <1>3, BackoffEffect DEF Rewritten, OthersKept
<1>4. ASSUME NEW h \in Handlers, Callback(h) PROVE row'[j].key = row[j].key
  <2>1. ASSUME NEW i \in Jobs, NEW kind \in CallbackKinds, ProviderCallback(h, i, kind)
        PROVE  row'[j].key = row[j].key
    BY <2>1, CallbackEffect DEF Rewritten, OthersKept
  <2> QED
    BY <1>4, <2>1 DEF Callback, CallbackDeadLetter
<1>5. row'[j].key = row[j].key \/ \E c \in Callers : EnqueueCreate(c, j)
  BY <1>1, <1>2, <1>3, <1>4
  DEF Next, Enqueue, EnqueueMiss, EnqueueConflict, AbortWorker, AbortHandler, vars
<1>6. acked[j] > 0 => acked'[j] > 0
  <2>1. ASSUME NEW w \in Workers, NEW t \in BOOLEAN, NEW s \in BOOLEAN,
               Dispatch(w, t, s)
        PROVE  acked'[j] \in {acked[j], acked[j] + 1}
    BY <2>1, DispatchEffect
  <2>2. (\E w \in Workers, t, s \in BOOLEAN : Dispatch(w, t, s)) \/ acked' = acked
    BY DEF Next, Enqueue, Process, Callback, EnqueueMiss, EnqueueCreate,
           EnqueueConflict, PickJob, CountAttempt, RetryLater, GiveUp, Settle,
           WriteDeadLetter, BackoffElapses, ProviderCallback,
           CallbackDeadLetter, AbortWorker, AbortHandler, history, vars
  <2> QED
    BY <1>0, <2>1, <2>2
<1>7. confirmed \subseteq confirmed' /\ deadLetter \subseteq deadLetter'
  BY DEF Next, Enqueue, Process, Callback, EnqueueMiss, EnqueueCreate,
         EnqueueConflict, PickJob, CountAttempt, RetryLater, GiveUp, Dispatch,
         Settle, WriteDeadLetter, BackoffElapses, ProviderCallback,
         CallbackDeadLetter, AbortWorker, AbortHandler, history, vars
<1>8. aborts > 0 => aborts' > 0
  BY <1>0
  DEF Next, Enqueue, Process, Callback, EnqueueMiss, EnqueueCreate,
      EnqueueConflict, PickJob, CountAttempt, RetryLater, GiveUp, Dispatch,
      Settle, WriteDeadLetter, BackoffElapses, ProviderCallback,
      CallbackDeadLetter, AbortWorker, AbortHandler, history, vars
<1> QED
  BY <1>5, <1>6, <1>7, <1>8, CreateEffect

(* How a worker comes to hold a success.                                   *)
LEMMA Successes ==
  ASSUME TypeOK, [Next]_vars, NEW w \in Workers,
         worker'[w].pc = "dispatched", worker'[w].success
  PROVE  \/ worker'[w] = worker[w]
         \/ /\ worker[w].pc = "counted" /\ worker'[w].job = worker[w].job
            /\ acked'[worker[w].job] > 0 \/ Kind(worker[w].job) = "portal"
<1>1. ASSUME NEW v \in Workers, Process(v) \/ AbortWorker(v)
      PROVE  v # w \/ \E t, s \in BOOLEAN : Dispatch(w, t, s)
  <2>1. CASE AbortWorker(v) \/ RetryLater(v) \/ WriteDeadLetter(v)
    BY <2>1, RestRests DEF AbortWorker, RetryLater, WriteDeadLetter, Rested
  <2>2. CASE \E j \in Jobs : PickJob(v, j)
    BY <2>2, PickEffect
  <2>3. CASE CountAttempt(v) \/ GiveUp(v)
    BY <2>3, CountEffect, GiveUpEffect DEF Moved
  <2>4. CASE Settle(v)
    BY <2>4, SettleEffect DEF Moved, Rested
  <2> QED
    BY <1>1, <2>1, <2>2, <2>3, <2>4 DEF Process
<1>2. ASSUME NEW v \in Workers, Process(v) \/ AbortWorker(v) PROVE WorkersKept(v)
  BY <1>2 DEF Process, PickJob, CountAttempt, RetryLater, GiveUp, Dispatch,
     Settle, WriteDeadLetter, AbortWorker, Step, Rest, WorkersKept, TypeOK
<1>3. \/ worker' = worker
      \/ \E v \in Workers : Process(v) \/ AbortWorker(v)
  BY DEF Next, Enqueue, EnqueueMiss, EnqueueCreate, EnqueueConflict,
     BackoffElapses, Callback, ProviderCallback, CallbackDeadLetter,
     AbortHandler, vars
<1>4. ASSUME NEW t \in BOOLEAN, NEW s \in BOOLEAN,
               Dispatch(w, t, s)
      PROVE  /\ worker[w].pc = "counted" /\ worker'[w].job = worker[w].job
             /\ acked'[worker[w].job] > 0 \/ Kind(worker[w].job) = "portal"
  <2>1. acked[worker[w].job] \in Nat
    BY <1>4, DispatchEffect DEF TypeOK
  <2> QED
    BY <1>4, <2>1, DispatchEffect
<1> QED
  BY <1>1, <1>2, <1>3, <1>4 DEF WorkersKept

(* One provider call adds at most one to what was taken, and to what was   *)
(* answered or lost just as much.                                          *)
LEMMA HeardInvStep == TypeOK /\ HeardInv /\ [Next]_vars => HeardInv'
<1> SUFFICES ASSUME TypeOK, HeardInv, [Next]_vars, NEW j \in Jobs
    PROVE  acked'[j] <= delivered'[j] /\ delivered'[j] <= acked'[j] + lost'
  BY DEF HeardInv
<1>1. /\ acked[j] <= delivered[j] /\ delivered[j] <= acked[j] + lost
      /\ acked[j] \in Nat /\ delivered[j] \in Nat /\ lost \in Nat
  BY DEF HeardInv, TypeOK
<1>2. ASSUME NEW w \in Workers, NEW t \in BOOLEAN, NEW s \in BOOLEAN,
             Dispatch(w, t, s)
      PROVE  acked'[j] <= delivered'[j] /\ delivered'[j] <= acked'[j] + lost'
  <2>1. /\ s => t
        /\ \/ UNCHANGED <<delivered, acked, lost>>
           \/ /\ lost' = (IF t /\ ~s THEN lost + 1 ELSE lost)
              /\ \E i \in Jobs :
                    /\ delivered' = (IF t THEN [delivered EXCEPT ![i] = @ + 1]
                                          ELSE delivered)
                    /\ acked' = (IF s THEN [acked EXCEPT ![i] = @ + 1] ELSE acked)
    <3>1. worker[w].job \in Jobs
      BY <1>2, DispatchEffect
    <3> QED
      BY <1>2, <3>1 DEF Dispatch
  <2>2. CASE UNCHANGED <<delivered, acked, lost>>
    BY <1>1, <2>2
  <2>3. CASE t /\ s
    BY <1>1, <2>1, <2>3 DEF TypeOK
  <2>4. CASE t /\ ~s
    BY <1>1, <2>1, <2>4 DEF TypeOK
  <2>5. CASE ~t
    BY <1>1, <2>1, <2>5
  <2> QED
    BY <2>3, <2>4, <2>5
<1>3. \/ \E w \in Workers, t, s \in BOOLEAN : Dispatch(w, t, s)
      \/ UNCHANGED <<delivered, acked, lost>>
  BY DEF Next, Enqueue, Process, Callback, EnqueueMiss, EnqueueCreate,
         EnqueueConflict, PickJob, CountAttempt, RetryLater, GiveUp, Settle,
         WriteDeadLetter, BackoffElapses, ProviderCallback,
         CallbackDeadLetter, AbortWorker, AbortHandler, history, vars
<1> QED
  BY <1>1, <1>2, <1>3

LEMMA SuccessInvStep ==
  TypeOK /\ RowInv /\ SuccessInv /\ [Next]_vars => SuccessInv'
<1> SUFFICES ASSUME TypeOK, RowInv, SuccessInv, [Next]_vars,
                    NEW w \in Workers, worker'[w].pc = "dispatched", worker'[w].success
    PROVE  \/ acked'[worker'[w].job] > 0
           \/ KindOf[row'[worker'[w].job].key] = "portal"
  BY DEF SuccessInv, Kind
<1>1. worker[w].job = worker'[w].job /\ worker[w].pc # "idle"
  BY Successes
<1>2. worker[w].job \in Jobs /\ Exists(worker[w].job)
  BY <1>1, BusyHaveJobs DEF RowInv
<1>3. CASE worker'[w] = worker[w]
  BY <1>2, <1>3, Monotone DEF SuccessInv, Kind
<1>4. CASE acked'[worker[w].job] > 0 \/ Kind(worker[w].job) = "portal"
  BY <1>1, <1>2, <1>4, Monotone DEF Kind
<1> QED
  BY <1>3, <1>4, Successes

(* A status SENT has its reason when it is written and keeps it.           *)
LEMMA SentStep ==
  TypeOK /\ RowInv /\ SuccessInv /\ SentIsJustified /\ [Next]_vars => SentIsJustified'
<1> SUFFICES ASSUME TypeOK, RowInv, SuccessInv, SentIsJustified, [Next]_vars,
                    NEW j \in Jobs, row'[j].status = "SENT"
    PROVE  acked'[j] > 0 \/ KindOf[row'[j].key] = "portal" \/ j \in confirmed'
  BY DEF SentIsJustified, Kind
<1>1. CASE row[j].status = "SENT"
  BY <1>1, Monotone DEF SentIsJustified, Kind, Exists
<1>2. CASE row[j].status # "SENT"
  <2>1. Next /\ row'[j].status # row[j].status
    BY <1>2 DEF vars
  <2>2. CASE RecordsSuccess(j)
    <3>1. acked[j] > 0 \/ Kind(j) = "portal"
      BY <2>2 DEF RecordsSuccess, SuccessInv
    <3>2. Exists(j)
      BY <2>2 DEF RecordsSuccess, RowInv
    <3> QED
      BY <3>1, <3>2, Monotone DEF Kind
  <2> QED
    BY <2>1, <2>2, StatusChanges DEF CreatesJob, WorkerFails, HandlerReports
<1> QED
  BY <1>1, <1>2

(* The dead letter a process owes is written, unless the process is cut    *)
(* short.                                                                  *)
LEMMA DebtsKept ==
  ASSUME TypeOK, [Next]_vars, NEW j \in Jobs
  PROVE  /\ \A w \in Workers : worker[w].pc = "failed" /\ worker[w].job = j =>
               \/ worker'[w].pc = "failed" /\ worker'[w].job = j
               \/ j \in deadLetter' \/ aborts' > 0
         /\ \A h \in Handlers : handler[h].pc = "failed" /\ handler[h].job = j =>
               \/ handler'[h].pc = "failed" /\ handler'[h].job = j
               \/ j \in deadLetter' \/ aborts' > 0
<1>1. aborts \in Nat
  BY QueueAssumption DEF TypeOK
<1>2. ASSUME NEW w \in Workers, worker[w].pc = "failed"
      PROVE  worker'[w] = worker[w] \/ WriteDeadLetter(w) \/ AbortWorker(w)
  BY <1>2
  DEF TypeOK, Next, Enqueue, Process, Callback, EnqueueMiss, EnqueueCreate,
      EnqueueConflict, PickJob, CountAttempt, RetryLater, GiveUp, Dispatch,
      Settle, WriteDeadLetter, BackoffElapses, ProviderCallback,
      CallbackDeadLetter, AbortWorker, AbortHandler, Step, Rest, vars
<1>3. ASSUME NEW h \in Handlers, handler[h].pc = "failed"
      PROVE  handler'[h] = handler[h] \/ CallbackDeadLetter(h) \/ AbortHandler(h)
  BY <1>3
  DEF TypeOK, Next, Enqueue, Process, Callback, EnqueueMiss, EnqueueCreate,
      EnqueueConflict, PickJob, CountAttempt, RetryLater, GiveUp, Dispatch,
      Settle, WriteDeadLetter, BackoffElapses, ProviderCallback,
      CallbackDeadLetter, AbortWorker, AbortHandler, vars
<1>4. \A w \in Workers :
        /\ WriteDeadLetter(w) => worker[w].job \in deadLetter'
        /\ AbortWorker(w) => aborts' > 0
  BY <1>1 DEF WriteDeadLetter, AbortWorker
<1>5. \A h \in Handlers :
        /\ CallbackDeadLetter(h) => handler[h].job \in deadLetter'
        /\ AbortHandler(h) => aborts' > 0
  BY <1>1 DEF CallbackDeadLetter, AbortHandler
<1> QED
  BY <1>2, <1>3, <1>4, <1>5

LEMMA FailureStep == TypeOK /\ FailureIsRecorded /\ [Next]_vars => FailureIsRecorded'
<1> SUFFICES ASSUME TypeOK, FailureIsRecorded, [Next]_vars,
                    NEW j \in Jobs, row'[j].status = "FAILED"
    PROVE  \/ j \in deadLetter'
           \/ \E w \in Workers : worker'[w].pc = "failed" /\ worker'[w].job = j
           \/ \E h \in Handlers : handler'[h].pc = "failed" /\ handler'[h].job = j
           \/ aborts' > 0
  BY DEF FailureIsRecorded
<1>1. CASE row[j].status = "FAILED"
  BY <1>1, DebtsKept, Monotone DEF FailureIsRecorded
<1>2. CASE row[j].status # "FAILED"
  <2>1. Next /\ row'[j].status # row[j].status
    BY <1>2 DEF vars
  <2> QED
    BY <2>1, StatusChanges DEF CreatesJob, RecordsSuccess, WorkerFails, HandlerReports
<1> QED
  BY <1>1, <1>2

(* Only an insert gives a row its key, and the unique index lets it in only *)
(* if no row has it.                                                       *)
LEMMA OneJobStep ==
  TypeOK /\ RowInv /\ OneJobPerKey /\ [Next]_vars => OneJobPerKey'
<1> SUFFICES ASSUME TypeOK, RowInv, OneJobPerKey, [Next]_vars,
                    NEW i \in Jobs, NEW j \in Jobs, row'[i].status # "NONE",
                    row'[i].key = row'[j].key, i # j
    PROVE  FALSE
  BY DEF OneJobPerKey, Exists
<1>1. row'[i].key \in Keys /\ row'[j].key \in Keys
  BY RowInvStep DEF RowInv, Exists
<1>2. ASSUME NEW c \in Callers, NEW n \in Jobs, EnqueueCreate(c, n) PROVE FALSE
  <2>1. row'[n].key = caller[c].key /\ OthersKept(n) /\ ~HasKey(caller[c].key)
    BY <1>2, CreateEffect
  <2>2. CASE n = i \/ n = j
    BY <2>1, <2>2 DEF OthersKept, HasKey
  <2>3. CASE n # i /\ n # j
    BY <2>1, <2>3 DEF OthersKept, OneJobPerKey, Exists
  <2> QED
    BY <2>2, <2>3
<1>3. CASE ~\E c \in Callers, n \in Jobs : EnqueueCreate(c, n)
  <2>1. row'[i].key = row[i].key /\ row'[j].key = row[j].key
    BY <1>3, Monotone
  <2>2. Exists(i)
    BY <1>1, <2>1, NewRowEffects, QueueAssumption DEF RowInv
  <2> QED
    BY <2>1, <2>2 DEF OneJobPerKey
<1> QED
  BY <1>2, <1>3

----------------------------------------------------------------------------
(* The theorems.                                                           *)

LEMMA InitOfInv == Init => IInv /\ SentIsJustified /\ FailureIsRecorded /\ OneJobPerKey
<1> SUFFICES ASSUME Init
    PROVE  IInv /\ SentIsJustified /\ FailureIsRecorded /\ OneJobPerKey
  OBVIOUS
<1>1. TypeOK
  BY QueueAssumption, ProcessStates DEF Init, TypeOK
<1>2. RowInv
  BY NewRowEffects DEF Init, RowInv, Exists, IdleWorker, IdleHandler
<1>3. ASSUME NEW j \in Jobs
      PROVE  Offering(j) = {} /\ MayOffer(j) = {} /\ Undecided(j) = {}
             /\ Recording(j) = {}
  BY DEF Init, Offering, MayOffer, Undecided, Recording, IdleWorker
<1>4. MaxAttempts >= 1 /\ MaxAttempts \in Nat
  BY QueueAssumption
<1>5. ASSUME NEW j \in Jobs
      PROVE  /\ calls[j] = 0 /\ acked[j] = 0 /\ row[j].attempts = 0
             /\ Cardinality(Offering(j)) = 0 /\ Cardinality(MayOffer(j)) = 0
             /\ Cardinality(Undecided(j)) = 0 /\ Cardinality(Recording(j)) = 0
  <2>1. calls[j] = 0 /\ acked[j] = 0 /\ row[j].attempts = 0
    BY NewRowEffects DEF Init
  <2> QED
    BY <1>3, <2>1, FS_EmptySet
<1>6. CallInv
  BY <1>4, <1>5, SomeWorkers DEF CallInv
<1>7. DeliveryInv
  <2>1. Allowance \in Nat
    BY <1>1, Allowances
  <2> QED
    BY <1>5, <2>1, SomeWorkers DEF DeliveryInv
<1>8. SuccessInv
  BY DEF Init, SuccessInv, IdleWorker
<1>10. HeardInv
  BY DEF Init, HeardInv
<1>9. SentIsJustified /\ FailureIsRecorded /\ OneJobPerKey
  BY NewRowEffects DEF Init, SentIsJustified, FailureIsRecorded, OneJobPerKey, Exists
<1> QED
  BY <1>1, <1>2, <1>6, <1>7, <1>8, <1>9, <1>10 DEF IInv

(* The inductive invariant holds in every state of every behaviour of the  *)
(* queue.                                                                  *)
THEOREM Inductive == Spec => []IInv
<1>1. Init => IInv
  BY InitOfInv
<1> QED
  BY <1>1, TypeCorrect, RowInvStep, CallInvStep, DeliveryInvStep, HeardInvStep,
     SuccessInvStep, PTL DEF Spec, IInv

(* processNextJob offers a job to a provider a bounded number of times,    *)
(* whatever the number of overlapping executions and of requeues.          *)
THEOREM CallsBounded == Spec => []CallsAreBounded
<1>1. IInv => CallsAreBounded
  <2> SUFFICES ASSUME IInv, NEW j \in Jobs
      PROVE  calls[j] + 2 <= MaxAttempts + Cardinality(Workers)
    BY DEF CallsAreBounded
  <2>1. Cardinality(MayOffer(j)) \in Nat
    BY QueueAssumption, FS_Subset, FS_CardinalityType DEF MayOffer
  <2>2. calls[j] \in Nat /\ MaxAttempts \in Nat
    BY QueueAssumption DEF IInv, TypeOK
  <2> QED
    BY <2>1, <2>2, SomeWorkers DEF IInv, CallInv
<1> QED
  BY <1>1, Inductive, PTL

(* A provider takes a message a bounded number of times: once per worker   *)
(* and round, a round being opened by a callback, once per execution cut   *)
(* short and once per answer that was lost.                                *)
THEOREM DeliveriesBounded == Spec => []DeliveriesAreBounded
<1>1. IInv => DeliveriesAreBounded
  <2> SUFFICES ASSUME IInv, NEW j \in Jobs
      PROVE  delivered[j]
               <= Cardinality(Workers) * (callbacks + 1) + aborts + lost
    BY DEF DeliveriesAreBounded
  <2>1. Cardinality(Undecided(j)) \in Nat
    BY QueueAssumption, FS_Subset, FS_CardinalityType DEF Undecided
  <2>2. /\ acked[j] \in Nat /\ callbacks \in Nat /\ aborts \in Nat
        /\ delivered[j] \in Nat /\ lost \in Nat
        /\ delivered[j] <= acked[j] + lost
    BY QueueAssumption DEF IInv, TypeOK, HeardInv
  <2>3. acked[j] <= Cardinality(Workers) + Allowance /\ Allowance \in Nat
    BY <2>1, <2>2, SomeWorkers, Allowances DEF IInv, DeliveryInv
  <2>4. Cardinality(Workers) * (callbacks + 1)
          = Cardinality(Workers) + Cardinality(Workers) * callbacks
    BY <2>2, SomeWorkers
  <2> QED
    BY <2>2, <2>3, <2>4, SomeWorkers DEF Allowance
<1> QED
  BY <1>1, Inductive, PTL

(* No job is SENT that nobody accepted, showed or reported.                *)
THEOREM SentJustified == Spec => []SentIsJustified
<1>1. Init => SentIsJustified
  BY InitOfInv
<1>2. IInv /\ SentIsJustified /\ [Next]_vars => SentIsJustified'
  BY SentStep DEF IInv
<1> QED
  BY <1>1, <1>2, Inductive, PTL DEF Spec

(* No failure goes without its dead letter unless an execution was cut     *)
(* short.                                                                  *)
THEOREM FailureRecorded == Spec => []FailureIsRecorded
<1>1. Init => FailureIsRecorded
  BY InitOfInv
<1>2. TypeOK /\ FailureIsRecorded /\ [Next]_vars => FailureIsRecorded'
  BY FailureStep
<1> QED
  BY <1>1, <1>2, TypeCorrect, PTL DEF Spec

(* Requests with one key share one job.                                    *)
THEOREM OneJob == Spec => []OneJobPerKey
<1>1. Init => OneJobPerKey
  BY InitOfInv
<1>2. IInv /\ OneJobPerKey /\ [Next]_vars => OneJobPerKey'
  BY OneJobStep DEF IInv
<1> QED
  BY <1>1, <1>2, Inductive, PTL DEF Spec

(* Only a callback puts a settled job back into the queue.                 *)
THEOREM RequeuedByCallback == Spec => OnlyCallbacksRequeue
<1>1. TypeOK /\ [Next]_vars =>
        [\A j \in Jobs :
           row[j].status \in {"SENT", "FAILED"} /\ row'[j].status = "QUEUED"
             => callbacks' = callbacks + 1]_vars
  <2> SUFFICES ASSUME TypeOK, Next, NEW j \in Jobs,
                      row[j].status \in {"SENT", "FAILED"},
                      row'[j].status = "QUEUED"
      PROVE  callbacks' = callbacks + 1
    BY DEF vars
  <2> QED
    BY StatusChanges DEF CreatesJob, RecordsSuccess, WorkerFails, HandlerReports
<1> QED
  BY <1>1, TypeCorrect, PTL DEF Spec, OnlyCallbacksRequeue
=============================================================================
