------------------------- MODULE NotificationQueue -------------------------
(***************************************************************************)
(* The notification queue of the notifications service                     *)
(* (services/notifications/src/lib/queue.ts): the table of jobs and their  *)
(* dead letters, the callers that enqueue, the workers that run            *)
(* processNextJob (one per overlapping tick of drainQueue, one per         *)
(* POST /notifications/process) and the provider callbacks.                *)
(*                                                                         *)
(* Every await on the database or on a provider ends a step, so two        *)
(* workers interleave between any two of them.  Jobs are numbered in the   *)
(* order of their createdAt, the order in which the queue is served.       *)
(***************************************************************************)
EXTENDS Naturals, FiniteSets

CONSTANTS
    MaxJobs,        \* rows of the job table (bounds the model)
    Workers,        \* concurrent executions of processNextJob
    Callers,        \* concurrent executions of enqueueJob
    Handlers,       \* concurrent executions of applyProviderCallback
    Keys,           \* idempotency keys, the hash of a request's content
    NoKey,          \* the key of a row that does not exist yet
    Nobody,         \* the job of an idle process
    KindOf,         \* the kind of recipient a key's request is addressed to
    MaxAttempts,    \* the maxAttempts every job is created with
    MaxCallbacks,   \* provider callbacks in a behaviour (bounds the model)
    MaxAborts       \* executions cut short in a behaviour (bounds the model)

Jobs == 1 .. MaxJobs

Kinds == {"external",   \* dispatched to a mail, SMS or push provider
          "portal",     \* a push to "portal:..." : shown in the application
          "fail",       \* recipient contains "fail" : simulated outage
          "hard-fail"}  \* recipient contains "hard-fail" : rejected

ASSUME QueueAssumption ==
    /\ MaxJobs \in Nat
    /\ IsFiniteSet(Workers) /\ Workers # {}
    /\ NoKey \notin Keys
    /\ Nobody \notin Jobs
    /\ KindOf \in [Keys -> Kinds]
    /\ MaxAttempts \in Nat \ {0}
    /\ MaxCallbacks \in Nat
    /\ MaxAborts \in Nat

VARIABLES
    row,         \* the NotificationJob table
    deadLetter,  \* the jobs that have a NotificationDeadLetter row
    worker,      \* the local state of each execution of processNextJob
    caller,      \* the local state of each execution of enqueueJob
    handler,     \* the local state of each execution of applyProviderCallback
    calls,       \* calls made to a provider for each job
    delivered,   \* those of them in which the provider took the message
    acked,       \* those of them the queue was told had succeeded
    lost,        \* answers of providers that took a message and were not heard
    confirmed,   \* jobs a callback reported sent or delivered
    callbacks,   \* callbacks received
    aborts       \* executions cut short

vars == <<row, deadLetter, worker, caller, handler, calls, delivered,
          acked, lost, confirmed, callbacks, aborts>>

history == <<calls, delivered, acked, lost, confirmed, callbacks, aborts>>

----------------------------------------------------------------------------
(* The columns of a job that the queue's decisions depend on.              *)
Row == [key : Keys \cup {NoKey},
        status : {"NONE", "QUEUED", "SENT", "FAILED"},
        attempts : Nat,
        due : BOOLEAN,               \* nextAttemptAt <= now
        deadLetteredAt : BOOLEAN]    \* deadLetteredAt is not null

NoRow == [key |-> NoKey, status |-> "NONE", attempts |-> 0, due |-> FALSE,
          deadLetteredAt |-> FALSE]

WorkerState == [pc : {"idle", "picked", "counted", "dispatched", "failed"},
                job : Jobs \cup {Nobody},
                attempt : Nat,        \* nextAttempts, read before the update
                success : BOOLEAN]    \* deliveryResult.success

CallerState == [pc : {"idle", "missed"}, key : Keys \cup {NoKey}]
HandlerState == [pc : {"idle", "failed"}, job : Jobs \cup {Nobody}]

IdleWorker == [pc |-> "idle", job |-> Nobody, attempt |-> 0, success |-> FALSE]
IdleCaller == [pc |-> "idle", key |-> NoKey]
IdleHandler == [pc |-> "idle", job |-> Nobody]

TypeOK ==
    /\ row \in [Jobs -> Row]
    /\ deadLetter \subseteq Jobs
    /\ worker \in [Workers -> WorkerState]
    /\ \A w \in Workers : worker[w].pc # "idle" => worker[w].job \in Jobs
    /\ caller \in [Callers -> CallerState]
    /\ \A c \in Callers : caller[c].pc # "idle" => caller[c].key \in Keys
    /\ handler \in [Handlers -> HandlerState]
    /\ \A h \in Handlers : handler[h].pc # "idle" => handler[h].job \in Jobs
    /\ calls \in [Jobs -> Nat]
    /\ delivered \in [Jobs -> Nat]
    /\ acked \in [Jobs -> Nat]
    /\ lost \in Nat
    /\ confirmed \subseteq Jobs
    /\ callbacks \in 0 .. MaxCallbacks
    /\ aborts \in 0 .. MaxAborts

Init ==
    /\ row = [j \in Jobs |-> NoRow]
    /\ deadLetter = {}
    /\ worker = [w \in Workers |-> IdleWorker]
    /\ caller = [c \in Callers |-> IdleCaller]
    /\ handler = [h \in Handlers |-> IdleHandler]
    /\ calls = [j \in Jobs |-> 0]
    /\ delivered = [j \in Jobs |-> 0]
    /\ acked = [j \in Jobs |-> 0]
    /\ lost = 0
    /\ confirmed = {}
    /\ callbacks = 0
    /\ aborts = 0

Exists(j) == row[j].status # "NONE"
Kind(j) == KindOf[row[j].key]
HasKey(k) == \E j \in Jobs : row[j].key = k

----------------------------------------------------------------------------
(* enqueueJob.  A request whose key has a row is answered with that row    *)
(* and changes nothing; the others go on to insert.                        *)

EnqueueMiss(c, k) ==
    /\ caller[c].pc = "idle"
    /\ ~HasKey(k)
    /\ caller' = [caller EXCEPT ![c] = [pc |-> "missed", key |-> k]]
    /\ UNCHANGED <<row, deadLetter, worker, handler, history>>

NewRow(k) == [key |-> k, status |-> "QUEUED", attempts |-> 0, due |-> TRUE,
              deadLetteredAt |-> FALSE]

(* Mutant: the table without its unique index.                             *)
CreateUnindexed(c, j) ==
    /\ caller[c].pc = "missed"
    /\ ~Exists(j)
    /\ \A i \in Jobs : i < j => Exists(i)
    /\ row' = [row EXCEPT ![j] = NewRow(caller[c].key)]
    /\ caller' = [caller EXCEPT ![c] = IdleCaller]
    /\ UNCHANGED <<deadLetter, worker, handler, history>>

(* The insert: the unique index on idempotencyKey lets one caller in.      *)
EnqueueCreate(c, j) ==
    /\ caller[c].pc = "missed"
    /\ ~HasKey(caller[c].key)
    /\ ~Exists(j)
    /\ \A i \in Jobs : i < j => Exists(i)
    /\ row' = [row EXCEPT ![j] = NewRow(caller[c].key)]
    /\ caller' = [caller EXCEPT ![c] = IdleCaller]
    /\ UNCHANGED <<deadLetter, worker, handler, history>>

(* The insert of a caller that lost the race violates the index and throws. *)
EnqueueConflict(c) ==
    /\ caller[c].pc = "missed"
    /\ HasKey(caller[c].key)
    /\ caller' = [caller EXCEPT ![c] = IdleCaller]
    /\ UNCHANGED <<row, deadLetter, worker, handler, history>>

----------------------------------------------------------------------------
(* processNextJob.                                                         *)

Ready(j) == row[j].status = "QUEUED" /\ row[j].due

MovedTo(ws, pc) == [ws EXCEPT !.pc = pc]
Step(w, pc) == worker' = [worker EXCEPT ![w] = MovedTo(@, pc)]
Rest(w) == worker' = [worker EXCEPT ![w] = IdleWorker]

Holding(j, n) == [pc |-> "picked", job |-> j, attempt |-> n, success |-> FALSE]

(* findFirst: the oldest ready job.  The attempt number is computed from   *)
(* the row as it was read here.                                            *)
PickJob(w, j) ==
    /\ worker[w].pc = "idle"
    /\ Ready(j)
    /\ \A i \in Jobs : i < j => ~Ready(i)
    /\ worker' = [worker EXCEPT ![w] = Holding(j, row[j].attempts + 1)]
    /\ UNCHANGED <<row, deadLetter, caller, handler, history>>

(* Mutants: an attempt that is not counted, a retry that writes the status *)
(* it read, a success that is not recorded.                                *)
Uncounted(r) == r
PostponedAsQueued(r) == [r EXCEPT !.status = "QUEUED", !.due = FALSE]
SentUnrecorded(r) == [r EXCEPT !.due = TRUE]

(* What the queue writes to a row.  A retry moves nextAttemptAt and leaves *)
(* the status as it finds it; a success leaves deadLetteredAt.             *)
Counted(r) == [r EXCEPT !.attempts = @ + 1]
Postponed(r) == [r EXCEPT !.due = FALSE]
Failed(r) == [r EXCEPT !.status = "FAILED", !.deadLetteredAt = TRUE]
Sent(r) == [r EXCEPT !.status = "SENT", !.due = TRUE]

(* attempts: { increment: 1 }, with no condition on the row's status.      *)
CountAttempt(w) ==
    /\ worker[w].pc = "picked"
    /\ row' = [row EXCEPT ![worker[w].job] = Counted(@)]
    /\ Step(w, "counted")
    /\ UNCHANGED <<deadLetter, caller, handler, history>>

(* Mutant: one attempt too many.                                           *)
AttemptBeyondLast(w) == worker[w].attempt > MaxAttempts

LastAttempt(w) == worker[w].attempt >= MaxAttempts

SimulatedOutage(w) == Kind(worker[w].job) = "fail" /\ ~LastAttempt(w)
GivesUp(w) == Kind(worker[w].job) = "hard-fail" \/ LastAttempt(w)

RetryLater(w) ==
    /\ worker[w].pc = "counted"
    /\ SimulatedOutage(w)
    /\ row' = [row EXCEPT ![worker[w].job] = Postponed(@)]
    /\ Rest(w)
    /\ UNCHANGED <<deadLetter, caller, handler, history>>

(* Mutant: a job is given up without its dead letter.                      *)
GiveUpUnrecorded(w) ==
    /\ worker[w].pc = "counted"
    /\ GivesUp(w)
    /\ row' = [row EXCEPT ![worker[w].job] = Failed(@)]
    /\ Rest(w)
    /\ UNCHANGED <<deadLetter, caller, handler, history>>

(* The last attempt is given up before any provider is called.             *)
GiveUp(w) ==
    /\ worker[w].pc = "counted"
    /\ GivesUp(w)
    /\ row' = [row EXCEPT ![worker[w].job] = Failed(@)]
    /\ Step(w, "failed")
    /\ UNCHANGED <<deadLetter, caller, handler, history>>

(* Mutant: every answer is taken for a success.                            *)
AnsweredWell(ws, success) == [ws EXCEPT !.pc = "dispatched", !.success = TRUE]

Answered(ws, success) == [ws EXCEPT !.pc = "dispatched", !.success = success]

(* The provider call.  "portal" jobs skip it.  The provider may take the   *)
(* message and its answer be lost or come after the ten seconds the queue  *)
(* waits: to the queue that is an error, like a refusal.  A provider that  *)
(* is not configured answers with success, and passes for one that took it. *)
Dispatch(w, taken, success) ==
    /\ worker[w].pc = "counted"
    /\ ~SimulatedOutage(w) /\ ~GivesUp(w)
    /\ success => taken
    /\ LET j == worker[w].job IN
         IF Kind(j) = "portal"
         THEN success /\ UNCHANGED <<calls, delivered, acked, lost>>
         ELSE /\ calls' = [calls EXCEPT ![j] = @ + 1]
              /\ delivered' = IF taken THEN [delivered EXCEPT ![j] = @ + 1]
                                       ELSE delivered
              /\ acked' = IF success THEN [acked EXCEPT ![j] = @ + 1] ELSE acked
              /\ lost' = IF taken /\ ~success THEN lost + 1 ELSE lost
    /\ worker' = [worker EXCEPT ![w] = Answered(@, success)]
    /\ UNCHANGED <<row, deadLetter, caller, handler, confirmed, callbacks,
                   aborts>>

(* The write that follows the provider's answer.  The failure of a last    *)
(* attempt never comes: GiveUp has taken every last attempt already.       *)
Settle(w) ==
    /\ worker[w].pc = "dispatched"
    /\ row' = [row EXCEPT ![worker[w].job] =
                 IF worker[w].success THEN Sent(@)
                 ELSE IF LastAttempt(w) THEN Failed(@) ELSE Postponed(@)]
    /\ IF ~worker[w].success /\ LastAttempt(w) THEN Step(w, "failed")
                                               ELSE Rest(w)
    /\ UNCHANGED <<deadLetter, caller, handler, history>>

(* toDeadLetter after the FAILED write of a worker: an upsert.             *)
WriteDeadLetter(w) ==
    /\ worker[w].pc = "failed"
    /\ deadLetter' = deadLetter \cup {worker[w].job}
    /\ Rest(w)
    /\ UNCHANGED <<row, caller, handler, history>>

(* The backoff of a postponed job runs out.                                *)
Ripened(r) == [r EXCEPT !.due = TRUE]

BackoffElapses(j) ==
    /\ Exists(j)
    /\ ~row[j].due
    /\ row' = [row EXCEPT ![j] = Ripened(@)]
    /\ UNCHANGED <<deadLetter, worker, caller, handler, history>>

----------------------------------------------------------------------------
(* applyProviderCallback.                                                  *)

CallbackKinds == {"queued", "sent", "failed"}

(* Mutant: the provider's word is stored as it comes.                      *)
ReportedRaw(r, kind) == [r EXCEPT !.status = kind]

Reported(r, kind) ==
    CASE kind = "failed" -> Failed(r)
      [] kind = "queued" -> [r EXCEPT !.status = "QUEUED", !.due = TRUE,
                                      !.deadLetteredAt = FALSE]
      [] kind = "sent"   -> [r EXCEPT !.status = "SENT",
                                      !.deadLetteredAt = FALSE]

ProviderCallback(h, j, kind) ==
    /\ handler[h].pc = "idle"
    /\ callbacks < MaxCallbacks
    /\ Exists(j)
    /\ row' = [row EXCEPT ![j] = Reported(@, kind)]
    /\ callbacks' = callbacks + 1
    /\ confirmed' = IF kind = "sent" THEN confirmed \cup {j} ELSE confirmed
    /\ handler' = IF kind = "failed"
                  THEN [handler EXCEPT ![h] = [pc |-> "failed", job |-> j]]
                  ELSE handler
    /\ UNCHANGED <<deadLetter, worker, caller, calls, delivered, acked, lost,
                   aborts>>

CallbackDeadLetter(h) ==
    /\ handler[h].pc = "failed"
    /\ deadLetter' = deadLetter \cup {handler[h].job}
    /\ handler' = [handler EXCEPT ![h] = IdleHandler]
    /\ UNCHANGED <<row, worker, caller, history>>

----------------------------------------------------------------------------
(* A database call throws, or the process dies: the execution ends where   *)
(* it stands.                                                              *)

AbortWorker(w) ==
    /\ aborts < MaxAborts
    /\ worker[w].pc # "idle"
    /\ Rest(w)
    /\ aborts' = aborts + 1
    /\ UNCHANGED <<row, deadLetter, caller, handler, calls, delivered, acked,
                   lost, confirmed, callbacks>>

AbortHandler(h) ==
    /\ aborts < MaxAborts
    /\ handler[h].pc # "idle"
    /\ handler' = [handler EXCEPT ![h] = IdleHandler]
    /\ aborts' = aborts + 1
    /\ UNCHANGED <<row, deadLetter, worker, caller, calls, delivered, acked,
                   lost, confirmed, callbacks>>

----------------------------------------------------------------------------
Enqueue(c) ==
    \/ \E k \in Keys : EnqueueMiss(c, k)
    \/ \E j \in Jobs : EnqueueCreate(c, j)
    \/ EnqueueConflict(c)

Process(w) ==
    \/ \E j \in Jobs : PickJob(w, j)
    \/ CountAttempt(w)
    \/ RetryLater(w)
    \/ GiveUp(w)
    \/ \E taken, success \in BOOLEAN : Dispatch(w, taken, success)
    \/ Settle(w)
    \/ WriteDeadLetter(w)

Callback(h) ==
    \/ \E j \in Jobs, kind \in CallbackKinds : ProviderCallback(h, j, kind)
    \/ CallbackDeadLetter(h)

Next ==
    \/ \E c \in Callers : Enqueue(c)
    \/ \E w \in Workers : Process(w)
    \/ \E j \in Jobs : BackoffElapses(j)
    \/ \E h \in Handlers : Callback(h)
    \/ \E w \in Workers : AbortWorker(w)
    \/ \E h \in Handlers : AbortHandler(h)

Spec == Init /\ [][Next]_vars

(* The poll timer calls drainQueue every five seconds for as long as the   *)
(* service runs, so each worker keeps taking its steps, and time passes.   *)
FairSpec ==
    /\ Spec
    /\ \A w \in Workers : WF_vars(Process(w))
    /\ \A j \in Jobs : WF_vars(BackoffElapses(j))

----------------------------------------------------------------------------
(* Safety.                                                                 *)

(* However many ticks overlap and whatever the callbacks requeue, a job is *)
(* offered to a provider at most MaxAttempts - 1 times, plus once for each *)
(* further worker that may have read the attempt counter before another    *)
(* one moved it (queue.ts reads attempts, increments later, never resets). *)
CallsAreBounded ==
    \A j \in Jobs : calls[j] + 2 <= MaxAttempts + Cardinality(Workers)

(* A provider takes a message at most once from each worker that picked it *)
(* up before the first success was recorded; again only after a callback   *)
(* put the job back, once more for each execution cut short before it      *)
(* recorded its success, and once more for each answer that was lost: the  *)
(* retry after the ten-second limit of a provider call sends the message   *)
(* again, whether or not the provider has it.  Nothing else repeats one.   *)
DeliveriesAreBounded ==
    \A j \in Jobs :
        delivered[j] <= Cardinality(Workers) * (callbacks + 1) + aborts + lost

(* A job shows as SENT only if the provider accepted it, if it is shown in *)
(* the portal only, or if a callback reported it: no failed or concurrent  *)
(* attempt marks a message sent that nobody has.                           *)
SentIsJustified ==
    \A j \in Jobs : row[j].status = "SENT" =>
        \/ acked[j] > 0
        \/ Kind(j) = "portal"
        \/ j \in confirmed

(* A FAILED job has its dead letter, or somebody is about to write it, or  *)
(* an execution was cut short between the two writes.                      *)
FailureIsRecorded ==
    \A j \in Jobs : row[j].status = "FAILED" =>
        \/ j \in deadLetter
        \/ \E w \in Workers : worker[w].pc = "failed" /\ worker[w].job = j
        \/ \E h \in Handlers : handler[h].pc = "failed" /\ handler[h].job = j
        \/ aborts > 0

(* Concurrent and repeated requests with one key make one job.             *)
OneJobPerKey ==
    \A i, j \in Jobs : Exists(i) /\ row[i].key = row[j].key => i = j

(* A settled job is queued again by a provider's callback and by nothing   *)
(* else: a worker slower than another one never revives it.                *)
OnlyCallbacksRequeue ==
    [][\A j \in Jobs :
          row[j].status \in {"SENT", "FAILED"} /\ row'[j].status = "QUEUED"
            => callbacks' = callbacks + 1]_vars

(* Liveness: every job that is queued is settled, however the provider     *)
(* answers and wherever executions are cut short.                          *)
QueuedIsSettled ==
    \A j \in Jobs : row[j].status = "QUEUED"
                      ~> row[j].status \in {"SENT", "FAILED"}

----------------------------------------------------------------------------
(* The inductive strengthening of the safety properties.                   *)

(* A row that does not exist yet has no history; a process works on rows   *)
(* that exist.                                                             *)
RowInv ==
    /\ \A j \in Jobs :
          IF Exists(j) THEN row[j].key \in Keys
          ELSE row[j] = NoRow /\ calls[j] = 0 /\ acked[j] = 0
    /\ \A w \in Workers : worker[w].pc # "idle" => Exists(worker[w].job)
    /\ \A h \in Handlers : handler[h].pc # "idle" => Exists(handler[h].job)

(* The workers about to offer j to a provider, and those that still may.   *)
Offering(j) == {w \in Workers : /\ worker[w].job = j
                                /\ worker[w].pc = "counted"
                                /\ ~LastAttempt(w)}
MayOffer(j) == {w \in Workers : /\ worker[w].job = j
                                /\ worker[w].pc \in {"picked", "counted"}
                                /\ ~LastAttempt(w)}

(* Every call was counted first, and a worker that may still call read a   *)
(* counter below the last attempt.                                         *)
CallInv ==
    \A j \in Jobs :
        /\ calls[j] + Cardinality(Offering(j)) <= row[j].attempts
        /\ calls[j] + Cardinality(MayOffer(j)) + 2
              <= MaxAttempts + Cardinality(Workers)

(* The workers that have yet to hear from the provider about j, and those  *)
(* that have yet to record its success.                                    *)
Undecided(j) == {w \in Workers : /\ worker[w].job = j
                                 /\ worker[w].pc \in {"picked", "counted"}}
Recording(j) == {w \in Workers : /\ worker[w].job = j
                                 /\ worker[w].pc = "dispatched"
                                 /\ worker[w].success}

(* The successes that callbacks and executions cut short account for.      *)
Allowance == Cardinality(Workers) * callbacks + aborts

(* While j is queued, each success is still being recorded or is owed to  *)
(* an earlier round; a round is opened by a callback.                      *)
DeliveryInv ==
    \A j \in Jobs :
        /\ row[j].status = "QUEUED" =>
              acked[j] <= Cardinality(Recording(j)) + Allowance
        /\ acked[j] + Cardinality(Undecided(j))
              <= Cardinality(Workers) + Allowance

(* What a provider took and the queue was not told of is counted as lost.  *)
HeardInv ==
    \A j \in Jobs : acked[j] <= delivered[j] /\ delivered[j] <= acked[j] + lost

(* A worker that is about to record a success has one.                     *)
SuccessInv ==
    \A w \in Workers :
        worker[w].pc = "dispatched" /\ worker[w].success =>
            acked[worker[w].job] > 0 \/ Kind(worker[w].job) = "portal"

IInv == TypeOK /\ RowInv /\ CallInv /\ DeliveryInv /\ HeardInv /\ SuccessInv
=============================================================================
