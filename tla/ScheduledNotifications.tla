----------------------- MODULE ScheduledNotifications -----------------------
(***************************************************************************)
(* The scheduled notifications of the automation service                   *)
(* (services/automation/src/lib/persistence.ts, lib/adapters/              *)
(* notifications.ts, index.ts): one Redis record per notification, the     *)
(* Redis list of pending ids, the workflows that schedule (senders) and    *)
(* the worker cycle that claims the due records and dispatches them.       *)
(*                                                                         *)
(* The list is read, changed and written back whole, by senders and by the *)
(* worker cycle, each in calls of their own; any two may interleave.  A    *)
(* record is touched by one of them at a time, so its get and its set are  *)
(* one step.  Records are numbered in the order in which they are made.    *)
(***************************************************************************)
EXTENDS Naturals, Sequences, SequencesExt

CONSTANTS
    MaxRecords,   \* notifications scheduled in a behaviour (bounds the model)
    Senders,      \* workflows that schedule, one per topic loop
    Nothing,      \* the record of an idle sender
    Delays,       \* how far ahead notifications are scheduled
    BatchSizes,   \* the values of schedulerBatchSize it may be started with
    MaxHistory,   \* maxJobHistory, the length pushIndexKey cuts a list to
    MaxFaults,    \* Redis calls that fail in a behaviour (bounds the model)
    MaxCrashes    \* restarts of the service (bounds the model)

Records == 1 .. MaxRecords

AllDelays == {"soon",        \* due before the record's time to live is over
              "beyond-ttl"}  \* due later: jobTtlSeconds is thirty days

ASSUME ScheduleAssumption ==
    /\ MaxRecords \in Nat
    /\ Nothing \notin Records
    /\ Delays \subseteq AllDelays
    /\ BatchSizes \subseteq Nat \ {0}
    /\ MaxHistory \in Nat \ {0}
    /\ MaxFaults \in Nat
    /\ MaxCrashes \in Nat

VARIABLES
    batchSize,   \* schedulerBatchSize, read when the service starts
    record,      \* the ScheduledNotificationRecord of each id in Redis
    pending,     \* the list of pending ids in Redis, the newest first
    issued,      \* ids made so far
    sender,      \* the local state of each enqueueScheduledNotification
    cycle,       \* the local state of flushDueScheduled
    delivered,   \* deliveries of each record
    atRisk,      \* the notifications an accident was about, one by one
    faults,      \* Redis calls that failed
    crashes      \* restarts

vars == <<batchSize, record, pending, issued, sender, cycle, delivered, atRisk,
          faults, crashes>>

----------------------------------------------------------------------------
Statuses == {"none", "pending", "processing", "sent", "failed"}

Record == [status : Statuses, due : BOOLEAN, delay : AllDelays]

SenderState == [pc : {"idle", "stored", "read"},
                id : Records \cup {Nothing},
                list : Seq(Records)]       \* "existing" in pushIndexKey

CycleState == [pc : {"idle", "scanning", "dispatching", "answered"},
               todo : Seq(Records),        \* pendingIds not looked at yet
               keep : Seq(Records),        \* nextPending
               claimed : Seq(Records),     \* claimed, less those dispatched
               ok : BOOLEAN]               \* dispatchNow did not throw

NoRecord == [status |-> "none", due |-> FALSE, delay |-> "soon"]
IdleSender == [pc |-> "idle", id |-> Nothing, list |-> <<>>]
IdleCycle == [pc |-> "idle", todo |-> <<>>, keep |-> <<>>, claimed |-> <<>>,
              ok |-> FALSE]

TypeOK ==
    /\ batchSize \in BatchSizes
    /\ record \in [Records -> Record]
    /\ pending \in Seq(Records)
    /\ issued \in 0 .. MaxRecords
    /\ sender \in [Senders -> SenderState]
    /\ \A s \in Senders : sender[s].pc # "idle" => sender[s].id \in Records
    /\ cycle \in CycleState
    /\ cycle.pc \in {"dispatching", "answered"} => cycle.claimed # <<>>
    /\ delivered \in [Records -> Nat]
    /\ atRisk \subseteq Records
    /\ faults \in 0 .. MaxFaults
    /\ crashes \in 0 .. MaxCrashes

Init ==
    /\ batchSize \in BatchSizes
    /\ record = [r \in Records |-> NoRecord]
    /\ pending = <<>>
    /\ issued = 0
    /\ sender = [s \in Senders |-> IdleSender]
    /\ cycle = IdleCycle
    /\ delivered = [r \in Records |-> 0]
    /\ atRisk = {}
    /\ faults = 0
    /\ crashes = 0

----------------------------------------------------------------------------
(* A call on Redis.  While the client is not connected a get answers null  *)
(* and a set does nothing: the call is "lost".                             *)

Works(lost) == IF lost THEN faults < MaxFaults /\ faults' = faults + 1
                       ELSE UNCHANGED faults

(* An accident: what it leaves behind is about these notifications.         *)
Endangers(ids) == atRisk' = atRisk \cup ids

(* The processes between their read of the list and their write.           *)
Changing == {s \in Senders : sender[s].pc = "read"}
Scanning == cycle.pc = "scanning"

(* The notifications in the hands of senders, and of the cycle.            *)
BySender(r) == \E s \in Senders : sender[s].id = r
InHand(r) == r \in Range(cycle.claimed)

----------------------------------------------------------------------------
(* enqueueScheduledNotification, called by send.                           *)

Pending(delay) == [status |-> "pending", due |-> FALSE, delay |-> delay]

StoreRecord(s, delay, lost) ==
    /\ sender[s].pc = "idle"
    /\ issued < MaxRecords
    /\ LET r == issued + 1 IN
         /\ record' = IF lost THEN record
                      ELSE [record EXCEPT ![r] = Pending(delay)]
         /\ sender' = [sender EXCEPT ![s] =
                         [pc |-> "stored", id |-> r, list |-> <<>>]]
         /\ issued' = r
         /\ Endangers(IF lost THEN {r} ELSE {})
    /\ Works(lost)
    /\ UNCHANGED <<batchSize, pending, cycle, delivered, crashes>>

(* The list that is lost is taken for an empty one: all it had is written  *)
(* over.                                                                   *)
ReadList(s, lost) ==
    /\ sender[s].pc = "stored"
    /\ sender' = [sender EXCEPT ![s].pc = "read",
                                ![s].list = IF lost THEN <<>> ELSE pending]
    /\ Endangers(IF lost THEN Range(pending) ELSE {})
    /\ Works(lost)
    /\ UNCHANGED <<batchSize, record, pending, issued, cycle, delivered, crashes>>

(* pushIndexKey: to the front, once, and no more than MaxHistory of them.  *)
(* No list has an id twice (ScheduledNotificationsProofs!ListsOK).         *)
InFront(r, list) == <<r>> \o RemoveFirst(list, r)

Pushed(r, list) ==
    LET all == InFront(r, list)
    IN  IF Len(all) > MaxHistory THEN SubSeq(all, 1, MaxHistory) ELSE all

(* What is beyond the limit of the list.                                   *)
Beyond(list) == {list[i] : i \in MaxHistory + 1 .. Len(list)}

(* What a write puts at risk: what it cuts off, and the id it adds if some *)
(* other change of the list is under way, which will not have it.          *)
CutOrOverlapped(s) ==
    Beyond(InFront(sender[s].id, sender[s].list)) \cup
        (IF Changing = {s} /\ ~Scanning THEN {} ELSE {sender[s].id})

WriteList(s, lost) ==
    /\ sender[s].pc = "read"
    /\ pending' = IF lost THEN pending ELSE Pushed(sender[s].id, sender[s].list)
    /\ Endangers(IF lost THEN {sender[s].id} ELSE CutOrOverlapped(s))
    /\ sender' = [sender EXCEPT ![s] = IdleSender]
    /\ Works(lost)
    /\ UNCHANGED <<batchSize, record, issued, cycle, delivered, crashes>>

(* A call on Redis rejects: the workflow's attempt fails there.            *)
SenderThrows(s) ==
    /\ sender[s].pc # "idle"
    /\ faults < MaxFaults
    /\ faults' = faults + 1
    /\ sender' = [sender EXCEPT ![s] = IdleSender]
    /\ Endangers({sender[s].id})
    /\ UNCHANGED <<batchSize, record, pending, issued, cycle, delivered, crashes>>

----------------------------------------------------------------------------
(* claimDueScheduledNotifications.                                         *)

(* The list is read; an empty one ends the cycle, and so does a lost read. *)
StartCycle ==
    /\ cycle.pc = "idle"
    /\ pending # <<>>
    /\ cycle' = [IdleCycle EXCEPT !.pc = "scanning", !.todo = pending]
    /\ UNCHANGED <<batchSize, record, pending, issued, sender, delivered, atRisk,
                   faults, crashes>>

(* Mutants: a claim that is not recorded; a record left for a later cycle  *)
(* that is not kept in the list.                                           *)
ProcessingUnrecorded(r) == r
StaysListedIfProcessing(r) == record[r].status = "processing"

Processing(r) == [r EXCEPT !.status = "processing"]

Claimable(r) ==
    /\ Len(cycle.claimed) < batchSize
    /\ record[r].status = "pending"
    /\ record[r].due

StaysListed(r) == record[r].status \in {"pending", "processing"}

Scanned(c) == [c EXCEPT !.todo = Tail(@)]

ClaimRecord(lost) ==
    /\ Scanning /\ cycle.todo # <<>>
    /\ LET r == Head(cycle.todo) IN
         /\ Claimable(r)
         /\ record' = IF lost THEN record
                      ELSE [record EXCEPT ![r] = Processing(@)]
         /\ cycle' = [Scanned(cycle) EXCEPT !.claimed = Append(@, r)]
    /\ Works(lost)
    /\ UNCHANGED <<batchSize, pending, issued, sender, delivered, atRisk, crashes>>

PassRecord ==
    /\ Scanning /\ cycle.todo # <<>>
    /\ LET r == Head(cycle.todo) IN
         /\ ~Claimable(r)
         /\ cycle' = IF StaysListed(r)
                     THEN [Scanned(cycle) EXCEPT !.keep = Append(@, r)]
                     ELSE Scanned(cycle)
    /\ UNCHANGED <<batchSize, record, pending, issued, sender, delivered, atRisk,
                   faults, crashes>>

(* A record whose read is lost is taken for one that is gone.              *)
MissRecord ==
    /\ Scanning /\ cycle.todo # <<>>
    /\ cycle' = Scanned(cycle)
    /\ Endangers({Head(cycle.todo)})
    /\ Works(TRUE)
    /\ UNCHANGED <<batchSize, record, pending, issued, sender, delivered, crashes>>

(* Mutant: a cycle that claimed nothing goes on to dispatch.               *)
DispatchingAlways(c) == [c EXCEPT !.pc = "dispatching", !.keep = <<>>]

Dispatching(c) == IF c.claimed = <<>> THEN IdleCycle
                  ELSE [c EXCEPT !.pc = "dispatching", !.keep = <<>>]

EndScan(lost) ==
    /\ Scanning /\ cycle.todo = <<>>
    /\ pending' = IF lost THEN pending ELSE cycle.keep
    /\ cycle' = Dispatching(cycle)
    /\ Works(lost)
    /\ UNCHANGED <<batchSize, record, issued, sender, delivered, atRisk, crashes>>

----------------------------------------------------------------------------
(* flushDueScheduled: each claimed record is dispatched and marked.        *)

(* The provider may have taken the message although its answer is lost.    *)
Dispatch(taken, ok) ==
    /\ cycle.pc = "dispatching"
    /\ ok => taken
    /\ delivered' = IF taken
                    THEN [delivered EXCEPT ![Head(cycle.claimed)] = @ + 1]
                    ELSE delivered
    /\ cycle' = [cycle EXCEPT !.pc = "answered", !.ok = ok]
    /\ UNCHANGED <<batchSize, record, pending, issued, sender, atRisk, faults,
                   crashes>>

(* Mutants: the mark follows the answer the wrong way round; a cycle goes  *)
(* no further than its first record.                                       *)
OutcomeSwapped == IF cycle.ok THEN "failed" ELSE "sent"
NextClaimNone(c) == IdleCycle

Outcome == IF cycle.ok THEN "sent" ELSE "failed"

NextClaim(c) == IF Tail(c.claimed) = <<>> THEN IdleCycle
                ELSE [c EXCEPT !.pc = "dispatching", !.claimed = Tail(@),
                               !.ok = FALSE]

(* markScheduledNotificationSent or ...Failed; a record that is gone stays *)
(* gone.                                                                   *)
Mark(lost) ==
    /\ cycle.pc = "answered"
    /\ LET r == Head(cycle.claimed) IN
         record' = IF lost \/ record[r].status = "none" THEN record
                   ELSE [record EXCEPT ![r].status = Outcome]
    /\ cycle' = NextClaim(cycle)
    /\ Endangers(IF lost THEN {Head(cycle.claimed)} ELSE {})
    /\ Works(lost)
    /\ UNCHANGED <<batchSize, pending, issued, sender, delivered, crashes>>

(* A call that rejects while the record is marked sent is caught, and the  *)
(* record is marked failed although it was dispatched.  Any other one ends *)
(* the cycle, and what it has claimed stays claimed.                       *)
CycleThrows ==
    /\ cycle.pc # "idle"
    /\ faults < MaxFaults
    /\ faults' = faults + 1
    /\ IF cycle.pc = "answered" /\ cycle.ok
       THEN /\ cycle' = [cycle EXCEPT !.ok = FALSE]
            /\ UNCHANGED atRisk
       ELSE /\ cycle' = IdleCycle
            /\ Endangers(Range(cycle.claimed))
    /\ UNCHANGED <<batchSize, record, pending, issued, sender, delivered, crashes>>

----------------------------------------------------------------------------
(* Time passes.  A cycle compares scheduleAt with the instant it started,  *)
(* so what falls due during a scan falls due for the next cycle.           *)
FallsDue(r) ==
    /\ record[r].status = "pending" /\ ~record[r].due
    /\ record[r].delay = "soon"
    /\ ~Scanning
    /\ record' = [record EXCEPT ![r].due = TRUE]
    /\ UNCHANGED <<batchSize, pending, issued, sender, cycle, delivered, atRisk,
                   faults, crashes>>

(* Redis removes a record jobTtlSeconds after it was written.              *)
Expires(r) ==
    /\ record[r].status = "pending" /\ ~record[r].due
    /\ record[r].delay = "beyond-ttl"
    /\ ~Scanning
    /\ record' = [record EXCEPT ![r] = NoRecord]
    /\ Endangers({r})
    /\ UNCHANGED <<batchSize, pending, issued, sender, cycle, delivered, faults,
                   crashes>>

(* The process stops and is started again: Redis keeps what it has, and    *)
(* what senders and the cycle have in hand stays as it is.                 *)
Crash ==
    /\ crashes < MaxCrashes
    /\ crashes' = crashes + 1
    /\ batchSize' \in BatchSizes
    /\ sender' = [s \in Senders |-> IdleSender]
    /\ cycle' = IdleCycle
    /\ Endangers(Range(cycle.claimed) \cup {r \in Records : BySender(r)})
    /\ UNCHANGED <<record, pending, issued, delivered, faults>>

----------------------------------------------------------------------------
Send(s) ==
    \E lost \in BOOLEAN : ReadList(s, lost) \/ WriteList(s, lost)

(* schedulerRunning lets one cycle run at a time.                          *)
Cycle ==
    \/ StartCycle
    \/ PassRecord
    \/ MissRecord
    \/ \E lost \in BOOLEAN : ClaimRecord(lost) \/ EndScan(lost) \/ Mark(lost)
    \/ \E taken, ok \in BOOLEAN : Dispatch(taken, ok)

Next ==
    \/ \E s \in Senders, delay \in Delays, lost \in BOOLEAN :
          StoreRecord(s, delay, lost)
    \/ \E s \in Senders : Send(s)
    \/ \E s \in Senders : SenderThrows(s)
    \/ Cycle
    \/ CycleThrows
    \/ \E r \in Records : FallsDue(r)
    \/ \E r \in Records : Expires(r)
    \/ Crash

Spec == Init /\ [][Next]_vars

(* The worker cycle is started again every few seconds, and a workflow     *)
(* goes on to its next call.                                               *)
FairSpec ==
    /\ Spec
    /\ WF_vars(Cycle)
    /\ \A s \in Senders : WF_vars(Send(s))

(* Time passes, whatever the cycle is doing.                               *)
TimelySpec ==
    /\ FairSpec
    /\ \A r \in Records : SF_vars(FallsDue(r)) /\ SF_vars(Expires(r))

----------------------------------------------------------------------------
(* Safety.                                                                 *)

(* A notification is delivered at most once, however changes of the list   *)
(* overlap and wherever the service stops; again only if Redis lost a      *)
(* write (claimDueScheduledNotifications writes "processing" before the    *)
(* list, and checks it: ids that a stale write lists again do no harm).    *)
DeliveredOnce == \A r \in Records : delivered[r] <= 1 + faults

(* A record is marked sent only after the provider took the message, also  *)
(* when marks fail half-way through a batch.                               *)
SentWasDelivered ==
    \A r \in Records : record[r].status = "sent" => delivered[r] > 0

(* The notifications the service still works on.                           *)
Listed(r) == r \in Range(pending) \/ BySender(r)

(* No notification is lost that no accident was about: its record is in    *)
(* Redis, while it waits it is listed or in somebody's hand, and once it   *)
(* is claimed it is in the running cycle.  The accidents are those that    *)
(* atRisk records one by one: a Redis call about it, or the read of the    *)
(* list it was on, failed; the service stopped with it in hand; it was put *)
(* on the list while another change of the list was under way; it was cut  *)
(* off at maxJobHistory; or it expired before it was due.  What happens to *)
(* one notification loses no other, whatever the batch size and the order  *)
(* of the list.                                                            *)
NothingIsLost ==
    \A r \in 1 .. issued :
        \/ r \in atRisk
        \/ record[r].status = "pending" /\ (Listed(r) \/ InHand(r))
        \/ record[r].status = "processing" /\ InHand(r)
        \/ record[r].status \in {"sent", "failed"}

(* Liveness: a notification that is due is settled, unless an accident is  *)
(* about it.                                                               *)
DueIsSettled ==
    \A r \in Records :
        record[r].status = "pending" /\ record[r].due
            ~> record[r].status \in {"sent", "failed"} \/ r \in atRisk

----------------------------------------------------------------------------
(* The abstract specification.                                             *)

(* What shows of a record: that it waits, or how it ended.                 *)
StatusOf ==
    LET shown == [none |-> "NONE", pending |-> "QUEUED",
                  processing |-> "QUEUED", sent |-> "SENT", failed |-> "FAILED"]
    IN  [r \in Records |-> shown[record[r].status]]

Promised == INSTANCE Delivery WITH
    Messages   <- Records,
    Perishable <- Records,
    Senders    <- 1,
    status     <- StatusOf,
    inApp      <- {},
    told       <- {},
    reports    <- 0,
    cuts       <- faults

(* The scheduler keeps the promise that the queue keeps, with one sender   *)
(* and no reports: whatever list changes, claims, restarts and lost calls  *)
(* interleave, a notification is delivered once, and again only for a call *)
(* that Redis failed, ends as sent only when it was delivered, and never   *)
(* waits again once it has ended.                                          *)
SchedulesAsPromised == Promised!Spec

----------------------------------------------------------------------------
(* The service's README: scheduled notifications are persisted in Redis    *)
(* and due ones are dispatched from background worker cycles.              *)
ScheduledIsSettled ==
    \A r \in Records :
        record[r].status = "pending"
            ~> record[r].status \in {"sent", "failed"}
=============================================================================
