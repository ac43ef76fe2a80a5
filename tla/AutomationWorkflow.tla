------------------------- MODULE AutomationWorkflow -------------------------
(***************************************************************************)
(* The event handler of the automation service                             *)
(* (services/automation/src/lib/subscriptions.ts): events arrive on their  *)
(* topic's subscription, one loop per topic takes them in order, and each  *)
(* is checked, run as a workflow of adapter calls with retries, and        *)
(* recorded as succeeded, dead-lettered or a skipped duplicate.            *)
(*                                                                         *)
(* Each await ends a step: the idempotency lookup, every saveJob, every    *)
(* adapter call, the backoff and markProcessedEvent.  saveJob is the write *)
(* of the job's record; the Redis lists it also updates, and the           *)
(* operators' endpoints that read them, are not part of this module.       *)
(***************************************************************************)
EXTENDS Naturals, Sequences

CONSTANTS
    Events,         \* event ids
    Topics,         \* subscribed topics, each with a loop of its own
    NoEvent,        \* the event of an idle loop
    TopicOf,        \* the topic an event is published on
    Invalid,        \* events that fail validateDomainEvent
    Unrecordable,   \* those with no clientId, and a null payload to take it from
    Steps,          \* adapter calls of a workflow
    MaxAttempts,    \* maxAttempts of the handler
    MaxArrivals,    \* messages received for each event (bounds the model)
    MaxRefusals,    \* adapter calls that fail (bounds the model)
    MaxFaults,      \* Redis calls that fail (bounds the model)
    MaxCrashes      \* restarts of the service (bounds the model)

ASSUME WorkflowAssumption ==
    /\ NoEvent \notin Events
    /\ TopicOf \in [Events -> Topics]
    /\ Invalid \subseteq Events /\ Unrecordable \subseteq Invalid
    /\ Steps \in Nat \ {0} /\ MaxAttempts \in Nat \ {0}
    /\ MaxRefusals \in Nat /\ MaxFaults \in Nat /\ MaxCrashes \in Nat

ASSUME ArrivalsAssumption == MaxArrivals \in [Events -> Nat]

VARIABLES
    inbox,      \* messages waiting in each topic's subscription
    loop,       \* the local state of the handler in each topic's loop
    remembered, \* idempotencyKeys, in the memory of the process
    processed,  \* idempotency keys in Redis
    job,        \* the status of each event's job record, as last saved
    arrivals,   \* messages received for each event
    effects,    \* times each adapter call of each event's workflow was made
    completed,  \* times each event's workflow ran to its end
    refusals,   \* adapter calls that failed
    faults,     \* Redis calls that failed
    crashes     \* restarts

vars == <<inbox, loop, remembered, processed, job, arrivals, effects,
          completed, refusals, faults, crashes>>

----------------------------------------------------------------------------
Statuses == {"none", "received", "processing", "succeeded", "failed",
             "dead-lettered", "skipped-duplicate"}

LoopState == [pc : {"idle",      \* waiting for a message
                    "rejected",  \* to be dead-lettered: it is not valid
                    "duplicate", \* to be recorded as skipped
                    "received", "attempting", "working", "completed",
                    "marking", "failing", "waiting", "abandoning"},
              event : Events \cup {NoEvent},
              attempt : Nat,
              step : Nat]        \* adapter calls made in this attempt

IdleLoop == [pc |-> "idle", event |-> NoEvent, attempt |-> 0, step |-> 0]

(* The handler counts attempts and calls, and goes on only to an attempt   *)
(* that it still has.                                                      *)
WellFormed(l) ==
    /\ l \in LoopState
    /\ l.pc # "idle" => l.event \in Events
    /\ l.attempt <= MaxAttempts /\ l.step <= Steps
    /\ l.pc = "working" => l.step < Steps
    /\ l.pc \in {"received", "waiting"} => l.attempt < MaxAttempts

TypeOK ==
    /\ inbox \in [Topics -> Seq(Events)]
    /\ loop \in [Topics -> LoopState]
    /\ \A t \in Topics : WellFormed(loop[t])
    /\ remembered \subseteq Events /\ processed \subseteq Events
    /\ job \in [Events -> Statuses]
    /\ arrivals \in [Events -> Nat]
    /\ effects \in [Events -> [1 .. Steps -> Nat]]
    /\ completed \in [Events -> Nat]
    /\ refusals \in 0 .. MaxRefusals
    /\ faults \in 0 .. MaxFaults
    /\ crashes \in 0 .. MaxCrashes

Init ==
    /\ inbox = [t \in Topics |-> <<>>]
    /\ loop = [t \in Topics |-> IdleLoop]
    /\ remembered = {} /\ processed = {}
    /\ job = [e \in Events |-> "none"]
    /\ arrivals = [e \in Events |-> 0]
    /\ effects = [e \in Events |-> [k \in 1 .. Steps |-> 0]]
    /\ completed = [e \in Events |-> 0]
    /\ refusals = 0 /\ faults = 0 /\ crashes = 0

----------------------------------------------------------------------------
(* The subscription.  A publisher may publish an event again.              *)

Arrive(e) ==
    /\ arrivals[e] < MaxArrivals[e]
    /\ arrivals' = [arrivals EXCEPT ![e] = @ + 1]
    /\ inbox' = [inbox EXCEPT ![TopicOf[e]] = Append(@, e)]
    /\ UNCHANGED <<loop, remembered, processed, job, effects, completed,
                   refusals, faults, crashes>>

----------------------------------------------------------------------------
(* Redis.  While the client is not connected a read answers null and a     *)
(* write is lost, both in silence; on a connection that breaks a call      *)
(* rejects, before or after Redis has done it.                             *)

At(t, pc) == loop[t].pc = pc
MovedTo(l, pc) == [l EXCEPT !.pc = pc]
Goto(t, pc) == loop' = [loop EXCEPT ![t] = MovedTo(@, pc)]
Finish(t) == loop' = [loop EXCEPT ![t] = IdleLoop]

Fault == faults < MaxFaults /\ faults' = faults + 1

(* The status upsertAuditRecord saves at each point of the handler.        *)
Saved == [rejected |-> "dead-lettered",
          duplicate |-> "skipped-duplicate",
          received |-> "received",
          attempting |-> "processing",
          completed |-> "succeeded",
          failing |-> "failed",
          abandoning |-> "dead-lettered"]

Write(t) == job' = [job EXCEPT ![loop[t].event] = Saved[loop[t].pc]]

(* upsertAuditRecord reads clientId from the event, or from its payload.   *)
Recordable(t) == loop[t].event \notin Unrecordable

Save(t) ==
    /\ Recordable(t)
    /\ \/ Write(t) /\ UNCHANGED faults
       \/ Fault /\ UNCHANGED job

SaveRejects(t) == Recordable(t) /\ Fault /\ (Write(t) \/ UNCHANGED job)

----------------------------------------------------------------------------
(* The handler.                                                            *)

(* Mutants: no lookup; only the memory of this process is asked.           *)
NeverKnown(e) == FALSE
RememberedOnly(e) == e \in remembered

Known(e) == e \in remembered \/ e \in processed

Checked(e, known) ==
    [pc |-> IF e \in Invalid THEN "rejected"
            ELSE IF known THEN "duplicate" ELSE "received",
     event |-> e, attempt |-> 0, step |-> 0]

(* The next message is validated and looked up, in memory and in Redis.    *)
Take(t) ==
    /\ At(t, "idle") /\ inbox[t] # <<>>
    /\ inbox' = [inbox EXCEPT ![t] = Tail(@)]
    /\ LET e == Head(inbox[t]) IN
         \/ /\ loop' = [loop EXCEPT ![t] = Checked(e, Known(e))]
            /\ UNCHANGED faults
         \/ /\ e \notin Invalid \cup remembered
            /\ Fault
            /\ loop' \in {[loop EXCEPT ![t] = Checked(e, FALSE)], loop}
    /\ UNCHANGED <<remembered, processed, job, arrivals, effects, completed,
                   refusals, crashes>>

(* The saves that end the handling of a message.                           *)
RecordEnd(t) ==
    /\ loop[t].pc \in {"rejected", "duplicate", "abandoning"}
    /\ Save(t)
    /\ Finish(t)
    /\ UNCHANGED <<inbox, remembered, processed, arrivals, effects,
                   completed, refusals, crashes>>

(* A null payload has no clientId to read: upsertAuditRecord throws before *)
(* it has saved anything, and the handler rejects.                         *)
RecordThrows(t) ==
    /\ At(t, "rejected")
    /\ ~Recordable(t)
    /\ Finish(t)
    /\ UNCHANGED <<inbox, remembered, processed, job, arrivals, effects,
                   completed, refusals, faults, crashes>>

NextAttempt(l) == [l EXCEPT !.attempt = @ + 1, !.pc = "attempting"]
FirstCall(l) == [l EXCEPT !.step = 0, !.pc = "working"]
NextCall(l) ==
    [l EXCEPT !.step = @ + 1,
              !.pc = IF l.step + 1 = Steps THEN "completed" ELSE "working"]

RecordReceived(t) ==
    /\ At(t, "received")
    /\ Save(t)
    /\ loop' = [loop EXCEPT ![t] = NextAttempt(@)]
    /\ UNCHANGED <<inbox, remembered, processed, arrivals, effects,
                   completed, refusals, crashes>>

(* performWorkflow starts from its first call.                             *)
StartAttempt(t) ==
    /\ At(t, "attempting")
    /\ Save(t)
    /\ loop' = [loop EXCEPT ![t] = FirstCall(@)]
    /\ UNCHANGED <<inbox, remembered, processed, arrivals, effects,
                   completed, refusals, crashes>>

CountEffect(e, k, done) ==
    effects' = IF done THEN [effects EXCEPT ![e][k] = @ + 1] ELSE effects

(* An adapter call that succeeds, and the one that ends the workflow.      *)
Perform(t) ==
    /\ At(t, "working")
    /\ LET e == loop[t].event
           k == loop[t].step + 1
       IN  /\ CountEffect(e, k, TRUE)
           /\ loop' = [loop EXCEPT ![t] = NextCall(@)]
           /\ completed' = IF k = Steps
                           THEN [completed EXCEPT ![e] = @ + 1] ELSE completed
    /\ UNCHANGED <<inbox, remembered, processed, job, arrivals, refusals,
                   faults, crashes>>

(* Mutant: the error of an adapter call is swallowed.                      *)
RefuseSwallowed(t, done) ==
    /\ At(t, "working")
    /\ refusals < MaxRefusals
    /\ refusals' = refusals + 1
    /\ CountEffect(loop[t].event, loop[t].step + 1, done)
    /\ Goto(t, "completed")
    /\ UNCHANGED <<inbox, remembered, processed, job, arrivals, completed,
                   faults, crashes>>

(* An adapter call that fails, before or after it had its effect.          *)
Refuse(t, done) ==
    /\ At(t, "working")
    /\ refusals < MaxRefusals
    /\ refusals' = refusals + 1
    /\ CountEffect(loop[t].event, loop[t].step + 1, done)
    /\ Goto(t, "failing")
    /\ UNCHANGED <<inbox, remembered, processed, job, arrivals, completed,
                   faults, crashes>>

(* The save of the success, and the key in the memory of the process.      *)
RecordSuccess(t) ==
    /\ At(t, "completed")
    /\ Save(t)
    /\ remembered' = remembered \cup {loop[t].event}
    /\ Goto(t, "marking")
    /\ UNCHANGED <<inbox, processed, arrivals, effects, completed, refusals,
                   crashes>>

(* markProcessedEvent: the key in Redis.                                   *)
MarkProcessed(t) ==
    /\ At(t, "marking")
    /\ \/ processed' = processed \cup {loop[t].event} /\ UNCHANGED faults
       \/ UNCHANGED processed /\ Fault
    /\ Finish(t)
    /\ UNCHANGED <<inbox, remembered, job, arrivals, effects, completed,
                   refusals, crashes>>

(* Both are inside the try block: when they reject, the attempt counts as  *)
(* failed although the workflow is done.                                   *)
SuccessRejects(t) ==
    /\ \/ At(t, "completed") /\ SaveRejects(t) /\ UNCHANGED processed
       \/ /\ At(t, "marking") /\ Fault /\ UNCHANGED job
          /\ processed' \in {processed, processed \cup {loop[t].event}}
    /\ Goto(t, "failing")
    /\ UNCHANGED <<inbox, remembered, arrivals, effects, completed, refusals,
                   crashes>>

(* Mutants: the attempts are not counted down; a failure is given up       *)
(* without its record.                                                     *)
AlwaysRetry(t) == TRUE
FinishUnrecorded(t) ==
    /\ At(t, "failing")
    /\ Save(t)
    /\ IF loop[t].attempt < MaxAttempts THEN Goto(t, "waiting") ELSE Finish(t)
    /\ UNCHANGED <<inbox, remembered, processed, arrivals, effects,
                   completed, refusals, crashes>>

AttemptsLeft(t) == loop[t].attempt < MaxAttempts

RecordFailure(t) ==
    /\ At(t, "failing")
    /\ Save(t)
    /\ Goto(t, IF AttemptsLeft(t) THEN "waiting" ELSE "abandoning")
    /\ UNCHANGED <<inbox, remembered, processed, arrivals, effects,
                   completed, refusals, crashes>>

BackoffElapses(t) ==
    /\ At(t, "waiting")
    /\ loop' = [loop EXCEPT ![t] = NextAttempt(@)]
    /\ UNCHANGED <<inbox, remembered, processed, job, arrivals, effects,
                   completed, refusals, faults, crashes>>

(* Any other save that rejects leaves the handler; the subscription logs   *)
(* the error and goes on with its next message.                            *)
HandlerRejects(t) ==
    /\ loop[t].pc \in {"rejected", "duplicate", "received", "attempting",
                       "failing", "abandoning"}
    /\ SaveRejects(t)
    /\ Finish(t)
    /\ UNCHANGED <<inbox, remembered, processed, arrivals, effects,
                   completed, refusals, crashes>>

(* A restart loses the messages received and the memory of the process.    *)
Crash ==
    /\ crashes < MaxCrashes
    /\ crashes' = crashes + 1
    /\ inbox' = [t \in Topics |-> <<>>]
    /\ loop' = [t \in Topics |-> IdleLoop]
    /\ remembered' = {}
    /\ UNCHANGED <<processed, job, arrivals, effects, completed, refusals,
                   faults>>

----------------------------------------------------------------------------
Handle(t) ==
    \/ Take(t)
    \/ RecordEnd(t)
    \/ RecordThrows(t)
    \/ RecordReceived(t)
    \/ StartAttempt(t)
    \/ Perform(t)
    \/ \E done \in BOOLEAN : Refuse(t, done)
    \/ RecordSuccess(t)
    \/ MarkProcessed(t)
    \/ SuccessRejects(t)
    \/ RecordFailure(t)
    \/ BackoffElapses(t)
    \/ HandlerRejects(t)

Next ==
    \/ \E e \in Events : Arrive(e)
    \/ \E t \in Topics : Handle(t)
    \/ Crash

Spec == Init /\ [][Next]_vars

(* Each loop goes on with its message for as long as the service runs: an  *)
(* adapter call ends (fetch gives up in the end) and so does a backoff.    *)
FairSpec == Spec /\ \A t \in Topics : WF_vars(Handle(t))

----------------------------------------------------------------------------
(* Safety.                                                                 *)

(* However often an event arrives, its workflow runs to the end once, and  *)
(* again only where Redis failed or the service stopped between the end of *)
(* the workflow and the mark (retries and redeliveries alone never repeat  *)
(* a completed workflow).                                                  *)
CompletedOnce == \A e \in Events : completed[e] <= 1 + faults + crashes

(* Once its key is in Redis an event's workflow never completes again,     *)
(* across restarts too, as long as Redis answers.                          *)
MarkedIsFinal ==
    [][\A e \in processed :
          completed'[e] > completed[e] => faults > 0]_vars

(* An adapter call is made at most maxAttempts times for each message.     *)
EffectsAreBounded ==
    \A e \in Events, k \in 1 .. Steps :
        effects[e][k] <= MaxAttempts * arrivals[e]

(* A job that shows as succeeded, or skipped as a duplicate, did run to    *)
(* its end, through every retry, restart and failed call.                  *)
SuccessIsReal ==
    \A e \in Events :
        job[e] \in {"succeeded", "skipped-duplicate"} => completed[e] > 0

(* While Redis works and the service stays up, a workflow that ran to its  *)
(* end is never shown as failed or dead-lettered, also after redeliveries. *)
CompletionIsRecorded ==
    faults = 0 /\ crashes = 0 =>
        \A e \in Events :
            completed[e] > 0 => job[e] \notin {"failed", "dead-lettered"}

(* Liveness: a message received is concluded, with a success, a dead       *)
(* letter or a skip on record, unless Redis fails or the service stops     *)
(* (Arrive is bounded: the last message for an event is one of them).  An  *)
(* invalid event that cannot be recorded is let go without a record, and   *)
(* holds up no other event of its topic.                                   *)
Concluded == {"succeeded", "dead-lettered", "skipped-duplicate"}

Waiting(e) == \E i \in DOMAIN inbox[TopicOf[e]] : inbox[TopicOf[e]][i] = e

LoopOf(e) == loop[TopicOf[e]]
Handling(e) == LoopOf(e).event = e /\ LoopOf(e).pc # "idle"

ReceivedIsConcluded ==
    \A e \in Events :
        Waiting(e) ~> \/ ~Waiting(e) /\ ~Handling(e)
                            /\ (job[e] \in Concluded \/ e \in Unrecordable)
                      \/ faults > 0
                      \/ crashes > 0

(* The service's README: idempotency on eventId is enforced to skip        *)
(* duplicate processing.                                                   *)
NeverCompletedTwice == \A e \in Events : completed[e] <= 1

----------------------------------------------------------------------------
(* The inductive strengthening of the safety properties.                   *)

(* A topic's messages and its handler are about events of that topic.      *)
TopicInv ==
    \A t \in Topics :
        /\ \A i \in DOMAIN inbox[t] : TopicOf[inbox[t][i]] = t
        /\ loop[t].pc # "idle" => TopicOf[loop[t].event] = t

(* The handler is at work on e, or has completed it and is about to        *)
(* record that.                                                            *)
MayComplete(e) ==
    /\ Handling(e)
    /\ LoopOf(e).pc \in {"received", "attempting", "working", "failing",
                         "waiting"}
MayRecord(e) == Handling(e) /\ LoopOf(e).pc \in {"completed", "marking"}

(* What an event's completions are owed to: one is its own; the others to  *)
(* failures of Redis and restarts.                                         *)
CompletionFor(e) ==
    /\ completed[e] <= 1 + faults + crashes
    /\ MayComplete(e) => completed[e] <= faults + crashes
    /\ MayComplete(e) /\ e \in processed => faults > 0
    /\ ~MayRecord(e) /\ ~Known(e) => completed[e] <= faults + crashes
    /\ Known(e) => completed[e] > 0
    /\ MayRecord(e) => completed[e] > 0
    /\ Handling(e) /\ LoopOf(e).pc = "duplicate" => completed[e] > 0

CompletionInv == \A e \in Events : CompletionFor(e)

IInv == TypeOK /\ TopicInv /\ CompletionInv /\ SuccessIsReal
=============================================================================
