------------------------------ MODULE Delivery ------------------------------
(***************************************************************************)
(* What is promised of a message, without the queue or the schedule behind *)
(* it: no workers, no attempts, no idempotency keys, no backoff, no list.  *)
(* A message is accepted once, is delivered a bounded number of times,     *)
(* shows as SENT only for a reason, and once concluded is reopened only by *)
(* a provider's report.  NotificationDelivery shows that NotificationQueue *)
(* implements it; ScheduledNotifications implements it too, for messages   *)
(* that may perish and without reports.                                    *)
(***************************************************************************)
EXTENDS Naturals

CONSTANTS
    Messages,   \* the messages that may be accepted
    Perishable, \* those that are kept for a limited time
    Senders     \* how many executions may be sending at once

VARIABLES
    status,      \* what the service says of each message
    inApp,       \* the messages shown in the application only
    delivered,   \* how often each message was handed to a provider
    told,        \* the messages a provider's report called delivered
    reports,     \* provider reports so far
    cuts         \* executions cut short and answers lost so far

vars == <<status, inApp, delivered, told, reports, cuts>>

Init ==
    /\ status = [m \in Messages |-> "NONE"]
    /\ inApp = {}
    /\ delivered = [m \in Messages |-> 0]
    /\ told = {}
    /\ reports = 0
    /\ cuts = 0

Accepted(m) == status[m] # "NONE"

Accept(m, portal) ==
    /\ ~Accepted(m)
    /\ status' = [status EXCEPT ![m] = "QUEUED"]
    /\ inApp' = IF portal THEN inApp \cup {m} ELSE inApp
    /\ UNCHANGED <<delivered, told, reports, cuts>>

(* Each report opens one round, in which every sender may deliver once; a  *)
(* sender cut short has nothing to show for its delivery.                  *)
Deliver(m) ==
    /\ Accepted(m)
    /\ delivered[m] < Senders * (reports + 1) + cuts
    /\ delivered' = [delivered EXCEPT ![m] = @ + 1]
    /\ UNCHANGED <<status, inApp, told, reports, cuts>>

(* A delivery whose answer is lost is not known to have happened, and so   *)
(* it is made up for by another one.                                       *)
DeliverUnheard(m) ==
    /\ Accepted(m)
    /\ delivered' = [delivered EXCEPT ![m] = @ + 1]
    /\ cuts' = cuts + 1
    /\ UNCHANGED <<status, inApp, told, reports>>

(* A reason to call a message sent.                                        *)
Reached(m) == delivered[m] > 0 \/ m \in inApp \/ m \in told

(* Senders do not wait for each other: the last one to conclude decides.   *)
Conclude(m, s) ==
    /\ Accepted(m)
    /\ s = "SENT" => Reached(m)
    /\ status' = [status EXCEPT ![m] = s]
    /\ UNCHANGED <<inApp, delivered, told, reports, cuts>>

Report(m, s) ==
    /\ Accepted(m)
    /\ status' = [status EXCEPT ![m] = s]
    /\ told' = IF s = "SENT" THEN told \cup {m} ELSE told
    /\ reports' = reports + 1
    /\ UNCHANGED <<inApp, delivered, cuts>>

Perish(m) ==
    /\ m \in Perishable
    /\ status[m] = "QUEUED"
    /\ status' = [status EXCEPT ![m] = "NONE"]
    /\ UNCHANGED <<inApp, delivered, told, reports, cuts>>

Cut ==
    /\ cuts' = cuts + 1
    /\ UNCHANGED <<status, inApp, delivered, told, reports>>

Next ==
    \/ \E m \in Messages, portal \in BOOLEAN : Accept(m, portal)
    \/ \E m \in Messages : Deliver(m) \/ DeliverUnheard(m) \/ Perish(m)
    \/ \E m \in Messages, s \in {"SENT", "FAILED"} : Conclude(m, s)
    \/ \E m \in Messages, s \in {"QUEUED", "SENT", "FAILED"} : Report(m, s)
    \/ Cut

Spec == Init /\ [][Next]_vars
=============================================================================
