------------------------ MODULE NotificationDelivery ------------------------
(***************************************************************************)
(* NotificationQueue implements Delivery: the job table is the status of   *)
(* each message, a message that a provider takes is a delivery, whether or *)
(* not the queue hears of it, and workers, attempts, backoff, dead letters *)
(* and callers that lose a race are not seen from outside.                 *)
(***************************************************************************)
EXTENDS NotificationQueue

StatusOf == [j \in Jobs |-> row[j].status]
InApp == {j \in Jobs : Exists(j) /\ Kind(j) = "portal"}

Promised == INSTANCE Delivery WITH
    Messages   <- Jobs,
    Perishable <- {},
    Senders    <- Cardinality(Workers),
    status     <- StatusOf,
    inApp      <- InApp,
    told       <- confirmed,
    reports    <- callbacks,
    cuts       <- aborts + lost

(* Every behaviour of the queue, with its overlapping ticks, callbacks and *)
(* executions cut short, is a behaviour of the promise: whatever           *)
(* processNextJob interleaves with, the caller of enqueueJob sees messages *)
(* accepted once, delivered within the rounds that reports open and once   *)
(* more for each execution cut short or answer lost, SENT for a reason and *)
(* reopened by reports only.                                               *)
DeliversAsPromised == Promised!Spec
=============================================================================
