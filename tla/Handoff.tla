------------------------------- MODULE Handoff -------------------------------
(***************************************************************************)
(* What the client and PayFast are promised of the payments of a project,  *)
(* without billing and core behind it: no requests in progress, no calls   *)
(* between services, no invoices.  A milestone is confirmed by a payment   *)
(* that was made, no more often than somebody asked for; a notice is       *)
(* answered when nothing about it is left to do; and the project is handed *)
(* over on its last milestone only.  ProjectPayments implements it.        *)
(***************************************************************************)
EXTENDS Naturals

CONSTANTS
    Payments,   \* the payments of the project
    Notices,    \* those PayFast notifies of
    PaidBy,     \* the payments that may be recorded for a notice
    StageOf     \* the stage a notice pays for

CoreStages == {"MILESTONE_30", "FINAL_20"}

VARIABLES
    completed,  \* the payments that were made
    owed,       \* how often each was asked to confirm a stage
    confirmed,  \* how often each did
    answered,   \* the notices that were answered
    excused,    \* notices whose confirmation failed or was corrected by hand
    project,    \* COMPLETED or OPEN
    unasked,    \* the project was completed by a route that does not ask
    issued      \* the final invoice was issued

vars == <<completed, owed, confirmed, answered, excused, project, unasked, issued>>
payments == <<completed, owed, confirmed, answered, excused>>

Init ==
    /\ completed = {} /\ answered = {} /\ excused = {}
    /\ owed = [p \in Payments |-> 0]
    /\ confirmed = [p \in Payments |-> [g \in CoreStages |-> 0]]
    /\ project \in {"OPEN", "COMPLETED"}
    /\ unasked = (project = "COMPLETED")
    /\ issued = FALSE

Owe(p) == owed' = [owed EXCEPT ![p] = @ + 1]

(* A payment is recorded as made.                                          *)
Pay(p) ==
    /\ completed' = completed \cup {p}
    /\ Owe(p) \/ UNCHANGED owed
    /\ UNCHANGED <<confirmed, answered, excused, project, unasked, issued>>

(* Somebody updates a payment, or asks for a stage to be confirmed.        *)
Correct(p) ==
    /\ completed' \in {completed, completed \cup {p}}
    /\ Owe(p) \/ UNCHANGED owed
    /\ excused' = excused \cup {n \in Notices : p \in PaidBy[n]}
    /\ UNCHANGED <<confirmed, answered, project, unasked, issued>>

Ask(p) ==
    /\ Owe(p)
    /\ UNCHANGED <<completed, confirmed, answered, excused, project, unasked, issued>>

Fail(n) ==
    /\ excused' = excused \cup {n}
    /\ UNCHANGED <<completed, owed, confirmed, answered, project, unasked, issued>>

Confirm(p, g) ==
    /\ p \in completed
    /\ confirmed[p]["MILESTONE_30"] + confirmed[p]["FINAL_20"] < owed[p]
    /\ confirmed' = [confirmed EXCEPT ![p][g] = @ + 1]
    /\ UNCHANGED <<completed, owed, answered, excused, project, unasked, issued>>

Answer(n) ==
    /\ \E p \in PaidBy[n] : p \in completed
    /\ StageOf[n] \in CoreStages =>
          n \in excused \/ \E p \in PaidBy[n] : confirmed[p][StageOf[n]] > 0
    /\ answered' = answered \cup {n}
    /\ UNCHANGED <<completed, owed, confirmed, excused, project, unasked, issued>>

----------------------------------------------------------------------------
LastStagePaid == \E p \in completed : confirmed[p]["FINAL_20"] > 0

SetStatus(target) ==
    /\ target = "COMPLETED" => LastStagePaid
    /\ project' = target /\ unasked' = FALSE
    /\ UNCHANGED <<payments, issued>>

ForceStatus(target) ==
    /\ project' = target /\ unasked' = (target = "COMPLETED")
    /\ UNCHANGED <<payments, issued>>

IssueFinal ==
    /\ LastStagePaid
    /\ issued' = TRUE
    /\ UNCHANGED <<payments, project, unasked>>

Next ==
    \/ \E p \in Payments : Pay(p) \/ Correct(p) \/ Ask(p)
    \/ \E p \in Payments, g \in CoreStages : Confirm(p, g)
    \/ \E n \in Notices : Fail(n) \/ Answer(n)
    \/ \E target \in {"OPEN", "COMPLETED"} : SetStatus(target) \/ ForceStatus(target)
    \/ IssueFinal

Spec == Init /\ [][Next]_vars
=============================================================================
