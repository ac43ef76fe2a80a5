--------------------------- MODULE ProjectPayments ---------------------------
(***************************************************************************)
(* The payments of a project, from billing to core:                        *)
(*   services/billing/src/routes/payfast.ts, payments.ts, invoices.ts      *)
(*   services/core/src/routes/projects.ts (payment milestones and status)  *)
(*                                                                         *)
(* PayFast notifies billing of a payment and repeats the notice until it   *)
(* is answered.  Billing records the payment, marks the invoice, and asks  *)
(* core to confirm the payment milestone; core reads the payments back     *)
(* from billing before it logs the milestone, and completes a project only *)
(* when its last milestone is logged.  Every await ends a step.            *)
(*                                                                         *)
(* Billing takes the stage from Invoice.projectId and Invoice.description  *)
(* (payfast.ts 184-191, payments.ts 232-241).  Its routes write neither    *)
(* column, so it calls core for invoices that got them in another way; of  *)
(* an invoice without them StageOf is "none".                              *)
(***************************************************************************)
EXTENDS Naturals

CONSTANTS
    Invoices,       \* the invoices of one project
    StageOf,        \* the stage an invoice is marked with, or "none"
    Notices,        \* payments PayFast notifies of
    InvoiceOf,      \* the invoice of a notice
    Slots,          \* requests handled at once
    MaxDeliveries,  \* deliveries of a notice (bounds the model)
    MaxPosted,      \* payments recorded by hand (bounds the model)
    MaxRequests,    \* other writes by hand (bounds the model)
    MaxFaults,      \* calls and answers that fail (bounds the model)
    None

Stages == {"DEPOSIT_50", "MILESTONE_30", "FINAL_20"}
CoreStages == {"MILESTONE_30", "FINAL_20"}  \* those the schema of core knows

ASSUME PaymentAssumption ==
    /\ StageOf \in [Invoices -> Stages \cup {"none"}]
    /\ InvoiceOf \in [Notices -> Invoices]
    /\ MaxDeliveries \in Nat
    /\ MaxPosted \in Nat
    /\ MaxRequests \in Nat
    /\ MaxFaults \in Nat
    /\ None \notin Notices /\ None \notin Invoices

VARIABLES
    invoice,     \* Invoice.status, PAID or not
    payment,     \* the payments, each named by what it was recorded for
    confirmed,   \* ProjectActivity: how often a payment confirmed a stage
    project,     \* Project.status, COMPLETED or not
    finalIssued, \* the FINAL-20 invoice exists (its number is unique)
    notice,      \* PayFast's side of a notice
    handler,     \* the request each slot handles
    history      \* what the properties compare with

vars == <<invoice, payment, confirmed, project, finalIssued,
          notice, handler, history>>

billing == <<invoice, payment>>
core == <<confirmed, project, finalIssued>>

----------------------------------------------------------------------------
\* A payment is recorded for a delivery of a notice, or by hand.
Payments == (Notices \X (1 .. MaxDeliveries)) \cup ({None} \X (1 .. MaxPosted))
NoticeOf(p) == p[1]

\* FAILED and REFUNDED are the same to this code as PENDING.
PaymentStatus == {"PENDING", "COMPLETED"}

\* OPEN is any other status of a project.
ProjectStatus == {"OPEN", "COMPLETED"}

PaymentRow == [status : PaymentStatus, invoice : Invoices \cup {None}]

NoPayment == [status |-> "PENDING", invoice |-> None]

Recorded == {p \in Payments : payment[p].invoice # None}

HandlerState ==
    [pc : {"idle", "pay", "mark", "answer", "write", "verify", "log",
           "check", "status", "bill"},
     notice : Notices \cup {None},      \* the notice that is handled
     payment : Payments \cup {None},
     read : PaymentStatus,              \* the status read before the update
     want : PaymentStatus \cup {"kept"},
     stage : Stages \cup {"none"},
     was : ProjectStatus,               \* of a change of the project:
     target : ProjectStatus]            \*   the status read, and the new one

IdleHandler == [pc |-> "idle", notice |-> None, payment |-> None,
                read |-> "PENDING", want |-> "kept", stage |-> "none",
                was |-> "OPEN", target |-> "OPEN"]

History ==
    [completed : SUBSET Payments,       \* payments that were ever COMPLETED
     owed : [Payments -> Nat],          \* reasons to confirm a payment
     touched : SUBSET Notices,          \* a payment of theirs was patched
     byHand : SUBSET Invoices,          \* set by hand since last marked PAID
     unasked : BOOLEAN,                 \* the project was completed unasked
     failed : SUBSET Notices,           \* their call to core failed
     posted : 0 .. MaxPosted,
     requests : 0 .. MaxRequests,
     faults : 0 .. MaxFaults]

TypeOK ==
    /\ invoice \in [Invoices -> {"open", "PAID"}]
    /\ payment \in [Payments -> PaymentRow]
    /\ confirmed \in [Payments -> [CoreStages -> Nat]]
    /\ project \in ProjectStatus
    /\ finalIssued \in BOOLEAN
    /\ notice \in [Notices -> [deliveries : 0 .. MaxDeliveries, answered : BOOLEAN]]
    /\ handler \in [Slots -> HandlerState]
    /\ history \in History

Init ==
    /\ invoice = [i \in Invoices |-> "open"]
    /\ payment = [p \in Payments |-> NoPayment]
    /\ confirmed = [p \in Payments |-> [g \in CoreStages |-> 0]]
    /\ project \in ProjectStatus
    /\ finalIssued = FALSE
    /\ notice = [n \in Notices |-> [deliveries |-> 0, answered |-> FALSE]]
    /\ handler = [s \in Slots |-> IdleHandler]
    /\ history = [completed |-> {}, owed |-> [p \in Payments |-> 0],
                  touched |-> {}, byHand |-> {},
                  unasked |-> project = "COMPLETED",
                  failed |-> {}, posted |-> 0, requests |-> 0, faults |-> 0]

At(s, pc) == handler[s].pc = pc
Goto(s, state) == handler' = [handler EXCEPT ![s] = state]
PaymentsOf(n) == {p \in Recorded : NoticeOf(p) = n}

----------------------------------------------------------------------------
(* POST /payfast/itn, for notices whose signature is valid and whose       *)
(* status is COMPLETE; others change nothing.                              *)

(* PayFast delivers a notice for as long as it was not answered.           *)
Deliver(s, n) ==
    /\ At(s, "idle")
    /\ ~notice[n].answered
    /\ notice[n].deliveries < MaxDeliveries
    /\ notice' = [notice EXCEPT ![n].deliveries = @ + 1]
    /\ Goto(s, [IdleHandler EXCEPT !.pc = "pay", !.notice = n,
                                   !.payment = <<n, notice[n].deliveries + 1>>,
                                   !.stage = StageOf[InvoiceOf[n]]])
    /\ UNCHANGED <<billing, core, history>>

(* Mutant: a status the enumeration does not have.                         *)
AddPaidPayment(p, i, status) ==
    payment' = [payment EXCEPT ![p] = [status |-> "PAID", invoice |-> i]]

AddPayment(p, i, status) ==
    payment' = [payment EXCEPT ![p] = [status |-> status, invoice |-> i]]

RecordPayment(s) ==
    /\ At(s, "pay")
    /\ LET p == handler[s].payment IN
         /\ AddPayment(p, InvoiceOf[handler[s].notice], "COMPLETED")
         /\ history' = [history EXCEPT !.completed = @ \cup {p},
                                       !.owed[p] = @ + 1]
    /\ Goto(s, [handler[s] EXCEPT !.pc = "mark"])
    /\ UNCHANGED <<invoice, core, notice>>

(* Mutant: a payment that was recorded is taken for an invoice marked.     *)
SkipMark(s) ==
    /\ At(s, "mark")
    /\ Goto(s, [handler[s] EXCEPT !.pc =
                  IF handler[s].stage = "none" THEN "answer" ELSE "verify"])
    /\ UNCHANGED <<billing, core, notice, history>>

(* Mutant: PayFast is answered before core is called, which never is.      *)
MarkAndAnswer(s) ==
    /\ At(s, "mark")
    /\ LET i == InvoiceOf[handler[s].notice] IN
         /\ invoice' = [invoice EXCEPT ![i] = "PAID"]
         /\ history' = [history EXCEPT !.byHand = @ \ {i}]
    /\ Goto(s, [handler[s] EXCEPT !.pc = "answer"])
    /\ UNCHANGED <<payment, core, notice>>

(* The invoice is marked, its cache entries are dropped, and core is       *)
(* called if the description of the invoice names a stage.                 *)
MarkPaid(s) ==
    /\ At(s, "mark")
    /\ LET i == InvoiceOf[handler[s].notice] IN
         /\ invoice' = [invoice EXCEPT ![i] = "PAID"]
         /\ history' = [history EXCEPT !.byHand = @ \ {i}]
    /\ Goto(s, [handler[s] EXCEPT !.pc =
                  IF handler[s].stage = "none" THEN "answer" ELSE "verify"])
    /\ UNCHANGED <<payment, core, notice>>

(* The event is published and PayFast gets its 200, or does not.           *)
Answer(s) ==
    /\ At(s, "answer")
    /\ notice' = [notice EXCEPT ![handler[s].notice].answered = TRUE]
    /\ Goto(s, IdleHandler)
    /\ UNCHANGED <<billing, core, history>>

----------------------------------------------------------------------------
(* POST /projects/:id/payment-milestones in core: the payments are read    *)
(* from billing, then the activity is logged.  Billing, when it made the   *)
(* call, goes on whatever the answer was.                                  *)

AfterCall(s) ==
    IF handler[s].notice = None THEN IdleHandler
                                ELSE [handler[s] EXCEPT !.pc = "answer"]

VerifyPayment(s) ==
    /\ At(s, "verify")
    /\ Goto(s, IF /\ handler[s].stage \in CoreStages
                  /\ payment[handler[s].payment].status = "COMPLETED"
               THEN [handler[s] EXCEPT !.pc = "log"]
               ELSE AfterCall(s))
    /\ UNCHANGED <<billing, core, notice, history>>

LogMilestone(s) ==
    /\ At(s, "log")
    /\ confirmed' =
         [confirmed EXCEPT ![handler[s].payment][handler[s].stage] = @ + 1]
    /\ Goto(s, AfterCall(s))
    /\ UNCHANGED <<billing, project, finalIssued, notice, history>>

(* Either service fails to reach the other, or core fails to log.          *)
CallFails(s) ==
    /\ At(s, "verify") \/ At(s, "log")
    /\ history.faults < MaxFaults
    /\ history' = [history EXCEPT !.faults = @ + 1,
                                  !.failed = @ \cup ({handler[s].notice} \ {None})]
    /\ Goto(s, AfterCall(s))
    /\ UNCHANGED <<billing, core, notice>>

----------------------------------------------------------------------------
(* Writes by hand.                                                         *)

Request == history.requests < MaxRequests

(* POST /payments: a payment of any status.  Neither the invoice nor a     *)
(* milestone follows.                                                      *)
PostPayment(i, status) ==
    /\ history.posted < MaxPosted
    /\ LET p == <<None, history.posted + 1>> IN
         /\ AddPayment(p, i, status)
         /\ history' = [history EXCEPT
              !.posted = @ + 1,
              !.completed = IF status = "COMPLETED" THEN @ \cup {p} ELSE @]
    /\ UNCHANGED <<invoice, core, notice, handler>>

(* PATCH /payments/:id: the payment is read, then updated; the receipt     *)
(* alone may be, which keeps the status.                                   *)
PatchReads(s, p, want) ==
    /\ At(s, "idle")
    /\ Request
    /\ history' = [history EXCEPT !.requests = @ + 1]
    /\ Goto(s, [IdleHandler EXCEPT !.pc = "write", !.payment = p,
                                   !.read = payment[p].status, !.want = want])
    /\ UNCHANGED <<billing, core, notice>>

(* Mutant: every update to COMPLETED is taken for a transition.            *)
NowCompleted(read, status) == status = "COMPLETED"

BecameCompleted(read, status) == status = "COMPLETED" /\ read # "COMPLETED"

PatchWrites(s) ==
    /\ At(s, "write")
    /\ LET p == handler[s].payment
           now == payment[p].status
           status == IF handler[s].want = "kept" THEN now ELSE handler[s].want
           stage == StageOf[payment[p].invoice]
           transition == status = "COMPLETED" /\ now # "COMPLETED"
           stale == handler[s].read # now
       IN /\ payment' = [payment EXCEPT ![p].status = status]
          /\ history' = [history EXCEPT
               !.touched = @ \cup ({NoticeOf(p)} \ {None}),
               !.completed = IF transition THEN @ \cup {p} ELSE @,
               !.owed[p] = IF transition \/ stale THEN @ + 1 ELSE @]
          /\ Goto(s, IF BecameCompleted(handler[s].read, status) /\ stage # "none"
                     THEN [handler[s] EXCEPT !.pc = "verify", !.stage = stage]
                     ELSE IdleHandler)
    /\ UNCHANGED <<invoice, core, notice>>

(* PATCH /invoices/:id writes any status over any other.                   *)
PatchInvoice(i, status) ==
    /\ Request
    /\ invoice' = [invoice EXCEPT ![i] = status]
    /\ history' = [history EXCEPT !.requests = @ + 1,
                                  !.byHand = @ \cup {i}]
    /\ UNCHANGED <<payment, core, notice, handler>>

(* An admin or staff member confirms a stage with a payment of the client. *)
ConfirmByHand(s, p, stage) ==
    /\ At(s, "idle")
    /\ Request
    /\ history' = [history EXCEPT !.requests = @ + 1, !.owed[p] = @ + 1]
    /\ Goto(s, [IdleHandler EXCEPT !.pc = "verify", !.payment = p,
                                   !.stage = stage])
    /\ UNCHANGED <<billing, core, notice>>

----------------------------------------------------------------------------
(* The status of the project.                                              *)

FinalConfirmed == \E p \in Payments : confirmed[p]["FINAL_20"] > 0

(* Mutant: the last milestone is not asked for.                            *)
AnyStatus(target) == target \in ProjectStatus

StatusAllowed(target) == target = "COMPLETED" => FinalConfirmed

(* PATCH /projects/:id/status: the project is read, then its activities    *)
(* if it is to be COMPLETED; then the status is written and, when the      *)
(* project was not COMPLETED, billing is asked to issue the final invoice. *)
StatusReads(s, target) ==
    /\ At(s, "idle")
    /\ Goto(s, [IdleHandler EXCEPT !.pc = "check", !.was = project,
                                   !.target = target])
    /\ UNCHANGED <<billing, core, notice, history>>

StatusChecks(s) ==
    /\ At(s, "check")
    /\ Goto(s, IF StatusAllowed(handler[s].target)
               THEN [handler[s] EXCEPT !.pc = "status"] ELSE IdleHandler)
    /\ UNCHANGED <<billing, core, notice, history>>

StatusWrites(s) ==
    /\ At(s, "status")
    /\ LET target == handler[s].target IN
         /\ project' = target
         /\ Goto(s, IF target = "COMPLETED" /\ handler[s].was # "COMPLETED"
                    THEN [handler[s] EXCEPT !.pc = "bill"] ELSE IdleHandler)
    /\ history' = [history EXCEPT !.unasked = FALSE]
    /\ UNCHANGED <<billing, confirmed, finalIssued, notice>>

(* A number that exists already is refused, which changes nothing.         *)
IssueFinal(s) ==
    /\ At(s, "bill")
    /\ finalIssued' = TRUE
    /\ Goto(s, IdleHandler)
    /\ UNCHANGED <<billing, confirmed, project, notice, history>>

(* POST /projects/bulk-status writes any status and asks for no milestone; *)
(* POST /projects/:id/request-decision writes IN_PROGRESS or CANCELLED.    *)
BulkStatus(target) ==
    /\ project' = target
    /\ history' = [history EXCEPT !.unasked = (target = "COMPLETED")]
    /\ UNCHANGED <<billing, confirmed, finalIssued, notice, handler>>

(* A query rejects or a process dies: the request is dropped, or billing   *)
(* drops it while core goes on with the call it was made.                  *)
Abort(s) ==
    /\ ~At(s, "idle")
    /\ history.faults < MaxFaults
    /\ history' = [history EXCEPT !.faults = @ + 1]
    /\ \/ Goto(s, IdleHandler)
       \/ /\ At(s, "verify") \/ At(s, "log")
          /\ Goto(s, [handler[s] EXCEPT !.notice = None])
    /\ UNCHANGED <<billing, core, notice>>

----------------------------------------------------------------------------
Notify(s) == \E n \in Notices : Deliver(s, n)

Process(s) ==
    \/ RecordPayment(s) \/ MarkPaid(s) \/ Answer(s)
    \/ VerifyPayment(s) \/ LogMilestone(s)
    \/ PatchWrites(s) \/ StatusChecks(s) \/ StatusWrites(s) \/ IssueFinal(s)

ByHand ==
    \/ \E i \in Invoices : \/ \E status \in PaymentStatus : PostPayment(i, status)
                           \/ \E status \in {"open", "PAID"} : PatchInvoice(i, status)
    \/ \E s \in Slots, p \in Recorded :
          \/ \E want \in PaymentStatus \cup {"kept"} : PatchReads(s, p, want)
          \/ \E stage \in CoreStages : ConfirmByHand(s, p, stage)
    \/ \E target \in ProjectStatus :
          \/ \E s \in Slots : StatusReads(s, target)
          \/ BulkStatus(target)

Next ==
    \/ \E s \in Slots : Notify(s) \/ Process(s) \/ CallFails(s) \/ Abort(s)
    \/ ByHand

Spec == Init /\ [][Next]_vars

----------------------------------------------------------------------------
(* Safety.                                                                 *)

(* A notice that was answered with 200 is recorded: as a payment, and on   *)
(* the invoice, which is PAID unless somebody has set it by hand since     *)
(* (the order of the writes in payfast.ts).                                *)
AnsweredIsRecorded ==
    \A n \in Notices :
        notice[n].answered =>
            /\ PaymentsOf(n) # {}
            /\ invoice[InvoiceOf[n]] = "PAID" \/ InvoiceOf[n] \in history.byHand

(* The milestone of a notice that was answered is confirmed, unless the    *)
(* call to core failed or the payment was updated by hand before core      *)
(* looked at it: a delivery that is cut short is repeated from the start.  *)
ConfirmedBy(n) ==
    \E p \in PaymentsOf(n) : confirmed[p][StageOf[InvoiceOf[n]]] > 0

AnsweredIsConfirmed ==
    \A n \in Notices :
        notice[n].answered /\ StageOf[InvoiceOf[n]] \in CoreStages =>
            ConfirmedBy(n) \/ n \in history.failed \/ n \in history.touched

(* A payment confirms milestones no more often than it became COMPLETED,   *)
(* somebody asked for it by hand, or an update of it was decided with a    *)
(* status that was out of date (PATCH /payments/:id).                      *)
Confirmations(p) == confirmed[p]["MILESTONE_30"] + confirmed[p]["FINAL_20"]
ConfirmationsAreOwed == \A p \in Payments : Confirmations(p) <= history.owed[p]

(* A project made COMPLETED by PATCH /projects/:id/status, and one whose   *)
(* final invoice was issued, has its last milestone confirmed by a payment *)
(* that was COMPLETED: billing said so to core before core wrote either.   *)
HandoffWasPaid ==
    (project = "COMPLETED" /\ ~history.unasked) \/ finalIssued =>
        \E p \in history.completed : confirmed[p]["FINAL_20"] > 0
----------------------------------------------------------------------------
(* The promise: what is left when the requests and the invoices are hidden.*)
Agreed == INSTANCE Handoff WITH
    PaidBy    <- [n \in Notices |-> {p \in Payments : NoticeOf(p) = n}],
    StageOf   <- [n \in Notices |-> StageOf[InvoiceOf[n]]],
    completed <- history.completed,
    owed      <- history.owed,
    answered  <- {n \in Notices : notice[n].answered},
    excused   <- history.failed \cup history.touched,
    unasked   <- history.unasked,
    issued    <- finalIssued

(* However deliveries, updates by hand and status changes interleave, and  *)
(* wherever they are cut short, what PayFast and the client see is a       *)
(* handoff: confirmations that are owed and paid for, answers that leave   *)
(* nothing undone, and a completion that follows the last milestone.       *)
HandsOverAsAgreed == Agreed!Spec
=============================================================================
