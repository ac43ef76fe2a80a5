--------------------------- MODULE InvoiceReminders ---------------------------
(***************************************************************************)
(* Reminders of a client's unpaid invoices:                                *)
(*   services/billing/src/lib/invoice-reminders.ts, index.ts               *)
(*   services/billing/src/routes/invoice-reminders.ts                      *)
(*                                                                         *)
(* A sweep starts every few minutes, whether or not the last one is done.  *)
(* For every invoice in its window it claims each channel, in a table with *)
(* a unique key, and asks the notifications service for a job.  Every      *)
(* await ends a step.  Time passes in days; all invoices are due at the    *)
(* same hour.  Reminders by hand claim nothing and leave no trace here.    *)
(***************************************************************************)
EXTENDS Integers, FiniteSets

CONSTANTS
    Invoices,       \* invoices of the client that have a date
    DueAt,          \* Invoice.dueAt, which no route changes
    Channels,       \* email, sms and portal
    Portal,         \* the channel that always has a recipient
    Intervals,      \* intervalDays a client may choose
    Workers,        \* sweeps that run at once
    MaxDay,         \* the last day (bounds the model)
    MaxChanges,     \* changes of preference, contacts and invoices (bound)
    MaxFaults,      \* calls that fail, and restarts (bounds the model)
    None

ASSUME ReminderAssumption ==
    /\ DueAt \in [Invoices -> Nat]
    /\ Portal \in Channels
    /\ Intervals \subseteq Nat
    /\ MaxDay \in Nat /\ MaxChanges \in Nat /\ MaxFaults \in Nat
    /\ None \notin Invoices /\ None \notin Channels

VARIABLES
    day,         \* today
    open,        \* invoices that are ISSUED or OVERDUE
    preference,  \* InvoiceReminderPreference of the client
    recipients,  \* channels core knows a recipient for
    claimed,     \* InvoiceReminderDispatch: the keys that are taken
    queued,      \* jobs enqueued for a key
    worker,      \* what each sweep is doing
    lost,        \* keys whose claim or call failed, or was cut short
    spent        \* what of the bounds is used up

vars == <<day, open, preference, recipients, claimed, queued,
          worker, lost, spent>>

inputs == <<day, open, preference, recipients>>
jobs == <<claimed, queued, lost>>

----------------------------------------------------------------------------
\* dispatchKey; the date it ends with is that of the invoice.
Keys == Invoices \X Intervals \X Channels

Preference == [enabled : BOOLEAN, interval : Intervals,
               channels : SUBSET Channels \ {{}}]

NoPreference == [enabled |-> FALSE, interval |-> None, channels |-> {}]

WorkerState ==
    [pc : {"idle", "client", "invoices", "next", "channel", "call"},
     day : 0 .. MaxDay,                 \* now, read once per sweep
     interval : Intervals \cup {None},
     channels : SUBSET Channels,        \* those asked for
     todo : SUBSET Invoices,            \* invoices that are left
     invoice : Invoices \cup {None},
     left : SUBSET Channels,            \* channels of the invoice that are left
     channel : Channels \cup {None}]

IdleWorker == [pc |-> "idle", day |-> 0, interval |-> None, channels |-> {},
               todo |-> {}, invoice |-> None, left |-> {}, channel |-> None]

TypeOK ==
    /\ day \in 0 .. MaxDay
    /\ open \subseteq Invoices
    /\ preference \in Preference \cup {NoPreference}
    /\ recipients \subseteq Channels
    /\ claimed \subseteq Keys
    /\ queued \in [Keys -> Nat]
    /\ worker \in [Workers -> WorkerState]
    /\ lost \subseteq Keys
    /\ spent \in [changes : 0 .. MaxChanges, faults : 0 .. MaxFaults]

At(w, pc) == worker[w].pc = pc
Goto(w, state) == worker' = [worker EXCEPT ![w] = state]

Init ==
    /\ day = 0
    /\ open \in SUBSET Invoices
    /\ preference = NoPreference
    /\ recipients \in {r \in SUBSET Channels : Portal \in r}
    /\ claimed = {} /\ lost = {}
    /\ queued = [k \in Keys |-> 0]
    /\ worker = [w \in Workers |-> IdleWorker]
    /\ spent = [changes |-> 0, faults |-> 0]

----------------------------------------------------------------------------
(* shouldTriggerScheduledReminder: from some days before the invoice is    *)
(* due until it is, or the day that follows.                               *)
InWindow(i, interval, now) ==
    IF interval = 0 THEN now = DueAt[i]
                    ELSE now >= DueAt[i] - interval /\ now < DueAt[i]

(* dispatchScheduledInvoiceReminders reads the preferences, and the time.  *)
SweepStarts(w) ==
    /\ At(w, "idle")
    /\ preference.enabled
    /\ Goto(w, [IdleWorker EXCEPT !.pc = "client", !.day = day,
                               !.interval = preference.interval,
                               !.channels = preference.channels])
    /\ UNCHANGED <<inputs, jobs, spent>>

(* Without a preference that is enabled the sweep returns.                 *)
SweepFindsNone(w) ==
    /\ At(w, "idle")
    /\ ~preference.enabled
    /\ UNCHANGED vars

(* The contacts are read from core: channels without one are passed over.  *)
ReadClient(w) ==
    /\ At(w, "client")
    /\ Goto(w, [worker[w] EXCEPT !.pc = "invoices",
                                 !.channels = @ \cap recipients])
    /\ UNCHANGED <<inputs, jobs, spent>>

ReadInvoices(w) ==
    /\ At(w, "invoices")
    /\ LET h == worker[w] IN
         Goto(w, [h EXCEPT !.pc = "next",
                           !.todo = {i \in open : InWindow(i, h.interval, h.day)}])
    /\ UNCHANGED <<inputs, jobs, spent>>

(* The next invoice, by date, or the end.                                  *)
NextInvoice(w, i) ==
    /\ At(w, "next")
    /\ i \in worker[w].todo
    /\ \A j \in worker[w].todo : DueAt[i] <= DueAt[j]
    /\ Goto(w, [worker[w] EXCEPT !.pc = "channel", !.invoice = i,
                                 !.todo = @ \ {i}, !.left = worker[w].channels])
    /\ UNCHANGED <<inputs, jobs, spent>>

Finish(w) ==
    /\ At(w, "next")
    /\ worker[w].todo = {}
    /\ Goto(w, IdleWorker)
    /\ UNCHANGED <<inputs, jobs, spent>>

----------------------------------------------------------------------------
(* sendReminderForInvoice: channel by channel, in the order they were      *)
(* given in.                                                               *)

(* Mutant: the parts of the key in another order.                          *)
SwappedKey(w, c) == <<worker[w].invoice, c, worker[w].interval>>

KeyOf(w, c) == <<worker[w].invoice, worker[w].interval, c>>
CallOf(w, c) == [worker[w] EXCEPT !.pc = "call", !.channel = c, !.left = @ \ {c}]

(* Mutant: a key that is taken ends the invoice, not the channel.          *)
ClaimOrStop(w, c) ==
    /\ claimed' = claimed \cup {KeyOf(w, c)}
    /\ Goto(w, IF KeyOf(w, c) \in claimed
               THEN [worker[w] EXCEPT !.pc = "next", !.left = {}]
               ELSE CallOf(w, c))

(* Mutant: a key that is taken is not passed over.                         *)
ClaimAnyway(w, c) ==
    /\ claimed' = claimed \cup {KeyOf(w, c)}
    /\ Goto(w, CallOf(w, c))

(* Mutant: all channels of the invoice are claimed before the first call.  *)
ClaimAll(w, c) ==
    /\ claimed' = claimed \cup {KeyOf(w, k) : k \in worker[w].left}
    /\ Goto(w, IF KeyOf(w, c) \in claimed
               THEN [worker[w] EXCEPT !.left = @ \ {c}] ELSE CallOf(w, c))

(* The insertion does nothing on a key that is taken.                      *)
Claim(w, c) ==
    /\ claimed' = claimed \cup {KeyOf(w, c)}
    /\ Goto(w, IF KeyOf(w, c) \in claimed
               THEN [worker[w] EXCEPT !.left = @ \ {c}] ELSE CallOf(w, c))

NextChannel(w, c) ==
    /\ At(w, "channel")
    /\ c \in worker[w].left
    /\ Claim(w, c)
    /\ UNCHANGED <<inputs, queued, lost, spent>>

InvoiceDone(w) ==
    /\ At(w, "channel")
    /\ worker[w].left = {}
    /\ Goto(w, [worker[w] EXCEPT !.pc = "next", !.invoice = None])
    /\ UNCHANGED <<inputs, jobs, spent>>

JobQueued(w) ==
    queued' = [queued EXCEPT ![KeyOf(w, worker[w].channel)] = @ + 1]

(* enqueueNotificationJob.                                                 *)
Call(w) ==
    /\ At(w, "call")
    /\ JobQueued(w)
    /\ Goto(w, [worker[w] EXCEPT !.pc = "channel", !.channel = None])
    /\ UNCHANGED <<inputs, claimed, lost, spent>>

----------------------------------------------------------------------------
(* Failures.                                                               *)

Fault == spent.faults < MaxFaults /\ spent' = [spent EXCEPT !.faults = @ + 1]

(* The keys whose job a worker is about to ask for.                        *)
Held(w) == IF At(w, "call") THEN {KeyOf(w, worker[w].channel)} ELSE {}

(* What throws for one channel leaves the channels of the invoice that are *)
(* left: the sweep goes on with the next invoice.                          *)
Abandoned(w) == [worker[w] EXCEPT !.pc = "next", !.left = {}, !.invoice = None,
                                  !.channel = None]

(* The claim itself rejects: the row is there, or it is not, and nobody    *)
(* asks for its job.                                                       *)
ClaimFails(w, c) ==
    /\ At(w, "channel")
    /\ c \in worker[w].left
    /\ Fault
    /\ \/ UNCHANGED <<claimed, lost>>
       \/ /\ KeyOf(w, c) \notin claimed
          /\ claimed' = claimed \cup {KeyOf(w, c)}
          /\ lost' = lost \cup {KeyOf(w, c)}
    /\ Goto(w, Abandoned(w))
    /\ UNCHANGED <<inputs, queued>>

(* The call fails, or its answer is lost.                                  *)
CallFails(w) ==
    /\ At(w, "call")
    /\ Fault
    /\ JobQueued(w) \/ UNCHANGED queued
    /\ lost' = lost \cup Held(w)
    /\ Goto(w, Abandoned(w))
    /\ UNCHANGED <<inputs, claimed>>

(* Core answers without the client, which is passed over.                  *)
ClientFails(w) ==
    /\ At(w, "client")
    /\ Fault
    /\ Goto(w, IdleWorker)
    /\ UNCHANGED <<inputs, jobs>>

(* The process stops, with all that runs: nobody catches what a sweep      *)
(* throws outside of an invoice.                                           *)
Stop ==
    /\ Fault
    /\ worker' = [w \in Workers |-> IdleWorker]
    /\ lost' = lost \cup UNION {Held(w) : w \in Workers}
    /\ UNCHANGED <<inputs, claimed, queued>>

----------------------------------------------------------------------------
(* Around the reminders.                                                   *)

Tick ==
    /\ day < MaxDay
    /\ day' = day + 1
    /\ UNCHANGED <<open, preference, recipients, jobs, worker, spent>>

Change == spent.changes < MaxChanges /\ spent' = [spent EXCEPT !.changes = @ + 1]

(* POST /invoice-reminders/preferences: upsertInvoiceReminderPreference.   *)
Prefer(p) ==
    /\ Change
    /\ preference' = p
    /\ UNCHANGED <<day, open, recipients, jobs, worker>>

(* Issued, paid, voided or reopened (payfast.ts, invoices.ts).             *)
InvoiceChanges(i) ==
    /\ Change
    /\ open' = IF i \in open THEN open \ {i} ELSE open \cup {i}
    /\ UNCHANGED <<day, preference, recipients, jobs, worker>>

ContactChanges(c) ==
    /\ Change
    /\ c # Portal
    /\ recipients' = IF c \in recipients THEN recipients \ {c} ELSE recipients \cup {c}
    /\ UNCHANGED <<day, open, preference, jobs, worker>>

----------------------------------------------------------------------------
Process(w) ==
    \/ ReadClient(w) \/ ReadInvoices(w) \/ Finish(w) \/ InvoiceDone(w) \/ Call(w)
    \/ \E i \in Invoices : NextInvoice(w, i)
    \/ \E c \in Channels : NextChannel(w, c)

Next ==
    \/ \E w \in Workers :
          \/ SweepStarts(w) \/ SweepFindsNone(w) \/ Process(w)
          \/ CallFails(w) \/ ClientFails(w)
          \/ \E c \in Channels : ClaimFails(w, c)
    \/ Stop \/ Tick
    \/ \E p \in Preference : Prefer(p)
    \/ \E i \in Invoices : InvoiceChanges(i)
    \/ \E c \in Channels : ContactChanges(c)

Spec == Init /\ [][Next]_vars

(* setInterval starts sweeps for ever, and every call is answered or       *)
(* fails.                                                                  *)
Fairness ==
    /\ WF_vars(\E w \in Workers : SweepStarts(w))
    /\ \A w \in Workers : WF_vars(Process(w))

FairSpec == Spec /\ Fairness

----------------------------------------------------------------------------
(* Safety.                                                                 *)

(* An invoice has one scheduled reminder per interval and channel, however *)
(* many sweeps overlap, fail or start over (claimDispatch).                *)
OneReminderPerKey ==
    \A k \in Keys : queued[k] <= 1 /\ (queued[k] = 1 => k \in claimed)

(* A key is claimed for good, so it is either enqueued, or about to be, or *)
(* its own claim or call failed or was cut short: no failure of another    *)
(* key, and nothing that sweeps do to each other, loses a reminder.        *)
ClaimsAreKept ==
    \A k \in claimed :
        queued[k] = 1 \/ k \in lost \/ \E w \in Workers : k \in Held(w)

----------------------------------------------------------------------------
(* Liveness.                                                               *)

Wanted(i, c) ==
    /\ preference.enabled
    /\ c \in preference.channels \cap recipients
    /\ i \in open /\ InWindow(i, preference.interval, day)

(* A reminder that is wanted for long enough is claimed, even when the     *)
(* channels before it fail: each of them is claimed before it is tried.    *)
DueIsClaimed ==
    \A i \in Invoices, d \in Intervals, c \in Channels :
        Wanted(i, c) /\ preference.interval = d
            ~> <<i, d, c>> \in claimed \/ ~(Wanted(i, c) /\ preference.interval = d)
=============================================================================
