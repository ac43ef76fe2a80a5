------------------------ MODULE InvoiceRemindersProofs ------------------------
(* Proofs about InvoiceReminders.  The inductive invariant says that a key *)
(* whose job a sweep is about to ask for was claimed by that sweep alone,  *)
(* and has no job yet.                                                     *)
EXTENDS InvoiceReminders, TLAPS

USE ReminderAssumption

----------------------------------------------------------------------------
WorkerOK(w) ==
    LET h == worker[w] IN
    /\ h.pc # "idle" => h.interval \in Intervals
    /\ h.pc \in {"channel", "call"} => h.invoice \in Invoices
    /\ h.pc = "call" => h.channel \in Channels

HeldKey(w) == KeyOf(w, worker[w].channel)

(* What a sweep holds is claimed, by nobody else, and has no job.          *)
HoldersOK ==
    /\ \A w \in Workers : At(w, "call") =>
          HeldKey(w) \in claimed /\ queued[HeldKey(w)] = 0
    /\ \A v, w \in Workers :
          At(v, "call") /\ At(w, "call") /\ HeldKey(v) = HeldKey(w) => v = w

IInv ==
    /\ TypeOK
    /\ \A w \in Workers : WorkerOK(w)
    /\ preference.enabled => preference \in Preference
    /\ HoldersOK
    /\ OneReminderPerKey
    /\ ClaimsAreKept

(* A key is one of the table.                                              *)
LEMMA HeldIsKey ==
    ASSUME IInv, NEW w \in Workers, At(w, "call")
    PROVE  HeldKey(w) \in Keys /\ worker[w].channel \in Channels
BY DEF IInv, WorkerOK, At, HeldKey, KeyOf, Keys

LEMMA IdleIsTyped == IdleWorker \in WorkerState
BY DEF IdleWorker, WorkerState

----------------------------------------------------------------------------
(* Steps in which one sweep moves on and holds nothing, before or after.   *)
LEMMA QuietStep ==
    ASSUME IInv, NEW w \in Workers, NEW new \in WorkerState, Goto(w, new),
           ~At(w, "call"), new.pc # "call", WorkerOK(w)',
           UNCHANGED <<inputs, jobs>>,
           spent' \in [changes : 0 .. MaxChanges, faults : 0 .. MaxFaults]
    PROVE  IInv'
<1>1. worker' = [worker EXCEPT ![w] = new] /\ worker \in [Workers -> WorkerState]
  BY DEF Goto, IInv, TypeOK
<1>2. TypeOK'
  BY <1>1 DEF IInv, TypeOK, inputs, jobs
<1>3. /\ worker'[w] = new /\ \A v \in Workers : v # w => worker'[v] = worker[v]
  BY <1>1
<1>4. \A v \in Workers : WorkerOK(v)'
  BY <1>3 DEF IInv, WorkerOK
<1>5. \A v \in Workers : /\ At(v, "call")' <=> At(v, "call")
                         /\ At(v, "call") => HeldKey(v)' = HeldKey(v)
  BY <1>3 DEF At, HeldKey, KeyOf
<1>6. HoldersOK'
  BY <1>5 DEF IInv, HoldersOK, jobs
<1>7. OneReminderPerKey' /\ ClaimsAreKept'
  <2>1. \A v \in Workers : Held(v)' = Held(v)
    BY <1>5 DEF Held, HeldKey
  <2> QED
    BY <2>1 DEF IInv, OneReminderPerKey, ClaimsAreKept, jobs
<1> QED
  BY <1>2, <1>4, <1>6, <1>7 DEF IInv, inputs

LEMMA ReadsKeep ==
    ASSUME IInv, NEW w \in Workers
    PROVE  /\ SweepStarts(w) => IInv'
           /\ ReadClient(w) => IInv'
           /\ ReadInvoices(w) => IInv'
           /\ \A i \in Invoices : NextInvoice(w, i) => IInv'
           /\ Finish(w) => IInv'
           /\ InvoiceDone(w) => IInv'
           /\ ClientFails(w) => IInv'
<1> DEFINE h == worker[w]
<1>1. h \in WorkerState /\ WorkerOK(w) /\ worker \in [Workers -> WorkerState]
  BY DEF IInv, TypeOK
<1>2. spent \in [changes : 0 .. MaxChanges, faults : 0 .. MaxFaults]
  BY DEF IInv, TypeOK
<1>3. ASSUME SweepStarts(w)
      PROVE  IInv'
  <2> DEFINE new == [IdleWorker EXCEPT !.pc = "client", !.day = day,
                               !.interval = preference.interval,
                               !.channels = preference.channels]
  <2>1. preference \in Preference /\ day \in 0 .. MaxDay
    BY <1>3 DEF IInv, TypeOK, SweepStarts
  <2>2. new \in WorkerState /\ new.pc = "client" /\ new.interval \in Intervals
    BY <2>1, IdleIsTyped DEF IdleWorker, WorkerState, Preference
  <2>3. Goto(w, new) /\ worker'[w] = new
    BY <1>1, <1>3 DEF SweepStarts, Goto
  <2> HIDE DEF new
  <2>4. WorkerOK(w)'
    BY <2>2, <2>3 DEF WorkerOK
  <2> QED
    BY <1>2, <1>3, <2>2, <2>3, <2>4, QuietStep DEF SweepStarts, At
<1>4. ASSUME ReadClient(w)
      PROVE  IInv'
  <2> DEFINE new == [h EXCEPT !.pc = "invoices", !.channels = @ \cap recipients]
  <2>1. /\ new \in WorkerState /\ new.pc = "invoices" /\ new.interval = h.interval
    BY <1>1 DEF WorkerState
  <2>2. Goto(w, new) /\ worker'[w] = new
    BY <1>1, <1>4 DEF ReadClient, Goto
  <2> HIDE DEF new
  <2>3. WorkerOK(w)'
    BY <1>1, <1>4, <2>1, <2>2 DEF WorkerOK, ReadClient, At
  <2> QED
    BY <1>2, <1>4, <2>1, <2>2, <2>3, QuietStep DEF ReadClient, At
<1>5. ASSUME ReadInvoices(w)
      PROVE  IInv'
  <2> DEFINE new == [h EXCEPT !.pc = "next",
                      !.todo = {i \in open : InWindow(i, h.interval, h.day)}]
  <2>1. open \subseteq Invoices
    BY DEF IInv, TypeOK
  <2>2. /\ new \in WorkerState /\ new.pc = "next" /\ new.interval = h.interval
    BY <1>1, <2>1 DEF WorkerState
  <2>3. Goto(w, new) /\ worker'[w] = new
    BY <1>1, <1>5 DEF ReadInvoices, Goto
  <2> HIDE DEF new
  <2>4. WorkerOK(w)'
    BY <1>1, <1>5, <2>2, <2>3 DEF WorkerOK, ReadInvoices, At
  <2> QED
    BY <1>2, <1>5, <2>2, <2>3, <2>4, QuietStep DEF ReadInvoices, At
<1>6. ASSUME NEW i \in Invoices, NextInvoice(w, i)
      PROVE  IInv'
  <2> DEFINE new == [h EXCEPT !.pc = "channel", !.invoice = i,
                              !.todo = @ \ {i}, !.left = h.channels]
  <2>1. /\ new \in WorkerState /\ new.pc = "channel" /\ new.interval = h.interval
        /\ new.invoice = i
    BY <1>1 DEF WorkerState
  <2>2. Goto(w, new) /\ worker'[w] = new
    BY <1>1, <1>6 DEF NextInvoice, Goto
  <2> HIDE DEF new
  <2>3. WorkerOK(w)'
    BY <1>1, <1>6, <2>1, <2>2 DEF WorkerOK, NextInvoice, At
  <2> QED
    BY <1>2, <1>6, <2>1, <2>2, <2>3, QuietStep DEF NextInvoice, At
<1>7. ASSUME InvoiceDone(w)
      PROVE  IInv'
  <2> DEFINE new == [h EXCEPT !.pc = "next", !.invoice = None]
  <2>1. /\ new \in WorkerState /\ new.pc = "next" /\ new.interval = h.interval
    BY <1>1 DEF WorkerState
  <2>2. Goto(w, new) /\ worker'[w] = new
    BY <1>1, <1>7 DEF InvoiceDone, Goto
  <2> HIDE DEF new
  <2>3. WorkerOK(w)'
    BY <1>1, <1>7, <2>1, <2>2 DEF WorkerOK, InvoiceDone, At
  <2> QED
    BY <1>2, <1>7, <2>1, <2>2, <2>3, QuietStep DEF InvoiceDone, At
<1>8. ASSUME Goto(w, IdleWorker)
      PROVE  WorkerOK(w)'
  <2>1. worker'[w] = IdleWorker
    BY <1>1, <1>8 DEF Goto
  <2> QED
    BY <2>1 DEF WorkerOK, IdleWorker
<1>9. ASSUME Finish(w)
      PROVE  IInv'
  BY <1>2, <1>8, <1>9, IdleIsTyped, QuietStep DEF Finish, At, IdleWorker
<1>10. ASSUME ClientFails(w)
       PROVE  IInv'
  <2>1. spent' \in [changes : 0 .. MaxChanges, faults : 0 .. MaxFaults]
    BY <1>2, <1>10 DEF ClientFails, Fault
  <2> QED
    BY <1>8, <1>10, <2>1, IdleIsTyped, QuietStep DEF ClientFails, At, IdleWorker
<1> QED
  BY <1>3, <1>4, <1>5, <1>6, <1>7, <1>9, <1>10

----------------------------------------------------------------------------
(* Claims.                                                                 *)

LEMMA ClaimKeeps ==
    ASSUME IInv, NEW w \in Workers, NEW c \in Channels, NextChannel(w, c)
    PROVE  IInv'
<1> DEFINE h == worker[w]
           k == KeyOf(w, c)
           passed == [h EXCEPT !.left = @ \ {c}]
           new == CallOf(w, c)
<1>1. h \in WorkerState /\ h.pc = "channel" /\ worker \in [Workers -> WorkerState]
      /\ h.interval \in Intervals /\ h.invoice \in Invoices
  BY DEF IInv, TypeOK, WorkerOK, NextChannel, At
<1>2. k \in Keys /\ claimed \subseteq Keys
  BY <1>1 DEF KeyOf, Keys, IInv, TypeOK
<1>3. CASE k \in claimed
  <2>1. /\ passed \in WorkerState /\ passed.pc = "channel"
        /\ passed.interval = h.interval /\ passed.invoice = h.invoice
    BY <1>1 DEF WorkerState
  <2>2. Goto(w, passed) /\ worker'[w] = passed /\ claimed' = claimed
    BY <1>1, <1>3 DEF NextChannel, Claim, Goto
  <2>3. WorkerOK(w)'
    BY <1>1, <2>1, <2>2 DEF WorkerOK
  <2>4. spent' \in [changes : 0 .. MaxChanges, faults : 0 .. MaxFaults]
    BY DEF IInv, TypeOK, NextChannel
  <2> HIDE DEF passed
  <2> QED
    BY <1>1, <2>1, <2>2, <2>3, <2>4, QuietStep DEF NextChannel, At, jobs
<1>4. CASE k \notin claimed
  <2>1. /\ new \in WorkerState /\ new.pc = "call" /\ new.channel = c
        /\ new.interval = h.interval /\ new.invoice = h.invoice
    BY <1>1 DEF WorkerState, CallOf
  <2>2. Goto(w, new) /\ claimed' = claimed \cup {k}
    BY <1>4 DEF NextChannel, Claim
  <2>3. worker' = [worker EXCEPT ![w] = new] /\ worker'[w] = new
        /\ \A v \in Workers : v # w => worker'[v] = worker[v]
    BY <1>1, <2>2 DEF Goto
  <2> HIDE DEF new
  <2>4. TypeOK'
    BY <1>2, <2>1, <2>2, <2>3 DEF IInv, TypeOK, NextChannel, inputs
  <2>5. \A v \in Workers : WorkerOK(v)'
    BY <1>1, <2>1, <2>3 DEF IInv, WorkerOK
  <2>6. HeldKey(w)' = k /\ At(w, "call")' /\ ~At(w, "call")
    BY <1>1, <2>1, <2>3 DEF HeldKey, KeyOf, At
  <2>7. \A v \in Workers : v # w => /\ At(v, "call")' <=> At(v, "call")
                                    /\ HeldKey(v)' = HeldKey(v)
    BY <2>3 DEF HeldKey, KeyOf, At
  <2>8. queued' = queued /\ lost' = lost /\ queued[k] = 0
    BY <1>2, <1>4 DEF NextChannel, IInv, TypeOK, OneReminderPerKey
  <2>9. HoldersOK'
    <3>1. \A v \in Workers : v # w /\ At(v, "call") => HeldKey(v) # k
      BY <1>4 DEF IInv, HoldersOK
    <3> QED
      BY <2>2, <2>6, <2>7, <2>8, <3>1 DEF IInv, HoldersOK
  <2>10. OneReminderPerKey'
    BY <2>2, <2>8 DEF IInv, OneReminderPerKey
  <2>11. ClaimsAreKept'
    <3>1. \A v \in Workers : Held(v) \subseteq Held(v)'
      BY <2>6, <2>7 DEF Held, HeldKey
    <3>2. k \in Held(w)'
      BY <2>6 DEF Held, HeldKey
    <3> QED
      BY <2>2, <2>8, <3>1, <3>2 DEF IInv, ClaimsAreKept
  <2> QED
    BY <2>4, <2>5, <2>9, <2>10, <2>11 DEF IInv, NextChannel, inputs
<1> QED
  BY <1>3, <1>4

LEMMA AbandonedIsTyped ==
    ASSUME IInv, NEW w \in Workers, Goto(w, Abandoned(w)),
           worker[w].interval \in Intervals
    PROVE  /\ Abandoned(w) \in WorkerState /\ Abandoned(w).pc = "next"
           /\ WorkerOK(w)'
<1>1. worker[w] \in WorkerState /\ worker \in [Workers -> WorkerState]
  BY DEF IInv, TypeOK
<1>2. /\ Abandoned(w) \in WorkerState /\ Abandoned(w).pc = "next"
      /\ Abandoned(w).interval = worker[w].interval
  BY <1>1 DEF WorkerState, Abandoned
<1>3. worker'[w] = Abandoned(w)
  BY <1>1 DEF Goto
<1> QED BY <1>2, <1>3 DEF WorkerOK

(* A claim that rejects leaves no key, one that was taken before, or one   *)
(* that is known to be lost; no sweep holds it.                            *)
LEMMA ClaimFailsKeeps ==
    ASSUME IInv, NEW w \in Workers, NEW c \in Channels, ClaimFails(w, c)
    PROVE  IInv'
<1> DEFINE k == KeyOf(w, c)
           new == Abandoned(w)
<1>1. /\ worker[w].interval \in Intervals /\ worker[w].invoice \in Invoices
      /\ ~At(w, "call") /\ worker \in [Workers -> WorkerState]
      /\ Goto(w, new)
  BY DEF IInv, TypeOK, WorkerOK, ClaimFails, At
<1>2. new \in WorkerState /\ new.pc = "next" /\ WorkerOK(w)'
  BY <1>1, AbandonedIsTyped
<1>3. spent' \in [changes : 0 .. MaxChanges, faults : 0 .. MaxFaults]
  BY DEF ClaimFails, Fault, IInv, TypeOK
<1>4. k \in Keys
  BY <1>1 DEF KeyOf, Keys
<1> HIDE DEF new
<1>5. CASE UNCHANGED <<claimed, lost>>
  BY <1>1, <1>2, <1>3, <1>5, QuietStep DEF ClaimFails, jobs
<1>6. CASE /\ k \notin claimed
           /\ claimed' = claimed \cup {k} /\ lost' = lost \cup {k}
  <2>1. worker'[w] = new /\ \A v \in Workers : v # w => worker'[v] = worker[v]
    BY <1>1 DEF Goto
  <2>2. TypeOK'
    BY <1>1, <1>2, <1>3, <1>4, <1>6 DEF IInv, TypeOK, ClaimFails, Goto, inputs
  <2>3. \A v \in Workers : WorkerOK(v)'
    BY <1>2, <2>1 DEF IInv, WorkerOK
  <2>4. \A v \in Workers : /\ At(v, "call")' <=> At(v, "call")
                           /\ At(v, "call") => HeldKey(v)' = HeldKey(v)
                           /\ Held(v)' = Held(v)
    BY <1>1, <1>2, <2>1 DEF At, HeldKey, KeyOf, Held
  <2>5. HoldersOK' /\ OneReminderPerKey'
    BY <1>6, <2>4 DEF IInv, HoldersOK, OneReminderPerKey, ClaimFails
  <2>6. ClaimsAreKept'
    BY <1>6, <2>4 DEF IInv, ClaimsAreKept, ClaimFails
  <2> QED BY <2>2, <2>3, <2>5, <2>6 DEF IInv, ClaimFails, inputs
<1> QED BY <1>5, <1>6 DEF ClaimFails

(* A sweep lets go of a key, whose job is queued or is known to be lost.   *)
LEMMA LetGo ==
    ASSUME IInv, NEW w \in Workers, At(w, "call"),
           NEW new \in WorkerState, Goto(w, new), new.pc # "call", WorkerOK(w)',
           JobQueued(w) \/ UNCHANGED queued,
           lost' \in {lost, lost \cup Held(w)},
           queued' = queued => lost' = lost \cup Held(w),
           UNCHANGED <<inputs, claimed>>,
           spent' \in [changes : 0 .. MaxChanges, faults : 0 .. MaxFaults]
    PROVE  IInv'
<1> DEFINE k == HeldKey(w)
<1>1. k \in Keys /\ k \in claimed /\ queued[k] = 0 /\ Held(w) = {k}
  BY HeldIsKey DEF IInv, HoldersOK, Held, HeldKey
<1>2. queued \in [Keys -> Nat] /\ worker \in [Workers -> WorkerState]
  BY DEF IInv, TypeOK
<1> HIDE DEF k
<1>3. /\ queued' \in [Keys -> Nat] /\ queued'[k] \in {0, 1}
      /\ \A q \in Keys : q # k => queued'[q] = queued[q]
      /\ queued'[k] = 1 \/ queued' = queued
  BY <1>1, <1>2 DEF JobQueued, HeldKey, k
<1>4. lost \subseteq lost' /\ lost' \subseteq Keys /\ (queued'[k] = 1 \/ k \in lost')
  BY <1>1, <1>3 DEF IInv, TypeOK
<1>5. worker' = [worker EXCEPT ![w] = new] /\ worker'[w] = new
      /\ \A v \in Workers : v # w => worker'[v] = worker[v]
  BY <1>2 DEF Goto
<1>6. TypeOK'
  BY <1>2, <1>3, <1>4, <1>5 DEF IInv, TypeOK, inputs
<1>7. \A v \in Workers : WorkerOK(v)'
  BY <1>5 DEF IInv, WorkerOK
<1>8. ~At(w, "call")' /\ \A v \in Workers :
         v # w => /\ At(v, "call")' <=> At(v, "call")
                  /\ HeldKey(v)' = HeldKey(v) /\ Held(v)' = Held(v)
  BY <1>5 DEF HeldKey, KeyOf, At, Held
<1>9. HoldersOK'
  <2>1. \A v \in Workers : v # w /\ At(v, "call") => HeldKey(v) # k /\ HeldKey(v) \in Keys
    BY HeldIsKey DEF IInv, HoldersOK, k
  <2> QED
    BY <1>3, <1>8, <2>1 DEF IInv, HoldersOK
<1>10. OneReminderPerKey'
  BY <1>1, <1>3 DEF IInv, OneReminderPerKey
<1>11. ClaimsAreKept'
  <2> SUFFICES ASSUME NEW q \in claimed
               PROVE  queued'[q] = 1 \/ q \in lost' \/ \E v \in Workers : q \in Held(v)'
    BY DEF ClaimsAreKept
  <2>1. CASE q = k
    BY <1>4, <2>1
  <2>2. CASE q # k
    <3>1. q \in Keys
      BY DEF IInv, TypeOK
    <3>2. CASE \E v \in Workers : q \in Held(v)
      BY <1>1, <1>8, <2>2, <3>2
    <3> QED
      BY <1>3, <1>4, <2>2, <3>1, <3>2 DEF IInv, ClaimsAreKept
  <2> QED
    BY <2>1, <2>2
<1> QED
  BY <1>6, <1>7, <1>9, <1>10, <1>11 DEF IInv, inputs

LEMMA CallsKeep ==
    ASSUME IInv, NEW w \in Workers
    PROVE  /\ Call(w) => IInv'
           /\ CallFails(w) => IInv'
<1> DEFINE h == worker[w]
<1>1. h \in WorkerState /\ WorkerOK(w) /\ worker \in [Workers -> WorkerState]
      /\ spent \in [changes : 0 .. MaxChanges, faults : 0 .. MaxFaults]
  BY DEF IInv, TypeOK
<1>2. ASSUME Call(w)
      PROVE  IInv'
  <2> DEFINE new == [h EXCEPT !.pc = "channel", !.channel = None]
  <2>1. /\ new \in WorkerState /\ new.pc = "channel"
        /\ new.interval = h.interval /\ new.invoice = h.invoice
    BY <1>1 DEF WorkerState
  <2>2. Goto(w, new) /\ worker'[w] = new
    BY <1>1, <1>2 DEF Call, Goto
  <2> HIDE DEF new
  <2>3. WorkerOK(w)'
    BY <1>1, <1>2, <2>1, <2>2 DEF WorkerOK, Call, At
  <2>4. queued' # queued
    <3>1. HeldKey(w) \in Keys /\ queued[HeldKey(w)] \in Nat
      BY <1>2, HeldIsKey DEF Call, IInv, TypeOK
    <3>2. queued'[HeldKey(w)] = queued[HeldKey(w)] + 1
      BY <1>2, <3>1 DEF Call, JobQueued, HeldKey, IInv, TypeOK
    <3> QED
      BY <3>1, <3>2
  <2> QED
    BY <1>1, <1>2, <2>1, <2>2, <2>3, <2>4, LetGo DEF Call
<1>3. ASSUME CallFails(w)
      PROVE  IInv'
  <2>1. worker[w].interval \in Intervals /\ Goto(w, Abandoned(w))
    BY <1>1, <1>3 DEF CallFails, WorkerOK, At
  <2>2. /\ Abandoned(w) \in WorkerState /\ Abandoned(w).pc = "next"
        /\ WorkerOK(w)'
    BY <2>1, AbandonedIsTyped
  <2>3. spent' \in [changes : 0 .. MaxChanges, faults : 0 .. MaxFaults]
    BY <1>1, <1>3 DEF CallFails, Fault
  <2> QED
    BY <1>3, <2>1, <2>2, <2>3, LetGo DEF CallFails
<1> QED
  BY <1>2, <1>3

(* A restart lets go of every key at once.                                 *)
LEMMA StopKeeps ==
    ASSUME IInv, Stop
    PROVE  IInv'
<1>1. \A w \in Workers : Held(w) \subseteq Keys
  BY HeldIsKey DEF Held, HeldKey
<1>2. lost' \subseteq Keys
  BY <1>1 DEF Stop, IInv, TypeOK
<1>3. spent' \in [changes : 0 .. MaxChanges, faults : 0 .. MaxFaults]
  BY DEF Stop, Fault, IInv, TypeOK
<1>4. TypeOK'
  BY <1>2, <1>3, IdleIsTyped DEF Stop, IInv, TypeOK, inputs
<1>5. \A w \in Workers : worker'[w] = IdleWorker
  BY DEF Stop
<1>6. \A w \in Workers : WorkerOK(w)' /\ ~At(w, "call")'
  BY <1>5 DEF WorkerOK, IdleWorker, At
<1>7. HoldersOK' /\ OneReminderPerKey' /\ ClaimsAreKept'
  BY <1>6 DEF Stop, IInv, HoldersOK, OneReminderPerKey, ClaimsAreKept
<1> QED
  BY <1>4, <1>6, <1>7 DEF Stop, IInv, inputs

(* What goes on around the reminders touches neither keys nor sweeps.      *)
LEMMA AroundKeeps ==
    ASSUME IInv, UNCHANGED <<jobs, worker>>,
           day' \in 0 .. MaxDay, open' \subseteq Invoices,
           preference' = preference \/ preference' \in Preference,
           recipients' \subseteq Channels,
           spent' \in [changes : 0 .. MaxChanges, faults : 0 .. MaxFaults]
    PROVE  IInv'
BY DEF IInv, TypeOK, WorkerOK, HoldersOK, HeldKey, KeyOf, Held, At,
       OneReminderPerKey, ClaimsAreKept, jobs

----------------------------------------------------------------------------
LEMMA InitSatisfies == Init => IInv
<1> SUFFICES ASSUME Init PROVE IInv
  OBVIOUS
<1>1. TypeOK
  BY IdleIsTyped DEF Init, TypeOK
<1>2. \A w \in Workers : WorkerOK(w) /\ ~At(w, "call")
  BY DEF Init, WorkerOK, IdleWorker, At
<1> QED
  BY <1>1, <1>2 DEF Init, IInv, NoPreference, HoldersOK, OneReminderPerKey,
                    ClaimsAreKept

LEMMA StepKeeps == IInv /\ [Next]_vars => IInv'
<1> SUFFICES ASSUME IInv, [Next]_vars PROVE IInv'
  OBVIOUS
<1>1. ASSUME NEW w \in Workers,
             \/ SweepStarts(w) \/ SweepFindsNone(w) \/ Process(w)
             \/ CallFails(w) \/ ClientFails(w)
             \/ \E c \in Channels : ClaimFails(w, c)
      PROVE  IInv'
  <2>1. CASE SweepFindsNone(w)
    BY <2>1, AroundKeeps DEF SweepFindsNone, vars, jobs, IInv, TypeOK
  <2>2. CASE Process(w)
    BY <2>2, ReadsKeep, ClaimKeeps, CallsKeep DEF Process
  <2> QED
    BY <1>1, <2>1, <2>2, ReadsKeep, CallsKeep, ClaimFailsKeeps
<1>2. CASE Stop
  BY <1>2, StopKeeps
<1>3. CASE Tick
  BY <1>3, AroundKeeps DEF Tick, IInv, TypeOK
<1>4. ASSUME Change
      PROVE  spent' \in [changes : 0 .. MaxChanges, faults : 0 .. MaxFaults]
  BY <1>4 DEF Change, IInv, TypeOK
<1>5. ASSUME NEW p \in Preference, Prefer(p)
      PROVE  IInv'
  BY <1>4, <1>5, AroundKeeps DEF Prefer, IInv, TypeOK
<1>6. ASSUME NEW i \in Invoices, InvoiceChanges(i)
      PROVE  IInv'
  BY <1>4, <1>6, AroundKeeps DEF InvoiceChanges, IInv, TypeOK
<1>7. ASSUME NEW c \in Channels, ContactChanges(c)
      PROVE  IInv'
  BY <1>4, <1>7, AroundKeeps DEF ContactChanges, IInv, TypeOK
<1>8. CASE UNCHANGED vars
  BY <1>8, AroundKeeps DEF vars, jobs, IInv, TypeOK
<1> QED
  BY <1>1, <1>2, <1>3, <1>5, <1>6, <1>7, <1>8 DEF Next

(* A key whose job is being asked for was claimed by one sweep, at any     *)
(* time (claimDispatch).                                                   *)
THEOREM Inductive == Spec => []IInv
<1> QED
  BY InitSatisfies, StepKeeps, PTL DEF Spec

(* Keys, jobs and sweeps keep their form, for any number of each.          *)
THEOREM TypeCorrect == Spec => []TypeOK
<1>1. IInv => TypeOK
  BY DEF IInv
<1> QED
  BY <1>1, Inductive, PTL

(* No invoice has two scheduled reminders of one interval and channel,     *)
(* however many sweeps overlap and however often the process restarts.     *)
THEOREM OneEach == Spec => []OneReminderPerKey
<1>1. IInv => OneReminderPerKey
  BY DEF IInv
<1> QED
  BY <1>1, Inductive, PTL

(* A key that was claimed is enqueued, is about to be, or its own claim or *)
(* call failed or was cut short.                                           *)
THEOREM ClaimsKept == Spec => []ClaimsAreKept
<1>1. IInv => ClaimsAreKept
  BY DEF IInv
<1> QED
  BY <1>1, Inductive, PTL
=============================================================================
