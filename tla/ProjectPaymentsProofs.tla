------------------------ MODULE ProjectPaymentsProofs ------------------------
(* Proofs about ProjectPayments.  The inductive invariant says what each   *)
(* request in progress already knows to be written, and counts the calls   *)
(* in flight against what a payment is owed.                               *)
EXTENDS ProjectPayments, FiniteSetTheorems, TLAPS

USE PaymentAssumption

----------------------------------------------------------------------------
(* Parts of the invariant.                                                 *)

(* The invoice was marked PAID, or somebody has set it by hand since.      *)
Marked(i) == invoice[i] = "PAID" \/ i \in history.byHand

(* The payment of a notice is COMPLETED, or was updated by hand.           *)
Intact(p) == payment[p].status = "COMPLETED" \/ NoticeOf(p) \in history.touched

(* The milestone of a notice was confirmed, or why it was not.             *)
Concluded(n) ==
    StageOf[InvoiceOf[n]] \in CoreStages =>
        ConfirmedBy(n) \/ n \in history.failed \/ n \in history.touched

(* What the request of a slot knows to be written.                         *)
HandlerOK(s) ==
    LET h == handler[s] IN
    /\ h.pc \in {"pay", "mark", "write", "verify", "log"} => h.payment \in Payments
    /\ h.pc \in {"mark", "write", "verify", "log"} => h.payment \in Recorded
    /\ h.pc \in {"pay", "mark", "answer"} => h.notice \in Notices
    /\ h.notice # None =>
          /\ h.pc \in {"pay", "mark", "verify", "log", "answer"}
          /\ h.payment \in Payments
          /\ NoticeOf(h.payment) = h.notice
          /\ h.stage = StageOf[InvoiceOf[h.notice]]
          /\ h.pc \in {"mark", "verify"} => Intact(h.payment)
          /\ h.pc \in {"verify", "log", "answer"} =>
                h.payment \in Recorded /\ Marked(InvoiceOf[h.notice])
          /\ h.pc = "answer" => Concluded(h.notice)
    /\ h.pc = "log" => h.stage \in CoreStages /\ h.payment \in history.completed
    /\ h.pc = "status" /\ h.target = "COMPLETED" => FinalConfirmed
    /\ h.pc = "bill" => FinalConfirmed

(* Only payments that were COMPLETED confirm a milestone.                  *)
CompletedOK ==
    /\ history.completed \subseteq Recorded
    /\ \A p \in Payments : payment[p].status = "COMPLETED" => p \in history.completed
    /\ \A p \in Payments, g \in CoreStages :
          confirmed[p][g] > 0 => p \in history.completed

HandoffOK ==
    (project = "COMPLETED" /\ ~history.unasked) \/ finalIssued => FinalConfirmed

AnsweredOK(n) == PaymentsOf(n) # {} /\ Marked(InvoiceOf[n]) /\ Concluded(n)

(* The requests that may still confirm a payment, each of them once.       *)
MayConfirm(h, p) == h.pc \in {"mark", "verify", "log"} /\ h.payment = p
Pending(p) == {s \in Slots : MayConfirm(handler[s], p)}

Counting ==
    \A p \in Payments :
        /\ IsFiniteSet(Pending(p))
        /\ Confirmations(p) + Cardinality(Pending(p)) <= history.owed[p]

IInv ==
    /\ TypeOK
    /\ CompletedOK
    /\ HandoffOK
    /\ Counting
    /\ \A s \in Slots : HandlerOK(s)
    /\ \A n \in Notices : notice[n].answered => AnsweredOK(n)

----------------------------------------------------------------------------
(* Facts about the data.                                                   *)

LEMMA PaymentNames ==
    /\ \A n \in Notices, k \in 1 .. MaxDeliveries :
          <<n, k>> \in Payments /\ NoticeOf(<<n, k>>) = n
    /\ \A k \in 1 .. MaxPosted : <<None, k>> \in Payments /\ NoticeOf(<<None, k>>) = None
    /\ \A p \in Payments : NoticeOf(p) \in Notices \cup {None}
BY DEF Payments, NoticeOf

LEMMA Typed ==
    ASSUME TypeOK
    PROVE  /\ \A p \in Payments : /\ payment[p] \in PaymentRow
                                  /\ history.owed[p] \in Nat
                                  /\ Confirmations(p) \in Nat
           /\ \A p \in Recorded : p \in Payments /\ payment[p].invoice \in Invoices
           /\ \A p \in Payments, g \in CoreStages : confirmed[p][g] \in Nat
           /\ \A s \in Slots : handler[s] \in HandlerState
           /\ \A n \in Notices : InvoiceOf[n] \in Invoices
           /\ history \in History
<1>1. \A p \in Payments : payment[p] \in PaymentRow
  BY DEF TypeOK
<1>2. \A p \in Payments, g \in CoreStages : confirmed[p][g] \in Nat
  BY DEF TypeOK
<1>3. \A p \in Payments : history.owed[p] \in Nat
  BY DEF TypeOK, History
<1>4. \A p \in Payments : Confirmations(p) \in Nat
  BY <1>2 DEF Confirmations, CoreStages
<1>5. \A p \in Recorded : p \in Payments /\ payment[p].invoice \in Invoices
  BY <1>1 DEF Recorded, PaymentRow
<1> QED
  BY <1>1, <1>2, <1>3, <1>4, <1>5 DEF TypeOK

----------------------------------------------------------------------------
(* What no step takes back.                                                *)

Grows ==
    /\ Recorded \subseteq Recorded'
    /\ history.completed \subseteq history'.completed
    /\ history.touched \subseteq history'.touched
    /\ history.failed \subseteq history'.failed
    /\ \A p \in Payments, g \in CoreStages :
          confirmed[p][g] > 0 => confirmed'[p][g] > 0
    /\ \A i \in Invoices : Marked(i) => Marked(i)'
    /\ \A p \in Payments : NoticeOf(p) \in Notices /\ Intact(p) => Intact(p)'

LEMMA FinalGrows ==
    ASSUME Grows
    PROVE  FinalConfirmed => FinalConfirmed'
BY DEF Grows, FinalConfirmed, CoreStages

LEMMA PaymentsOfGrow ==
    ASSUME Grows, NEW n
    PROVE  PaymentsOf(n) \subseteq PaymentsOf(n)'
BY DEF Grows, PaymentsOf

LEMMA ConcludedGrows ==
    ASSUME TypeOK, Grows, NEW n \in Notices
    PROVE  Concluded(n) => Concluded(n)'
<1> SUFFICES ASSUME Concluded(n), StageOf[InvoiceOf[n]] \in CoreStages
             PROVE  ConfirmedBy(n)' \/ n \in history'.failed \/ n \in history'.touched
  BY DEF Concluded
<1>1. CASE ConfirmedBy(n)
  <2>1. PICK p \in PaymentsOf(n) : confirmed[p][StageOf[InvoiceOf[n]]] > 0
    BY <1>1 DEF ConfirmedBy
  <2>2. p \in Payments /\ p \in PaymentsOf(n)'
    BY PaymentsOfGrow DEF PaymentsOf, Recorded
  <2> QED
    BY <2>1, <2>2 DEF Grows, ConfirmedBy
<1> QED
  BY <1>1 DEF Concluded, Grows

LEMMA AnsweredGrows ==
    ASSUME TypeOK, Grows, NEW n \in Notices
    PROVE  AnsweredOK(n) => AnsweredOK(n)'
<1>1. InvoiceOf[n] \in Invoices
  BY Typed
<1> QED
  BY <1>1, PaymentsOfGrow, ConcludedGrows DEF AnsweredOK, Grows

(* A request that a step leaves alone still knows what it knew.            *)
LEMMA OthersKept ==
    ASSUME TypeOK, Grows, NEW s \in Slots, HandlerOK(s), handler'[s] = handler[s]
    PROVE  HandlerOK(s)'
<1> DEFINE h == handler[s]
<1>1. h \in HandlerState
  BY Typed
<1>2. h.notice # None => h.notice \in Notices /\ InvoiceOf[h.notice] \in Invoices
  BY <1>1, Typed DEF HandlerState
<1>3. h.notice # None => (Marked(InvoiceOf[h.notice]) => Marked(InvoiceOf[h.notice])')
  BY <1>2 DEF Grows
<1>4. h.notice # None => (Concluded(h.notice) => Concluded(h.notice)')
  BY <1>2, ConcludedGrows
<1>5. h.notice # None /\ h.payment \in Payments /\ NoticeOf(h.payment) = h.notice
        => (Intact(h.payment) => Intact(h.payment)')
  BY <1>2 DEF Grows
<1>6. /\ h.payment \in Recorded => h.payment \in Recorded'
      /\ h.payment \in history.completed => h.payment \in history'.completed
  BY DEF Grows
<1> QED
  BY <1>3, <1>4, <1>5, <1>6, FinalGrows DEF HandlerOK

----------------------------------------------------------------------------
(* The requests that may still confirm a payment.                          *)

Weight(h, p) == IF MayConfirm(h, p) THEN 1 ELSE 0

LEMMA PendingMoves ==
    ASSUME NEW s \in Slots, NEW new \in HandlerState, NEW p \in Payments,
           handler \in [Slots -> HandlerState], Goto(s, new),
           IsFiniteSet(Pending(p))
    PROVE  /\ IsFiniteSet(Pending(p)')
           /\ Cardinality(Pending(p)) \in Nat
           /\ Cardinality(Pending(p)')
                 = Cardinality(Pending(p)) + Weight(new, p) - Weight(handler[s], p)
<1>1. handler' = [handler EXCEPT ![s] = new]
  BY DEF Goto
<1>2. Cardinality(Pending(p)) \in Nat
  BY FS_CardinalityType
<1>3. CASE MayConfirm(new, p)
  <2>1. Pending(p)' = Pending(p) \cup {s}
    BY <1>1, <1>3 DEF Pending
  <2>2. s \in Pending(p) <=> MayConfirm(handler[s], p)
    BY DEF Pending
  <2> QED
    BY <1>2, <1>3, <2>1, <2>2, FS_AddElement DEF Weight
<1>4. CASE ~MayConfirm(new, p)
  <2>1. Pending(p)' = Pending(p) \ {s}
    BY <1>1, <1>4 DEF Pending
  <2>2. s \in Pending(p) <=> MayConfirm(handler[s], p)
    BY DEF Pending
  <2> QED
    BY <1>2, <1>4, <2>1, <2>2, FS_RemoveElement DEF Weight
<1> QED
  BY <1>2, <1>3, <1>4

(* A step may let a request confirm a payment when it owes it.             *)
LEMMA CountingKept ==
    ASSUME TypeOK, TypeOK', Counting,
           NEW s \in Slots, NEW new \in HandlerState, Goto(s, new),
           \A p \in Payments :
              Confirmations(p)' + Weight(new, p) + history.owed[p]
                <= history'.owed[p] + Confirmations(p) + Weight(handler[s], p)
    PROVE  Counting'
<1> SUFFICES ASSUME NEW p \in Payments
             PROVE  /\ IsFiniteSet(Pending(p)')
                    /\ Confirmations(p)' + Cardinality(Pending(p)') <= history'.owed[p]
  BY DEF Counting
<1>1. /\ IsFiniteSet(Pending(p))
      /\ Confirmations(p) + Cardinality(Pending(p)) <= history.owed[p]
  BY DEF Counting
<1>2. /\ IsFiniteSet(Pending(p)')
      /\ Cardinality(Pending(p)) \in Nat
      /\ Cardinality(Pending(p)')
            = Cardinality(Pending(p)) + Weight(new, p) - Weight(handler[s], p)
  BY <1>1, PendingMoves DEF TypeOK
<1>3. /\ Confirmations(p) \in Nat /\ Confirmations(p)' \in Nat
      /\ history.owed[p] \in Nat /\ history'.owed[p] \in Nat
  <2>1. Confirmations(p) \in Nat /\ history.owed[p] \in Nat
    BY Typed
  <2>2. Confirmations(p)' \in Nat
    BY DEF TypeOK, Confirmations, CoreStages
  <2>3. history'.owed[p] \in Nat
    BY DEF TypeOK, History
  <2> QED
    BY <2>1, <2>2, <2>3
<1>4. Weight(new, p) \in Nat /\ Weight(handler[s], p) \in Nat
  BY DEF Weight
<1>5. Confirmations(p)' + Weight(new, p) + history.owed[p]
        <= history'.owed[p] + Confirmations(p) + Weight(handler[s], p)
  OBVIOUS
<1> QED
  BY <1>1, <1>2, <1>3, <1>4, <1>5

----------------------------------------------------------------------------
(* Steps of one slot.                                                      *)

LEMMA StepKept ==
    ASSUME IInv, TypeOK', Grows, CompletedOK', HandoffOK',
           NEW s \in Slots, NEW new \in HandlerState, Goto(s, new), HandlerOK(s)',
           \A p \in Payments :
              Confirmations(p)' + Weight(new, p) + history.owed[p]
                <= history'.owed[p] + Confirmations(p) + Weight(handler[s], p),
           \A n \in Notices :
              notice'[n].answered => notice[n].answered \/ AnsweredOK(n)'
    PROVE  IInv'
<1>1. Counting'
  BY CountingKept DEF IInv
<1>2. ASSUME NEW q \in Slots
      PROVE  HandlerOK(q)'
  <2>1. CASE q = s
    BY <2>1
  <2>2. CASE q # s
    <3>1. handler'[q] = handler[q]
      BY <2>2 DEF Goto, IInv, TypeOK
    <3> QED
      BY <3>1, OthersKept DEF IInv
  <2> QED
    BY <2>1, <2>2
<1>3. \A n \in Notices : notice'[n].answered => AnsweredOK(n)'
  BY AnsweredGrows DEF IInv
<1> QED
  BY <1>1, <1>2, <1>3 DEF IInv

(* Steps that write nothing but the request and the books.                 *)
LEMMA GrowsQuietly ==
    ASSUME TypeOK, UNCHANGED <<payment, confirmed, invoice>>,
           history.completed \subseteq history'.completed,
           history.touched \subseteq history'.touched,
           history.failed \subseteq history'.failed,
           history.byHand \subseteq history'.byHand
    PROVE  Grows
BY DEF Grows, Recorded, Marked, Intact

(* Steps that write the request only: they confirm nothing new.            *)
LEMMA QuietStep ==
    ASSUME IInv, NEW s \in Slots, NEW new \in HandlerState, Goto(s, new),
           UNCHANGED <<billing, core>>,
           history' \in History,
           notice' \in [Notices -> [deliveries : 0 .. MaxDeliveries,
                                    answered : BOOLEAN]],
           \A n \in Notices : notice'[n].answered = notice[n].answered,
           history'.completed = history.completed,
           history'.touched = history.touched,
           history'.byHand = history.byHand,
           history'.unasked = history.unasked,
           history.failed \subseteq history'.failed,
           \A p \in Payments :
              Weight(new, p) + history.owed[p]
                <= history'.owed[p] + Weight(handler[s], p),
           HandlerOK(s)'
    PROVE  IInv'
<1>1. TypeOK'
  BY DEF IInv, TypeOK, Goto, billing, core
<1>2. Grows
  BY GrowsQuietly DEF IInv, billing, core
<1>3. CompletedOK' /\ HandoffOK'
  BY DEF IInv, CompletedOK, HandoffOK, FinalConfirmed, Recorded, billing, core
<1>4. ASSUME NEW p \in Payments
      PROVE  Confirmations(p)' + Weight(new, p) + history.owed[p]
                <= history'.owed[p] + Confirmations(p) + Weight(handler[s], p)
  <2>1. Confirmations(p)' = Confirmations(p) /\ Confirmations(p) \in Nat
    BY Typed DEF Confirmations, core, IInv
  <2>2. history.owed[p] \in Nat /\ history'.owed[p] \in Nat
    BY DEF History, IInv, TypeOK
  <2>3. Weight(new, p) \in Nat /\ Weight(handler[s], p) \in Nat
    BY DEF Weight
  <2>4. Weight(new, p) + history.owed[p] <= history'.owed[p] + Weight(handler[s], p)
    OBVIOUS
  <2> QED
    BY <2>1, <2>2, <2>3, <2>4
<1> QED
  BY <1>1, <1>2, <1>3, <1>4, StepKept

LEMMA IdleIsTyped ==
    IdleHandler \in HandlerState /\ \A p : Weight(IdleHandler, p) = 0
BY DEF IdleHandler, HandlerState, PaymentStatus, ProjectStatus, Weight, MayConfirm

LEMMA IdleKnowsNothing ==
    ASSUME NEW s \in Slots, handler'[s] = IdleHandler
    PROVE  HandlerOK(s)'
BY DEF HandlerOK, IdleHandler

LEMMA WeightRange == \A h, p : Weight(h, p) \in {0, 1}
BY DEF Weight

LEMMA DeliverKeeps ==
    ASSUME IInv, NEW s \in Slots, NEW n \in Notices, Deliver(s, n)
    PROVE  IInv'
<1> DEFINE k == notice[n].deliveries + 1
           new == [IdleHandler EXCEPT !.pc = "pay", !.notice = n,
                                      !.payment = <<n, k>>,
                                      !.stage = StageOf[InvoiceOf[n]]]
<1>1. k \in 1 .. MaxDeliveries
  BY DEF IInv, TypeOK, Deliver
<1>2. <<n, k>> \in Payments /\ NoticeOf(<<n, k>>) = n
  BY <1>1, PaymentNames
<1>3. new \in HandlerState /\ StageOf[InvoiceOf[n]] \in Stages \cup {"none"}
  BY <1>2, IdleIsTyped DEF HandlerState
<1>4. Goto(s, new) /\ handler'[s] = new
  BY DEF Deliver, Goto, IInv, TypeOK
<1>5. n # None /\ new.pc = "pay" /\ new.notice = n /\ new.payment = <<n, k>>
      /\ new.stage = StageOf[InvoiceOf[n]]
  BY DEF IdleHandler
<1>6. HandlerOK(s)'
  BY <1>2, <1>4, <1>5 DEF HandlerOK
<1>7. \A p \in Payments : Weight(new, p) = 0
  BY <1>5 DEF Weight, MayConfirm
<1>8. /\ notice' \in [Notices -> [deliveries : 0 .. MaxDeliveries,
                                   answered : BOOLEAN]]
      /\ \A q \in Notices : notice'[q].answered = notice[q].answered
  BY <1>1 DEF Deliver, IInv, TypeOK
<1>9. \A p \in Payments :
         Weight(new, p) + history.owed[p] <= history'.owed[p] + Weight(handler[s], p)
  BY <1>7, WeightRange, Typed DEF Deliver, IInv
<1>10. history' \in History /\ history' = history
  BY Typed DEF Deliver, IInv
<1> HIDE DEF new, k
<1> QED
  BY <1>3, <1>4, <1>6, <1>8, <1>9, <1>10, QuietStep DEF Deliver

(* Billing goes on after the call, when it made it.                        *)
LEMMA AfterCallTyped ==
    ASSUME IInv, NEW s \in Slots
    PROVE  /\ AfterCall(s) \in HandlerState
           /\ \A p : Weight(AfterCall(s), p) = 0
<1>1. handler[s] \in HandlerState
  BY Typed DEF IInv
<1>2. [handler[s] EXCEPT !.pc = "answer"] \in HandlerState
  BY <1>1 DEF HandlerState
<1>3. [handler[s] EXCEPT !.pc = "answer"].pc = "answer"
  BY <1>1 DEF HandlerState
<1> QED
  BY <1>2, <1>3, IdleIsTyped DEF AfterCall, Weight, MayConfirm

LEMMA AfterCallOK ==
    ASSUME IInv, Grows, NEW s \in Slots, At(s, "verify") \/ At(s, "log"),
           handler'[s] = AfterCall(s),
           NEW n, n = handler[s].notice, n # None => Concluded(n)'
    PROVE  HandlerOK(s)'
<1> DEFINE h == handler[s]
<1>1. h \in HandlerState /\ h.pc \in {"verify", "log"} /\ HandlerOK(s)
  BY Typed DEF IInv, At
<1>2. CASE h.notice = None
  BY <1>2, IdleKnowsNothing DEF AfterCall
<1>3. CASE h.notice # None
  <2>1. handler'[s] = [h EXCEPT !.pc = "answer"]
    BY <1>3 DEF AfterCall
  <2>2. /\ handler'[s].pc = "answer" /\ handler'[s].notice = h.notice
        /\ handler'[s].payment = h.payment /\ handler'[s].stage = h.stage
    BY <1>1, <2>1 DEF HandlerState
  <2>3. n \in Notices /\ InvoiceOf[n] \in Invoices
    BY <1>1, <1>3 DEF HandlerState
  <2>4. /\ h.payment \in Payments /\ NoticeOf(h.payment) = n
        /\ h.stage = StageOf[InvoiceOf[n]]
        /\ h.payment \in Recorded /\ Marked(InvoiceOf[n])
    BY <1>1, <1>3 DEF HandlerOK
  <2>5. Marked(InvoiceOf[n])' /\ Recorded \subseteq Recorded'
    BY <2>3, <2>4 DEF Grows
  <2> QED
    BY <1>3, <2>2, <2>3, <2>4, <2>5 DEF HandlerOK
<1> QED
  BY <1>2, <1>3

LEMMA VerifyKeeps ==
    ASSUME IInv, NEW s \in Slots, VerifyPayment(s)
    PROVE  IInv'
<1> DEFINE h == handler[s]
           ok == /\ h.stage \in CoreStages
                 /\ payment[h.payment].status = "COMPLETED"
           new == IF ok THEN [h EXCEPT !.pc = "log"] ELSE AfterCall(s)
<1>0. PICK n : n = h.notice
  OBVIOUS
<1>1. h \in HandlerState /\ h.pc = "verify" /\ HandlerOK(s)
  BY Typed DEF IInv, VerifyPayment, At
<1>2. h.payment \in Payments /\ h.payment \in Recorded
  BY <1>1 DEF HandlerOK
<1>3. Goto(s, new) /\ handler'[s] = new
  BY DEF VerifyPayment, Goto, IInv, TypeOK
<1>4. Grows
  BY GrowsQuietly DEF IInv, VerifyPayment, billing, core
<1>5. new \in HandlerState
  <2>1. [h EXCEPT !.pc = "log"] \in HandlerState
    BY <1>1 DEF HandlerState
  <2> QED
    BY <2>1, AfterCallTyped
<1>6. \A p \in Payments : Weight(new, p) <= Weight(h, p)
  <2>1. CASE ok
    <3>1. new.pc = "log" /\ new.payment = h.payment
      BY <1>1, <2>1 DEF HandlerState
    <3> QED
      BY <1>1, <3>1 DEF Weight, MayConfirm
  <2>2. CASE ~ok
    BY <2>2, AfterCallTyped, WeightRange
  <2> QED
    BY <2>1, <2>2
<1>7. HandlerOK(s)'
  <2>1. CASE ok
    <3>1. /\ new.pc = "log" /\ new.payment = h.payment
          /\ new.notice = h.notice /\ new.stage = h.stage
      BY <1>1, <2>1 DEF HandlerState
    <3>2. h.payment \in history.completed
      BY <1>2, <2>1 DEF IInv, CompletedOK
    <3>3. Recorded \subseteq Recorded' /\ history' = history
      BY <1>4 DEF Grows, VerifyPayment
    <3>4. n # None => Marked(InvoiceOf[n])'
      <4> SUFFICES ASSUME n # None PROVE Marked(InvoiceOf[n])'
        OBVIOUS
      <4>1. InvoiceOf[n] \in Invoices
        BY <1>0, <1>1, Typed DEF HandlerState, IInv
      <4> QED
        BY <1>0, <1>1, <1>4, <4>1 DEF HandlerOK, Grows
    <3> HIDE DEF new
    <3> QED
      BY <1>0, <1>1, <1>2, <1>3, <2>1, <3>1, <3>2, <3>3, <3>4 DEF HandlerOK
  <2>2. CASE ~ok
    <3>1. ASSUME n # None
          PROVE  Concluded(n)'
      <4>1. /\ n \in Notices /\ NoticeOf(h.payment) = n
            /\ h.stage = StageOf[InvoiceOf[n]] /\ Intact(h.payment)
        BY <1>0, <1>1, <3>1 DEF HandlerOK, HandlerState
      <4>2. CASE h.stage \notin CoreStages
        BY <4>1, <4>2 DEF Concluded
      <4>3. CASE h.stage \in CoreStages
        <5>1. n \in history.touched
          BY <2>2, <4>1, <4>3 DEF Intact
        <5> QED
          BY <5>1 DEF Concluded, VerifyPayment
      <4> QED
        BY <4>2, <4>3
    <3> QED
      BY <1>0, <1>3, <1>4, <2>2, <3>1, AfterCallOK DEF VerifyPayment
  <2> QED
    BY <2>1, <2>2
<1>8. \A p \in Payments :
         Weight(new, p) + history.owed[p] <= history'.owed[p] + Weight(handler[s], p)
  BY <1>6, WeightRange, Typed DEF VerifyPayment, IInv
<1> HIDE DEF new
<1> QED
  BY <1>3, <1>5, <1>7, <1>8, QuietStep, Typed DEF VerifyPayment, IInv, TypeOK

LEMMA CallFailsKeeps ==
    ASSUME IInv, NEW s \in Slots, CallFails(s)
    PROVE  IInv'
<1> DEFINE h == handler[s]
<1>0. PICK n : n = h.notice
  OBVIOUS
<1>1. h \in HandlerState /\ HandlerOK(s) /\ (At(s, "verify") \/ At(s, "log"))
  BY Typed DEF IInv, CallFails
<1>2. /\ history' \in History
      /\ history' = [history EXCEPT !.faults = @ + 1,
                                    !.failed = @ \cup ({n} \ {None})]
  <2>1. history \in History /\ history.faults < MaxFaults
    BY Typed DEF IInv, CallFails
  <2>2. history.faults + 1 \in 0 .. MaxFaults
    BY <2>1 DEF History
  <2>3. history.failed \cup ({n} \ {None}) \in SUBSET Notices
    BY <1>0, <1>1, <2>1 DEF History, HandlerState
  <2>4. history' = [history EXCEPT !.faults = @ + 1,
                                   !.failed = @ \cup ({n} \ {None})]
    BY <1>0 DEF CallFails
  <2> QED
    BY <2>1, <2>2, <2>3, <2>4 DEF History
<1>3. /\ history'.completed = history.completed
      /\ history'.touched = history.touched
      /\ history'.byHand = history.byHand
      /\ history'.unasked = history.unasked
      /\ history'.owed = history.owed
      /\ history'.failed = history.failed \cup ({n} \ {None})
  BY <1>2, Typed DEF IInv, History
<1>4. Grows
  BY <1>3, GrowsQuietly DEF IInv, CallFails, billing, core
<1>5. Goto(s, AfterCall(s)) /\ handler'[s] = AfterCall(s)
  BY AfterCallTyped DEF CallFails, Goto, IInv, TypeOK
<1>6. n # None => Concluded(n)'
  BY <1>3 DEF Concluded
<1>7. HandlerOK(s)'
  BY <1>0, <1>1, <1>4, <1>5, <1>6, AfterCallOK
<1>8. \A p \in Payments : Weight(AfterCall(s), p) + history.owed[p]
                            <= history'.owed[p] + Weight(handler[s], p)
  BY <1>3, AfterCallTyped, WeightRange, Typed DEF IInv
<1> QED
  BY <1>2, <1>3, <1>5, <1>7, <1>8, AfterCallTyped, QuietStep
     DEF CallFails, IInv, TypeOK

(* The books of the steps that spend one of the bounds.                    *)
LEMMA FaultBooked ==
    ASSUME history \in History, history.faults < MaxFaults,
           history' = [history EXCEPT !.faults = @ + 1]
    PROVE  /\ history' \in History
           /\ history'.owed = history.owed /\ history'.completed = history.completed
           /\ history'.touched = history.touched /\ history'.failed = history.failed
           /\ history'.byHand = history.byHand /\ history'.unasked = history.unasked
<1>1. history.faults + 1 \in 0 .. MaxFaults
  BY DEF History
<1> QED
  BY <1>1 DEF History

LEMMA RequestBooked ==
    ASSUME history \in History, Request,
           history' = [history EXCEPT !.requests = @ + 1]
    PROVE  /\ history' \in History
           /\ history'.owed = history.owed /\ history'.completed = history.completed
           /\ history'.touched = history.touched /\ history'.failed = history.failed
           /\ history'.byHand = history.byHand /\ history'.unasked = history.unasked
<1>1. history.requests + 1 \in 0 .. MaxRequests
  BY DEF History, Request
<1> QED
  BY <1>1 DEF History

LEMMA AbortKeeps ==
    ASSUME IInv, NEW s \in Slots, Abort(s)
    PROVE  IInv'
<1> DEFINE h == handler[s]
           detached == [h EXCEPT !.notice = None]
<1>1. h \in HandlerState /\ HandlerOK(s) /\ history \in History
  BY Typed DEF IInv
<1>2. /\ history' \in History /\ history'.owed = history.owed
      /\ history'.completed = history.completed
      /\ history'.touched = history.touched /\ history'.failed = history.failed
      /\ history'.byHand = history.byHand /\ history'.unasked = history.unasked
  BY <1>1, FaultBooked DEF Abort
<1>3. CASE Goto(s, IdleHandler)
  <2>1. handler'[s] = IdleHandler
    BY <1>3 DEF Goto, IInv, TypeOK
  <2>2. \A p \in Payments : Weight(IdleHandler, p) + history.owed[p]
                              <= history'.owed[p] + Weight(handler[s], p)
    BY <1>2, IdleIsTyped, WeightRange, Typed DEF IInv
  <2> QED
    BY <1>2, <1>3, <2>1, <2>2, IdleIsTyped, IdleKnowsNothing, QuietStep
       DEF Abort, IInv, TypeOK
<1>4. CASE Goto(s, detached) /\ (At(s, "verify") \/ At(s, "log"))
  <2>1. /\ detached \in HandlerState /\ detached.pc = h.pc
        /\ detached.payment = h.payment /\ detached.notice = None
        /\ detached.stage = h.stage
    BY <1>1 DEF HandlerState
  <2>2. handler'[s] = detached
    BY <1>4 DEF Goto, IInv, TypeOK
  <2>3. Recorded' = Recorded
    BY DEF Abort, Recorded, billing
  <2>4. h.pc \in {"verify", "log"}
    BY <1>4 DEF At
  <2>5. HandlerOK(s)'
    BY <1>1, <1>2, <2>1, <2>2, <2>3, <2>4 DEF HandlerOK
  <2>6. \A p \in Payments : Weight(detached, p) + history.owed[p]
                              <= history'.owed[p] + Weight(handler[s], p)
    <3>1. \A p \in Payments : Weight(detached, p) = Weight(handler[s], p)
      BY <2>1 DEF Weight, MayConfirm
    <3> QED
      BY <1>2, <3>1, WeightRange, Typed DEF IInv
  <2> HIDE DEF detached
  <2> QED
    BY <1>2, <1>4, <2>1, <2>5, <2>6, QuietStep DEF Abort, IInv, TypeOK
<1> QED
  BY <1>3, <1>4 DEF Abort

LEMMA PatchReadsKeeps ==
    ASSUME IInv, NEW s \in Slots, NEW p \in Recorded,
           NEW want \in PaymentStatus \cup {"kept"}, PatchReads(s, p, want)
    PROVE  IInv'
<1> DEFINE new == [IdleHandler EXCEPT !.pc = "write", !.payment = p,
                                      !.read = payment[p].status, !.want = want]
<1>1. p \in Payments /\ payment[p].status \in PaymentStatus /\ history \in History
  BY Typed DEF IInv, Recorded, PaymentRow
<1>2. new \in HandlerState /\ new.pc = "write" /\ new.payment = p /\ new.notice = None
  BY <1>1, IdleIsTyped DEF IdleHandler, HandlerState
<1>3. /\ history' \in History /\ history'.owed = history.owed
      /\ history'.completed = history.completed
      /\ history'.touched = history.touched /\ history'.failed = history.failed
      /\ history'.byHand = history.byHand /\ history'.unasked = history.unasked
  BY <1>1, RequestBooked DEF PatchReads
<1>4. Goto(s, new) /\ handler'[s] = new
  BY DEF PatchReads, Goto, IInv, TypeOK
<1>5. HandlerOK(s)'
  <2>1. Recorded' = Recorded
    BY DEF PatchReads, Recorded, billing
  <2> QED
    BY <1>1, <1>2, <1>4, <2>1 DEF HandlerOK
<1>6. \A q \in Payments : Weight(new, q) + history.owed[q]
                            <= history'.owed[q] + Weight(handler[s], q)
  <2>1. \A q \in Payments : Weight(new, q) = 0
    BY <1>2 DEF Weight, MayConfirm
  <2> QED
    BY <1>3, <2>1, WeightRange, Typed DEF IInv
<1> HIDE DEF new
<1> QED
  BY <1>2, <1>3, <1>4, <1>5, <1>6, QuietStep DEF PatchReads, IInv, TypeOK

LEMMA ConfirmByHandKeeps ==
    ASSUME IInv, NEW s \in Slots, NEW p \in Recorded, NEW stage \in CoreStages,
           ConfirmByHand(s, p, stage)
    PROVE  IInv'
<1> DEFINE new == [IdleHandler EXCEPT !.pc = "verify", !.payment = p,
                                      !.stage = stage]
<1>1. p \in Payments /\ history \in History
  BY Typed DEF IInv, Recorded
<1>2. new \in HandlerState /\ new.pc = "verify" /\ new.payment = p /\ new.notice = None
  BY <1>1, IdleIsTyped DEF IdleHandler, HandlerState, CoreStages, Stages
<1>3. /\ history' \in History
      /\ history'.owed = [history.owed EXCEPT ![p] = @ + 1]
      /\ history'.completed = history.completed
      /\ history'.touched = history.touched /\ history'.failed = history.failed
      /\ history'.byHand = history.byHand /\ history'.unasked = history.unasked
  <2>1. history.requests + 1 \in 0 .. MaxRequests
    BY <1>1 DEF ConfirmByHand, Request, History
  <2>2. [history.owed EXCEPT ![p] = @ + 1] \in [Payments -> Nat]
    BY <1>1 DEF History
  <2>3. history' = [history EXCEPT
                      !.requests = history.requests + 1,
                      !.owed = [history.owed EXCEPT ![p] = history.owed[p] + 1]]
    BY DEF ConfirmByHand
  <2> QED
    BY <1>1, <2>1, <2>2, <2>3 DEF History
<1>4. Goto(s, new) /\ handler'[s] = new
  BY DEF ConfirmByHand, Goto, IInv, TypeOK
<1>5. HandlerOK(s)'
  <2>1. Recorded' = Recorded
    BY DEF ConfirmByHand, Recorded, billing
  <2> QED
    BY <1>1, <1>2, <1>4, <2>1 DEF HandlerOK
<1>6. \A q \in Payments : Weight(new, q) + history.owed[q]
                            <= history'.owed[q] + Weight(handler[s], q)
  <2> SUFFICES ASSUME NEW q \in Payments
               PROVE  Weight(new, q) + history.owed[q]
                        <= history'.owed[q] + Weight(handler[s], q)
    OBVIOUS
  <2>1. history.owed \in [Payments -> Nat] /\ history.owed[q] \in Nat
    BY <1>1 DEF History
  <2>2. CASE q = p
    BY <1>1, <1>3, <2>1, <2>2, WeightRange
  <2>3. CASE q # p
    <3>1. Weight(new, q) = 0
      BY <1>2, <2>3 DEF Weight, MayConfirm
    <3> QED
      BY <1>1, <1>3, <2>1, <2>3, <3>1, WeightRange
  <2> QED
    BY <2>2, <2>3
<1> HIDE DEF new
<1> QED
  BY <1>2, <1>3, <1>4, <1>5, <1>6, QuietStep DEF ConfirmByHand, IInv, TypeOK

(* Reading and checking the project.                                       *)
LEMMA StatusReadsKeeps ==
    ASSUME IInv, NEW s \in Slots, NEW target \in ProjectStatus, StatusReads(s, target)
    PROVE  IInv'
<1> DEFINE new == [IdleHandler EXCEPT !.pc = "check", !.was = project,
                                      !.target = target]
<1>1. project \in ProjectStatus /\ history \in History
  BY DEF IInv, TypeOK
<1>2. new \in HandlerState /\ new.pc = "check" /\ new.notice = None
  BY <1>1, IdleIsTyped DEF IdleHandler, HandlerState
<1>3. Goto(s, new) /\ handler'[s] = new
  BY DEF StatusReads, Goto, IInv, TypeOK
<1>4. HandlerOK(s)'
  BY <1>2, <1>3 DEF HandlerOK
<1>5. \A q \in Payments : Weight(new, q) + history.owed[q]
                            <= history'.owed[q] + Weight(handler[s], q)
  <2>1. \A q \in Payments : Weight(new, q) = 0
    BY <1>2 DEF Weight, MayConfirm
  <2> QED
    BY <2>1, WeightRange, Typed DEF IInv, StatusReads
<1> HIDE DEF new
<1> QED
  BY <1>1, <1>2, <1>3, <1>4, <1>5, QuietStep DEF StatusReads, IInv, TypeOK

LEMMA StatusChecksKeeps ==
    ASSUME IInv, NEW s \in Slots, StatusChecks(s)
    PROVE  IInv'
<1> DEFINE h == handler[s]
           new == IF StatusAllowed(h.target) THEN [h EXCEPT !.pc = "status"]
                                             ELSE IdleHandler
<1>1. h \in HandlerState /\ h.pc = "check" /\ HandlerOK(s) /\ history \in History
  BY Typed DEF IInv, StatusChecks, At
<1>2. /\ new \in HandlerState /\ new.notice = None
      /\ new = IdleHandler
            \/ (/\ new.pc = "status" /\ new.target = h.target
                /\ StatusAllowed(h.target))
  BY <1>1, IdleIsTyped DEF HandlerState, HandlerOK, IdleHandler
<1>3. Goto(s, new) /\ handler'[s] = new
  BY DEF StatusChecks, Goto, IInv, TypeOK
<1>4. HandlerOK(s)'
  <2>1. FinalConfirmed' = FinalConfirmed
    BY DEF StatusChecks, FinalConfirmed, core
  <2> QED
    BY <1>2, <1>3, <2>1, IdleKnowsNothing DEF HandlerOK, StatusAllowed
<1>5. \A q \in Payments : Weight(new, q) + history.owed[q]
                            <= history'.owed[q] + Weight(handler[s], q)
  <2>1. \A q \in Payments : Weight(new, q) = 0
    BY <1>2, IdleIsTyped DEF Weight, MayConfirm
  <2> QED
    BY <2>1, WeightRange, Typed DEF IInv, StatusChecks
<1> HIDE DEF new
<1> QED
  BY <1>1, <1>2, <1>3, <1>4, <1>5, QuietStep DEF StatusChecks, IInv, TypeOK

----------------------------------------------------------------------------
(* Billing's writes.                                                       *)

LEMMA PaymentAdded ==
    ASSUME TypeOK, NEW p \in Payments, NEW i \in Invoices,
           NEW status \in PaymentStatus, AddPayment(p, i, status)
    PROVE  /\ payment' \in [Payments -> PaymentRow]
           /\ payment'[p].status = status /\ payment'[p].invoice = i
           /\ \A q \in Payments : q # p => payment'[q] = payment[q]
           /\ Recorded' = Recorded \cup {p}
<1>1. [status |-> status, invoice |-> i] \in PaymentRow
  BY DEF PaymentRow
<1>2. payment' \in [Payments -> PaymentRow]
  BY <1>1 DEF AddPayment, TypeOK
<1>3. payment'[p] = [status |-> status, invoice |-> i]
  BY DEF AddPayment, TypeOK
<1>4. \A q \in Payments : q # p => payment'[q] = payment[q]
  BY DEF AddPayment, TypeOK
<1>5. payment'[p].status = status /\ payment'[p].invoice = i
  BY <1>3
<1>6. i # None
  OBVIOUS
<1>7. Recorded' = Recorded \cup {p}
  BY <1>4, <1>5, <1>6 DEF Recorded
<1> QED
  BY <1>2, <1>4, <1>5, <1>7

LEMMA RecordKeeps ==
    ASSUME IInv, NEW s \in Slots, RecordPayment(s)
    PROVE  IInv'
<1> DEFINE h == handler[s]
           p == h.payment
           new == [h EXCEPT !.pc = "mark"]
<1>0. PICK n : n = h.notice
  OBVIOUS
<1>1. h \in HandlerState /\ h.pc = "pay" /\ HandlerOK(s) /\ history \in History
  BY Typed DEF IInv, RecordPayment, At
<1>2. /\ p \in Payments /\ n \in Notices /\ n # None /\ NoticeOf(p) = n
      /\ h.stage = StageOf[InvoiceOf[n]] /\ InvoiceOf[n] \in Invoices
  BY <1>0, <1>1, Typed DEF HandlerOK, IInv
<1>3. /\ payment' \in [Payments -> PaymentRow]
      /\ payment'[p].status = "COMPLETED"
      /\ \A q \in Payments : q # p => payment'[q] = payment[q]
      /\ Recorded' = Recorded \cup {p}
  <2>1. AddPayment(p, InvoiceOf[n], "COMPLETED")
    BY <1>0 DEF RecordPayment
  <2>2. "COMPLETED" \in PaymentStatus
    BY DEF PaymentStatus
  <2> QED
    BY <1>2, <2>1, <2>2, PaymentAdded DEF IInv
<1>4. /\ history' \in History
      /\ history'.owed = [history.owed EXCEPT ![p] = history.owed[p] + 1]
      /\ history'.completed = history.completed \cup {p}
      /\ history'.touched = history.touched /\ history'.failed = history.failed
      /\ history'.byHand = history.byHand /\ history'.unasked = history.unasked
  <2>1. [history.owed EXCEPT ![p] = history.owed[p] + 1] \in [Payments -> Nat]
    BY <1>1, <1>2 DEF History
  <2>2. history.completed \cup {p} \in SUBSET Payments
    BY <1>1, <1>2 DEF History
  <2>3. history' = [history EXCEPT
                      !.completed = history.completed \cup {p},
                      !.owed = [history.owed EXCEPT ![p] = history.owed[p] + 1]]
    BY DEF RecordPayment
  <2> QED
    BY <1>1, <2>1, <2>2, <2>3 DEF History
<1>5. /\ new \in HandlerState /\ new.pc = "mark" /\ new.payment = p
      /\ new.notice = n /\ new.stage = h.stage
  BY <1>0, <1>1 DEF HandlerState
<1>6. Goto(s, new) /\ handler'[s] = new
  BY DEF RecordPayment, Goto, IInv, TypeOK
<1>7. TypeOK'
  BY <1>3, <1>4, <1>5, <1>6 DEF RecordPayment, Goto, IInv, TypeOK, core
<1>8. Grows
  <2>1. \A q \in Payments : NoticeOf(q) \in Notices /\ Intact(q) => Intact(q)'
    BY <1>3, <1>4 DEF Intact
  <2>2. \A i \in Invoices : Marked(i) => Marked(i)'
    BY <1>4 DEF Marked, RecordPayment
  <2> QED
    BY <1>3, <1>4, <2>1, <2>2 DEF Grows, RecordPayment, core
<1>9. CompletedOK' /\ HandoffOK'
  <2>1. CompletedOK'
    BY <1>3, <1>4 DEF IInv, CompletedOK, RecordPayment, core
  <2> QED
    BY <1>4, <2>1 DEF IInv, HandoffOK, FinalConfirmed, RecordPayment, core
<1>10. HandlerOK(s)'
  <2>1. Intact(p)'
    <3>1. PICK q : q = p
      OBVIOUS
    <3>2. Intact(q)'
      BY <1>3, <3>1 DEF Intact
    <3> QED
      BY <1>5, <1>6, <3>1, <3>2
  <2> QED
    BY <1>2, <1>3, <1>5, <1>6, <2>1 DEF HandlerOK
<1>11. ASSUME NEW q \in Payments
       PROVE  Confirmations(q)' + Weight(new, q) + history.owed[q]
                <= history'.owed[q] + Confirmations(q) + Weight(handler[s], q)
  <2>1. Confirmations(q)' = Confirmations(q) /\ Confirmations(q) \in Nat
    BY Typed DEF Confirmations, RecordPayment, core, IInv
  <2>2. history.owed \in [Payments -> Nat] /\ history.owed[q] \in Nat
    BY <1>1 DEF History
  <2>3. CASE q = p
    BY <1>2, <1>4, <2>1, <2>2, <2>3, WeightRange
  <2>4. CASE q # p
    <3>1. Weight(new, q) = 0 /\ history'.owed[q] = history.owed[q]
      BY <1>2, <1>4, <1>5, <2>2, <2>4 DEF Weight, MayConfirm
    <3> QED
      BY <2>1, <2>2, <3>1, WeightRange
  <2> QED
    BY <2>3, <2>4
<1>12. \A q \in Notices : notice'[q].answered => notice[q].answered
  BY DEF RecordPayment
<1> HIDE DEF new
<1> QED
  BY <1>5, <1>6, <1>7, <1>8, <1>9, <1>10, <1>11, <1>12, StepKept

LEMMA MarkKeeps ==
    ASSUME IInv, NEW s \in Slots, MarkPaid(s)
    PROVE  IInv'
<1> DEFINE h == handler[s]
           new == [h EXCEPT !.pc = IF h.stage = "none" THEN "answer" ELSE "verify"]
<1>0. PICK n : n = h.notice
  OBVIOUS
<1>1. h \in HandlerState /\ h.pc = "mark" /\ HandlerOK(s) /\ history \in History
  BY Typed DEF IInv, MarkPaid, At
<1>2. /\ h.payment \in Payments /\ h.payment \in Recorded
      /\ n \in Notices /\ n # None /\ NoticeOf(h.payment) = n
      /\ h.stage = StageOf[InvoiceOf[n]] /\ InvoiceOf[n] \in Invoices
      /\ Intact(h.payment)
  BY <1>0, <1>1, Typed DEF HandlerOK, IInv
<1>3. invoice' = [invoice EXCEPT ![InvoiceOf[n]] = "PAID"]
  BY <1>0 DEF MarkPaid
<1>4. /\ history' \in History /\ history'.owed = history.owed
      /\ history'.completed = history.completed
      /\ history'.touched = history.touched /\ history'.failed = history.failed
      /\ history'.byHand = history.byHand \ {InvoiceOf[n]}
      /\ history'.unasked = history.unasked
  <2>1. history' = [history EXCEPT !.byHand = history.byHand \ {InvoiceOf[n]}]
    BY <1>0 DEF MarkPaid
  <2> QED
    BY <1>1, <2>1 DEF History
<1>5. /\ new \in HandlerState /\ new.payment = h.payment
      /\ new.notice = n /\ new.stage = h.stage
      /\ new.pc = IF h.stage = "none" THEN "answer" ELSE "verify"
  BY <1>0, <1>1 DEF HandlerState
<1>6. Goto(s, new) /\ handler'[s] = new
  BY DEF MarkPaid, Goto, IInv, TypeOK
<1>7. TypeOK'
  <2>1. invoice' \in [Invoices -> {"open", "PAID"}]
    BY <1>3 DEF IInv, TypeOK
  <2>2. handler' \in [Slots -> HandlerState]
    BY <1>5, <1>6 DEF Goto, IInv, TypeOK
  <2> QED
    BY <1>4, <2>1, <2>2 DEF MarkPaid, IInv, TypeOK, core
<1>8. Marked(InvoiceOf[n])'
  BY <1>2, <1>3 DEF Marked, IInv, TypeOK
<1>9. Grows
  <2>1. \A i \in Invoices : Marked(i) => Marked(i)'
    BY <1>2, <1>3, <1>4 DEF Marked, IInv, TypeOK
  <2>2. Recorded' = Recorded
    BY DEF MarkPaid, Recorded
  <2> QED
    BY <1>4, <2>1, <2>2 DEF Grows, Intact, MarkPaid, core
<1>10. CompletedOK' /\ HandoffOK'
  BY <1>4 DEF IInv, CompletedOK, HandoffOK, FinalConfirmed, Recorded, MarkPaid, core
<1>11. HandlerOK(s)'
  <2>1. Recorded \subseteq Recorded' /\ \A q \in Payments :
            NoticeOf(q) \in Notices /\ Intact(q) => Intact(q)'
    BY <1>9 DEF Grows
  <2>2. h.stage = "none" => Concluded(n)'
    BY <1>2 DEF Concluded, CoreStages
  <2>3. PICK q : q = h.payment
    OBVIOUS
  <2>4. Intact(q)'
    BY <1>2, <2>1, <2>3
  <2> HIDE DEF new
  <2> QED
    BY <1>2, <1>5, <1>6, <1>8, <2>1, <2>2, <2>3, <2>4 DEF HandlerOK
<1>12. ASSUME NEW q \in Payments
       PROVE  Confirmations(q)' + Weight(new, q) + history.owed[q]
                <= history'.owed[q] + Confirmations(q) + Weight(handler[s], q)
  <2>1. Confirmations(q)' = Confirmations(q) /\ Confirmations(q) \in Nat
    BY Typed DEF Confirmations, MarkPaid, core, IInv
  <2>2. history.owed[q] \in Nat
    BY Typed DEF IInv
  <2>3. Weight(new, q) <= Weight(handler[s], q)
    BY <1>1, <1>5 DEF Weight, MayConfirm
  <2> QED
    BY <1>4, <2>1, <2>2, <2>3, WeightRange
<1>13. \A q \in Notices : notice'[q].answered => notice[q].answered
  BY DEF MarkPaid
<1> HIDE DEF new
<1> QED
  BY <1>5, <1>6, <1>7, <1>9, <1>10, <1>11, <1>12, <1>13, StepKept

LEMMA AnswerKeeps ==
    ASSUME IInv, NEW s \in Slots, Answer(s)
    PROVE  IInv'
<1> DEFINE h == handler[s]
<1>0. PICK n : n = h.notice
  OBVIOUS
<1>1. h \in HandlerState /\ h.pc = "answer" /\ HandlerOK(s)
  BY Typed DEF IInv, Answer, At
<1>2. /\ n \in Notices /\ n # None /\ h.payment \in Recorded
      /\ NoticeOf(h.payment) = n /\ Marked(InvoiceOf[n]) /\ Concluded(n)
  BY <1>0, <1>1 DEF HandlerOK
<1>3. AnsweredOK(n)
  BY <1>2 DEF AnsweredOK, PaymentsOf
<1>4. notice' = [notice EXCEPT ![n].answered = TRUE]
  BY <1>0 DEF Answer
<1>5. Goto(s, IdleHandler) /\ handler'[s] = IdleHandler
  BY DEF Answer, Goto, IInv, TypeOK
<1>6. TypeOK'
  <2>1. notice' \in [Notices -> [deliveries : 0 .. MaxDeliveries, answered : BOOLEAN]]
    BY <1>4 DEF IInv, TypeOK
  <2>2. handler' \in [Slots -> HandlerState]
    BY <1>5, IdleIsTyped DEF Goto, IInv, TypeOK
  <2> QED
    BY <2>1, <2>2 DEF Answer, IInv, TypeOK, billing, core
<1>7. Grows
  BY GrowsQuietly DEF IInv, Answer, billing, core
<1>8. CompletedOK' /\ HandoffOK'
  BY DEF IInv, CompletedOK, HandoffOK, FinalConfirmed, Recorded, Answer, billing, core
<1>9. \A q \in Notices : notice'[q].answered => notice[q].answered \/ AnsweredOK(q)'
  <2>1. AnsweredOK(n)'
    BY <1>2, <1>3, <1>7, AnsweredGrows DEF IInv
  <2>2. \A q \in Notices : q # n => notice'[q].answered = notice[q].answered
    BY <1>4 DEF IInv, TypeOK
  <2> QED
    BY <2>1, <2>2
<1>10. ASSUME NEW q \in Payments
       PROVE  Confirmations(q)' + Weight(IdleHandler, q) + history.owed[q]
                <= history'.owed[q] + Confirmations(q) + Weight(handler[s], q)
  <2>1. Confirmations(q)' = Confirmations(q) /\ Confirmations(q) \in Nat
    BY Typed DEF Confirmations, Answer, core, IInv
  <2>2. history.owed[q] \in Nat /\ history' = history
    BY Typed DEF IInv, Answer
  <2> QED
    BY <2>1, <2>2, IdleIsTyped, WeightRange
<1> QED
  BY <1>5, <1>6, <1>7, <1>8, <1>9, <1>10, IdleIsTyped, IdleKnowsNothing, StepKept

(* PATCH /payments/:id.                                                    *)
LEMMA PatchWritesKeeps ==
    ASSUME IInv, NEW s \in Slots, PatchWrites(s)
    PROVE  IInv'
<1> DEFINE h == handler[s]
           p == h.payment
           now == payment[p].status
           status == IF h.want = "kept" THEN now ELSE h.want
           stage == StageOf[payment[p].invoice]
           transition == status = "COMPLETED" /\ now # "COMPLETED"
           stale == h.read # now
           calls == BecameCompleted(h.read, status) /\ stage # "none"
           new == IF calls THEN [h EXCEPT !.pc = "verify", !.stage = stage]
                           ELSE IdleHandler
           owed == IF transition \/ stale THEN history.owed[p] + 1 ELSE history.owed[p]
           completed == IF transition THEN history.completed \cup {p}
                                      ELSE history.completed
           touched == history.touched \cup ({NoticeOf(p)} \ {None})
<1>1. h \in HandlerState /\ h.pc = "write" /\ HandlerOK(s) /\ history \in History
  BY Typed DEF IInv, PatchWrites, At
<1>2. /\ p \in Payments /\ p \in Recorded /\ h.notice = None
      /\ payment[p] \in PaymentRow /\ payment[p].invoice \in Invoices
      /\ NoticeOf(p) \in Notices \cup {None}
  BY <1>1, Typed, PaymentNames DEF HandlerOK, IInv
<1>3. now \in PaymentStatus /\ status \in PaymentStatus /\ stage \in Stages \cup {"none"}
  BY <1>1, <1>2 DEF PaymentRow, HandlerState
<1>4. payment' = [payment EXCEPT ![p] = [payment[p] EXCEPT !.status = status]]
  BY DEF PatchWrites
<1>5. /\ payment' \in [Payments -> PaymentRow]
      /\ payment'[p].status = status /\ payment'[p].invoice = payment[p].invoice
      /\ \A q \in Payments : q # p => payment'[q] = payment[q]
  <2>1. [payment[p] EXCEPT !.status = status] \in PaymentRow
    BY <1>2, <1>3 DEF PaymentRow
  <2>2. payment \in [Payments -> PaymentRow]
    BY DEF IInv, TypeOK
  <2> HIDE DEF status
  <2> QED
    BY <1>2, <1>4, <2>1, <2>2 DEF PaymentRow
<1>6. Recorded' = Recorded
  BY <1>2, <1>5 DEF Recorded
<1>7. /\ history' \in History
      /\ history'.owed = [history.owed EXCEPT ![p] = owed]
      /\ history'.completed = completed /\ history'.touched = touched
      /\ history'.failed = history.failed /\ history'.byHand = history.byHand
      /\ history'.unasked = history.unasked
  <2>1. [history.owed EXCEPT ![p] = owed] \in [Payments -> Nat]
    BY <1>1, <1>2 DEF History
  <2>2. completed \in SUBSET Payments /\ touched \in SUBSET Notices
    BY <1>1, <1>2 DEF History
  <2>3. history' = [history EXCEPT !.touched = touched, !.completed = completed,
                                   !.owed = [history.owed EXCEPT ![p] = owed]]
    BY DEF PatchWrites
  <2> HIDE DEF owed, completed, touched
  <2> QED
    BY <1>1, <2>1, <2>2, <2>3 DEF History
<1>8. /\ new \in HandlerState /\ new.notice = None
      /\ new.pc \in {"verify", "idle"}
      /\ new.pc = "verify" => new.payment = p
      /\ new = IdleHandler \/ (new.pc = "verify" /\ calls)
  <2>1. [h EXCEPT !.pc = "verify", !.stage = stage] \in HandlerState
    BY <1>1, <1>3 DEF HandlerState
  <2> QED
    BY <1>1, <1>2, <2>1, IdleIsTyped DEF HandlerState, IdleHandler
<1>9. Goto(s, new) /\ handler'[s] = new
  BY DEF PatchWrites, Goto, IInv, TypeOK
<1>10. TypeOK'
  <2>1. handler' \in [Slots -> HandlerState]
    BY <1>8, <1>9 DEF Goto, IInv, TypeOK
  <2> QED
    BY <1>5, <1>7, <2>1 DEF PatchWrites, IInv, TypeOK, core
<1>11. Grows
  <2>1. \A q \in Payments : NoticeOf(q) \in Notices /\ Intact(q) => Intact(q)'
    <3> SUFFICES ASSUME NEW q \in Payments, NoticeOf(q) \in Notices, Intact(q)
                 PROVE  Intact(q)'
      OBVIOUS
    <3>1. CASE q = p
      BY <1>7, <3>1 DEF Intact
    <3>2. CASE q # p
      BY <1>5, <1>7, <3>2 DEF Intact
    <3> QED
      BY <3>1, <3>2
  <2>2. \A i \in Invoices : Marked(i) => Marked(i)'
    BY <1>7 DEF Marked, PatchWrites
  <2> QED
    BY <1>6, <1>7, <2>1, <2>2 DEF Grows, PatchWrites, core
<1>12. CompletedOK' /\ HandoffOK'
  <2>1. history.completed \subseteq completed /\ completed \subseteq Recorded
    BY <1>2 DEF IInv, CompletedOK
  <2>2. status = "COMPLETED" => p \in completed
    BY <1>2, <1>3 DEF IInv, CompletedOK, PaymentStatus
  <2>3. CompletedOK'
    <3> HIDE DEF status, completed
    <3>1. history'.completed \subseteq Recorded'
      BY <1>6, <1>7, <2>1
    <3>2. ASSUME NEW q \in Payments, payment'[q].status = "COMPLETED"
          PROVE  q \in history'.completed
      BY <1>5, <1>7, <2>1, <2>2, <3>2 DEF IInv, CompletedOK
    <3>3. ASSUME NEW q \in Payments, NEW g \in CoreStages, confirmed'[q][g] > 0
          PROVE  q \in history'.completed
      BY <1>7, <2>1, <3>3 DEF IInv, CompletedOK, PatchWrites, core
    <3> QED
      BY <3>1, <3>2, <3>3 DEF CompletedOK
  <2>4. HandoffOK'
    BY <1>7 DEF IInv, HandoffOK, FinalConfirmed, PatchWrites, core
  <2> QED
    BY <2>3, <2>4
<1>13. HandlerOK(s)'
  <2> HIDE DEF new
  <2> QED
    BY <1>2, <1>6, <1>8, <1>9 DEF HandlerOK
<1>14. ASSUME NEW q \in Payments
       PROVE  Confirmations(q)' + Weight(new, q) + history.owed[q]
                <= history'.owed[q] + Confirmations(q) + Weight(handler[s], q)
  <2>1. Confirmations(q)' = Confirmations(q) /\ Confirmations(q) \in Nat
    BY Typed DEF Confirmations, PatchWrites, core, IInv
  <2>2. history.owed \in [Payments -> Nat] /\ history.owed[q] \in Nat
    BY <1>1 DEF History
  <2>3. CASE q = p /\ calls
    <3>1. transition \/ stale
      BY <2>3 DEF BecameCompleted
    <3>2. history'.owed[q] = history.owed[q] + 1
      BY <1>2, <1>7, <2>2, <2>3, <3>1
    <3> QED
      BY <2>1, <2>2, <3>2, WeightRange
  <2>4. CASE ~(q = p /\ calls)
    <3>1. Weight(new, q) = 0
      BY <1>8, <2>4, IdleIsTyped DEF Weight, MayConfirm
    <3>2. history'.owed[q] >= history.owed[q] /\ history'.owed[q] \in Nat
      BY <1>2, <1>7, <2>2
    <3> QED
      BY <2>1, <2>2, <3>1, <3>2, WeightRange
  <2> QED
    BY <2>3, <2>4
<1>15. \A q \in Notices : notice'[q].answered => notice[q].answered
  BY DEF PatchWrites
<1> HIDE DEF new
<1> QED
  BY <1>8, <1>9, <1>10, <1>11, <1>12, <1>13, <1>14, <1>15, StepKept

----------------------------------------------------------------------------
(* Core's writes.                                                          *)

LEMMA LogKeeps ==
    ASSUME IInv, NEW s \in Slots, LogMilestone(s)
    PROVE  IInv'
<1> DEFINE h == handler[s]
           p == h.payment
           g == h.stage
           row == [confirmed[p] EXCEPT ![g] = @ + 1]
<1>0. PICK n : n = h.notice
  OBVIOUS
<1>1. h \in HandlerState /\ h.pc = "log" /\ HandlerOK(s) /\ history \in History
  BY Typed DEF IInv, LogMilestone, At
<1>2. p \in Payments /\ g \in CoreStages /\ p \in history.completed /\ p \in Recorded
  BY <1>1 DEF HandlerOK
<1>3. confirmed \in [Payments -> [CoreStages -> Nat]]
  BY DEF IInv, TypeOK
<1>4. confirmed' = [confirmed EXCEPT ![p] = row] /\ row \in [CoreStages -> Nat]
  BY <1>2, <1>3 DEF LogMilestone
<1>5. /\ confirmed' \in [Payments -> [CoreStages -> Nat]]
      /\ confirmed'[p][g] = confirmed[p][g] + 1
      /\ \A q \in Payments, k \in CoreStages :
            q # p \/ k # g => confirmed'[q][k] = confirmed[q][k]
  <2>1. row[g] = confirmed[p][g] + 1 /\ \A k \in CoreStages : k # g => row[k] = confirmed[p][k]
    BY <1>2, <1>3
  <2> HIDE DEF row
  <2> QED
    BY <1>2, <1>3, <1>4, <2>1
<1>6. Goto(s, AfterCall(s)) /\ handler'[s] = AfterCall(s)
  BY AfterCallTyped DEF LogMilestone, Goto, IInv, TypeOK
<1>7. TypeOK'
  <2>1. handler' \in [Slots -> HandlerState]
    BY <1>6, AfterCallTyped DEF Goto, IInv, TypeOK
  <2> QED
    BY <1>5, <2>1 DEF LogMilestone, IInv, TypeOK, billing
<1>8. confirmed[p][g] \in Nat /\ confirmed'[p][g] > 0
  BY <1>2, <1>3, <1>5
<1>9. Grows
  <2>1. Recorded' = Recorded
    BY DEF Recorded, LogMilestone, billing
  <2>2. \A q \in Payments, k \in CoreStages :
           confirmed[q][k] > 0 => confirmed'[q][k] > 0
    BY <1>5, <1>8
  <2> QED
    BY <2>1, <2>2 DEF Grows, Marked, Intact, LogMilestone, billing
<1>10. CompletedOK' /\ HandoffOK'
  <2>1. CompletedOK'
    BY <1>2, <1>5 DEF IInv, CompletedOK, Recorded, LogMilestone, billing
  <2>2. HandoffOK'
    BY <1>9, FinalGrows DEF IInv, HandoffOK, LogMilestone
  <2> QED
    BY <2>1, <2>2
<1>11. HandlerOK(s)'
  <2>1. ASSUME n # None
        PROVE  Concluded(n)'
    <3>1. NoticeOf(p) = n /\ g = StageOf[InvoiceOf[n]]
      BY <1>0, <1>1, <2>1 DEF HandlerOK
    <3>2. PICK q \in PaymentsOf(n) : q = p
      BY <1>2, <3>1 DEF PaymentsOf
    <3>3. q \in PaymentsOf(n)'
      BY <1>9, <3>2, PaymentsOfGrow
    <3>4. confirmed'[q][StageOf[InvoiceOf[n]]] > 0
      BY <1>8, <3>1, <3>2
    <3> QED
      BY <3>3, <3>4 DEF Concluded, ConfirmedBy
  <2> QED
    BY <1>0, <1>6, <1>9, <2>1, AfterCallOK DEF LogMilestone
<1>12. ASSUME NEW q \in Payments
       PROVE  Confirmations(q)' + Weight(AfterCall(s), q) + history.owed[q]
                <= history'.owed[q] + Confirmations(q) + Weight(handler[s], q)
  <2>1. Weight(AfterCall(s), q) = 0 /\ history' = history /\ history.owed[q] \in Nat
    BY AfterCallTyped, Typed DEF LogMilestone, IInv
  <2>2. CASE q = p
    <3>1. Confirmations(q)' = Confirmations(q) + 1
      BY <1>2, <1>3, <1>5, <2>2 DEF Confirmations, CoreStages
    <3>2. Weight(handler[s], q) = 1
      BY <1>1, <2>2 DEF Weight, MayConfirm
    <3>3. Confirmations(q) \in Nat
      BY Typed DEF IInv
    <3> QED
      BY <2>1, <3>1, <3>2, <3>3
  <2>3. CASE q # p
    <3>1. Confirmations(q)' = Confirmations(q) /\ Confirmations(q) \in Nat
      BY <1>5, <2>3, Typed DEF Confirmations, CoreStages, IInv
    <3> QED
      BY <2>1, <3>1, WeightRange
  <2> QED
    BY <2>2, <2>3
<1>13. \A q \in Notices : notice'[q].answered => notice[q].answered
  BY DEF LogMilestone
<1> QED
  BY <1>6, <1>7, <1>9, <1>10, <1>11, <1>12, <1>13, AfterCallTyped, StepKept

(* Steps that change neither a request nor what is counted.                *)
LEMMA StillKept ==
    ASSUME IInv, TypeOK', Grows, CompletedOK', HandoffOK',
           UNCHANGED <<handler, notice, confirmed>>,
           history'.owed = history.owed
    PROVE  IInv'
<1>1. Counting'
  BY DEF IInv, Counting, Pending, Confirmations
<1>2. \A s \in Slots : HandlerOK(s)'
  BY OthersKept DEF IInv
<1>3. \A n \in Notices : notice'[n].answered => AnsweredOK(n)'
  BY AnsweredGrows DEF IInv
<1> QED
  BY <1>1, <1>2, <1>3 DEF IInv

(* Steps of a slot that write the project or its final invoice.            *)
LEMMA ProjectStep ==
    ASSUME IInv, NEW s \in Slots, NEW new \in HandlerState, Goto(s, new),
           UNCHANGED <<billing, confirmed, notice>>,
           project' \in ProjectStatus, finalIssued' \in BOOLEAN,
           NEW unasked \in BOOLEAN, history' = [history EXCEPT !.unasked = unasked],
           HandoffOK', \A p \in Payments : Weight(new, p) = 0,
           HandlerOK(s)'
    PROVE  IInv'
<1>1. /\ history' \in History /\ history'.owed = history.owed
      /\ history'.completed = history.completed
      /\ history'.touched = history.touched /\ history'.failed = history.failed
      /\ history'.byHand = history.byHand
  BY DEF IInv, TypeOK, History
<1>2. handler' \in [Slots -> HandlerState]
  BY DEF Goto, IInv, TypeOK
<1>3. TypeOK'
  BY <1>1, <1>2 DEF IInv, TypeOK, billing
<1>4. Grows
  BY <1>1, GrowsQuietly DEF IInv, billing
<1>5. CompletedOK'
  BY <1>1 DEF IInv, CompletedOK, Recorded, billing
<1>6. ASSUME NEW p \in Payments
      PROVE  Confirmations(p)' + Weight(new, p) + history.owed[p]
                <= history'.owed[p] + Confirmations(p) + Weight(handler[s], p)
  <2>1. Confirmations(p)' = Confirmations(p) /\ Confirmations(p) \in Nat
    BY Typed DEF Confirmations, IInv
  <2>2. history.owed[p] \in Nat
    BY Typed DEF IInv
  <2> QED
    BY <1>1, <2>1, <2>2, WeightRange
<1> QED
  BY <1>3, <1>4, <1>5, <1>6, StepKept

LEMMA StatusWritesKeeps ==
    ASSUME IInv, NEW s \in Slots, StatusWrites(s)
    PROVE  IInv'
<1> DEFINE h == handler[s]
           new == IF h.target = "COMPLETED" /\ h.was # "COMPLETED"
                  THEN [h EXCEPT !.pc = "bill"] ELSE IdleHandler
<1>1. h \in HandlerState /\ h.pc = "status" /\ HandlerOK(s)
  BY Typed DEF IInv, StatusWrites, At
<1>2. FinalConfirmed' = FinalConfirmed
  BY DEF StatusWrites, FinalConfirmed
<1>3. /\ h.notice = None /\ h.target \in ProjectStatus
      /\ h.target = "COMPLETED" => FinalConfirmed'
  BY <1>1, <1>2 DEF HandlerOK, HandlerState
<1>4. /\ new \in HandlerState /\ new.notice = None
      /\ new = IdleHandler \/ (new.pc = "bill" /\ h.target = "COMPLETED")
  BY <1>1, <1>3, IdleIsTyped DEF HandlerState, IdleHandler
<1>5. Goto(s, new) /\ handler'[s] = new
  BY DEF StatusWrites, Goto, IInv, TypeOK
<1>6. HandlerOK(s)'
  <2> HIDE DEF new
  <2> QED
    BY <1>3, <1>4, <1>5, IdleKnowsNothing DEF HandlerOK
<1>7. HandoffOK'
  BY <1>2, <1>3 DEF HandoffOK, IInv, StatusWrites
<1>8. \A p \in Payments : Weight(new, p) = 0
  BY <1>4, IdleIsTyped DEF Weight, MayConfirm
<1>9. project' \in ProjectStatus /\ finalIssued' \in BOOLEAN
  BY <1>3 DEF StatusWrites, IInv, TypeOK
<1> HIDE DEF new
<1> QED
  BY <1>4, <1>5, <1>6, <1>7, <1>8, <1>9, ProjectStep DEF StatusWrites

LEMMA IssueFinalKeeps ==
    ASSUME IInv, NEW s \in Slots, IssueFinal(s)
    PROVE  IInv'
<1>1. handler[s].pc = "bill" /\ HandlerOK(s)
  BY DEF IInv, IssueFinal, At
<1>2. FinalConfirmed' /\ HandoffOK'
  BY <1>1 DEF HandlerOK, HandoffOK, IssueFinal, FinalConfirmed
<1>3. handler'[s] = IdleHandler
  BY DEF IssueFinal, Goto, IInv, TypeOK
<1>4. history.unasked \in BOOLEAN
      /\ history' = [history EXCEPT !.unasked = history.unasked]
  BY Typed DEF IssueFinal, IInv, History
<1>5. project' \in ProjectStatus /\ finalIssued' \in BOOLEAN
  BY DEF IssueFinal, IInv, TypeOK
<1> QED
  BY <1>2, <1>3, <1>4, <1>5, IdleIsTyped, IdleKnowsNothing, ProjectStep DEF IssueFinal

----------------------------------------------------------------------------
(* Writes by hand that no request carries on.                              *)

LEMMA PostKeeps ==
    ASSUME IInv, NEW i \in Invoices, NEW status \in PaymentStatus, PostPayment(i, status)
    PROVE  IInv'
<1> DEFINE p == <<None, history.posted + 1>>
           completed == IF status = "COMPLETED" THEN history.completed \cup {p}
                                                ELSE history.completed
<1>1. history \in History /\ history.posted + 1 \in 1 .. MaxPosted
  BY Typed DEF IInv, PostPayment, History
<1>2. p \in Payments /\ NoticeOf(p) = None
  BY <1>1, PaymentNames
<1> HIDE DEF p
<1>3. /\ payment' \in [Payments -> PaymentRow]
      /\ payment'[p].status = status
      /\ \A q \in Payments : q # p => payment'[q] = payment[q]
      /\ Recorded' = Recorded \cup {p}
  <2>1. AddPayment(p, i, status)
    BY DEF PostPayment, p
  <2> QED
    BY <1>2, <2>1, PaymentAdded DEF IInv
<1>4. /\ history' \in History /\ history'.owed = history.owed
      /\ history'.completed = completed
      /\ history'.touched = history.touched /\ history'.failed = history.failed
      /\ history'.byHand = history.byHand /\ history'.unasked = history.unasked
  <2>1. completed \in SUBSET Payments
    BY <1>1, <1>2 DEF History
  <2>2. history' = [history EXCEPT !.posted = history.posted + 1,
                                   !.completed = completed]
    BY DEF PostPayment, p
  <2>3. history.posted + 1 \in 0 .. MaxPosted
    BY <1>1
  <2> HIDE DEF completed
  <2> QED
    BY <1>1, <2>1, <2>2, <2>3 DEF History
<1>5. TypeOK'
  BY <1>3, <1>4 DEF PostPayment, IInv, TypeOK, core
<1>6. Grows
  <2>1. \A q \in Payments : NoticeOf(q) \in Notices /\ Intact(q) => Intact(q)'
    BY <1>2, <1>3, <1>4 DEF Intact
  <2>2. \A k \in Invoices : Marked(k) => Marked(k)'
    BY <1>4 DEF Marked, PostPayment
  <2> QED
    BY <1>3, <1>4, <2>1, <2>2 DEF Grows, PostPayment, core
<1>7. CompletedOK' /\ HandoffOK'
  <2>1. CompletedOK'
    BY <1>2, <1>3, <1>4 DEF IInv, CompletedOK, PostPayment, core
  <2> QED
    BY <1>4, <2>1 DEF IInv, HandoffOK, FinalConfirmed, PostPayment, core
<1> QED
  BY <1>4, <1>5, <1>6, <1>7, StillKept DEF PostPayment, core

LEMMA PatchInvoiceKeeps ==
    ASSUME IInv, NEW i \in Invoices, NEW status \in {"open", "PAID"},
           PatchInvoice(i, status)
    PROVE  IInv'
<1>1. history \in History /\ history.requests + 1 \in 0 .. MaxRequests
  BY Typed DEF IInv, PatchInvoice, History, Request
<1>2. /\ history' \in History /\ history'.owed = history.owed
      /\ history'.completed = history.completed
      /\ history'.touched = history.touched /\ history'.failed = history.failed
      /\ history'.byHand = history.byHand \cup {i}
      /\ history'.unasked = history.unasked
  <2>1. history' = [history EXCEPT !.requests = history.requests + 1,
                                   !.byHand = history.byHand \cup {i}]
    BY DEF PatchInvoice
  <2>2. history.byHand \cup {i} \in SUBSET Invoices
    BY <1>1 DEF History
  <2> QED
    BY <1>1, <2>1, <2>2 DEF History
<1>3. invoice' \in [Invoices -> {"open", "PAID"}]
      /\ \A k \in Invoices : k # i => invoice'[k] = invoice[k]
  BY DEF PatchInvoice, IInv, TypeOK
<1>4. TypeOK'
  BY <1>2, <1>3 DEF PatchInvoice, IInv, TypeOK, core
<1>5. Grows
  <2>1. \A k \in Invoices : Marked(k) => Marked(k)'
    BY <1>2, <1>3 DEF Marked
  <2> QED
    BY <1>2, <2>1 DEF Grows, Intact, Recorded, PatchInvoice, core
<1>6. CompletedOK' /\ HandoffOK'
  BY <1>2 DEF IInv, CompletedOK, HandoffOK, FinalConfirmed, Recorded, PatchInvoice, core
<1> QED
  BY <1>2, <1>4, <1>5, <1>6, StillKept DEF PatchInvoice, core

LEMMA BulkKeeps ==
    ASSUME IInv, NEW target \in ProjectStatus, BulkStatus(target)
    PROVE  IInv'
<1>1. /\ history' \in History /\ history'.owed = history.owed
      /\ history'.completed = history.completed
      /\ history'.touched = history.touched /\ history'.failed = history.failed
      /\ history'.byHand = history.byHand
      /\ history'.unasked = (target = "COMPLETED")
  BY Typed DEF IInv, BulkStatus, History
<1>2. TypeOK'
  BY <1>1 DEF BulkStatus, IInv, TypeOK, billing
<1>3. Grows
  BY <1>1, GrowsQuietly DEF IInv, BulkStatus, billing
<1>4. CompletedOK' /\ HandoffOK'
  BY <1>1 DEF IInv, CompletedOK, HandoffOK, FinalConfirmed, Recorded, BulkStatus, billing
<1> QED
  BY <1>1, <1>2, <1>3, <1>4, StillKept DEF BulkStatus

----------------------------------------------------------------------------
(* The invariant.                                                          *)

LEMMA InitSatisfies == Init => IInv
<1> SUFFICES ASSUME Init PROVE IInv
  OBVIOUS
<1>1. /\ NoPayment \in PaymentRow /\ NoPayment.status # "COMPLETED"
      /\ NoPayment.invoice = None
  BY DEF NoPayment, PaymentRow, PaymentStatus
<1>2. Recorded = {}
  BY <1>1 DEF Init, Recorded
<1>3. history \in History /\ history.completed = {}
      /\ history.unasked = (project = "COMPLETED")
      /\ history.owed = [p \in Payments |-> 0]
  BY DEF Init, History
<1>4. TypeOK
  <2>1. /\ invoice \in [Invoices -> {"open", "PAID"}]
        /\ payment \in [Payments -> PaymentRow]
        /\ confirmed \in [Payments -> [CoreStages -> Nat]]
    BY <1>1 DEF Init
  <2>2. project \in ProjectStatus /\ finalIssued \in BOOLEAN
    BY DEF Init
  <2>3. notice \in [Notices -> [deliveries : 0 .. MaxDeliveries, answered : BOOLEAN]]
    BY DEF Init
  <2>4. handler \in [Slots -> HandlerState]
    BY IdleIsTyped DEF Init
  <2> QED
    BY <1>3, <2>1, <2>2, <2>3, <2>4 DEF TypeOK
<1>5. CompletedOK
  BY <1>1, <1>2, <1>3 DEF Init, CompletedOK
<1>6. HandoffOK
  BY <1>3 DEF Init, HandoffOK
<1>7. Counting
  <2> SUFFICES ASSUME NEW p \in Payments
               PROVE  /\ IsFiniteSet(Pending(p))
                      /\ Confirmations(p) + Cardinality(Pending(p)) <= history.owed[p]
    BY DEF Counting
  <2>1. Pending(p) = {}
    BY DEF Init, Pending, MayConfirm, IdleHandler
  <2>2. Confirmations(p) = 0
    BY DEF Init, Confirmations, CoreStages
  <2> QED
    BY <1>3, <2>1, <2>2, FS_EmptySet
<1>8. \A s \in Slots : HandlerOK(s)
  BY DEF Init, HandlerOK, IdleHandler
<1> QED
  BY <1>4, <1>5, <1>6, <1>7, <1>8 DEF Init, IInv

LEMMA StepKeeps == IInv /\ [Next]_vars => IInv'
<1> SUFFICES ASSUME IInv, [Next]_vars PROVE IInv'
  OBVIOUS
<1>1. CASE \E s \in Slots : Notify(s) \/ Process(s) \/ CallFails(s) \/ Abort(s)
  <2>1. PICK s \in Slots : Notify(s) \/ Process(s) \/ CallFails(s) \/ Abort(s)
    BY <1>1
  <2>2. CASE Notify(s)
    BY <2>2, DeliverKeeps DEF Notify
  <2>3. CASE Process(s)
    BY <2>3, RecordKeeps, MarkKeeps, AnswerKeeps, VerifyKeeps, LogKeeps,
       PatchWritesKeeps, StatusChecksKeeps, StatusWritesKeeps, IssueFinalKeeps
       DEF Process
  <2> QED
    BY <2>1, <2>2, <2>3, CallFailsKeeps, AbortKeeps
<1>2. CASE ByHand
  BY <1>2, PostKeeps, PatchInvoiceKeeps, PatchReadsKeeps, ConfirmByHandKeeps,
     StatusReadsKeeps, BulkKeeps DEF ByHand
<1>3. CASE UNCHANGED vars
  <2>1. /\ TypeOK' /\ CompletedOK' /\ HandoffOK'
        /\ UNCHANGED <<handler, notice, confirmed, payment, invoice, history>>
    BY <1>3 DEF vars, IInv, TypeOK, CompletedOK, HandoffOK, FinalConfirmed, Recorded
  <2>2. Grows
    BY <2>1, GrowsQuietly DEF IInv
  <2> QED
    BY <2>1, <2>2, StillKept
<1> QED
  BY <1>1, <1>2, <1>3 DEF Next

(* What every request, payment and answer knows of the others, at any      *)
(* time: nothing that was written is taken back (payfast.ts, payments.ts   *)
(* and the milestones of projects.ts).                                     *)
THEOREM Inductive == Spec => []IInv
<1> QED
  BY InitSatisfies, StepKeeps, PTL DEF Spec

(* Records keep their form, for any number of invoices and requests.       *)
THEOREM TypeCorrect == Spec => []TypeOK
<1>1. IInv => TypeOK
  BY DEF IInv
<1> QED
  BY <1>1, Inductive, PTL

(* A notice that was answered was recorded, and its invoice marked, in     *)
(* POST /payfast/itn.                                                      *)
THEOREM AnsweredRecorded == Spec => []AnsweredIsRecorded
<1>1. IInv => AnsweredIsRecorded
  BY DEF IInv, AnsweredIsRecorded, AnsweredOK, Marked
<1> QED
  BY <1>1, Inductive, PTL

(* A notice that was answered has its milestone confirmed, or the call to  *)
(* core failed, or its payment was updated by hand before.                 *)
THEOREM AnsweredConfirmed == Spec => []AnsweredIsConfirmed
<1>1. IInv => AnsweredIsConfirmed
  BY DEF IInv, AnsweredIsConfirmed, AnsweredOK, Concluded
<1> QED
  BY <1>1, Inductive, PTL

(* What is confirmed and what is in flight together do not exceed what is  *)
(* owed, so neither does what is confirmed.                                *)
LEMMA OwedHolds == IInv => ConfirmationsAreOwed
<1> SUFFICES ASSUME IInv, NEW p \in Payments
             PROVE  Confirmations(p) <= history.owed[p]
  BY DEF ConfirmationsAreOwed
<1>1. /\ IsFiniteSet(Pending(p))
      /\ Confirmations(p) + Cardinality(Pending(p)) <= history.owed[p]
  BY DEF IInv, Counting
<1>2. Cardinality(Pending(p)) \in Nat
  BY <1>1, FS_CardinalityType
<1>3. Confirmations(p) \in Nat /\ history.owed[p] \in Nat
  BY Typed DEF IInv
<1> QED
  BY <1>1, <1>2, <1>3

(* A payment confirms no more often than it became COMPLETED, was asked    *)
(* for by hand or was patched with an old status: what is confirmed and    *)
(* what is in flight together never exceed that.                           *)
THEOREM Owed == Spec => []ConfirmationsAreOwed
BY OwedHolds, Inductive, PTL

(* A project completed through PATCH /projects/:id/status, and one whose   *)
(* final invoice exists, has its last milestone confirmed by a payment     *)
(* that was COMPLETED.                                                     *)
THEOREM HandoffPaid == Spec => []HandoffWasPaid
<1>1. IInv => HandoffWasPaid
  <2> SUFFICES ASSUME IInv, FinalConfirmed
               PROVE  \E p \in history.completed : confirmed[p]["FINAL_20"] > 0
    BY DEF IInv, HandoffOK, HandoffWasPaid
  <2>1. PICK p \in Payments : confirmed[p]["FINAL_20"] > 0
    BY DEF FinalConfirmed
  <2>2. "FINAL_20" \in CoreStages
    BY DEF CoreStages
  <2> QED
    BY <2>1, <2>2 DEF IInv, CompletedOK
<1> QED
  BY <1>1, Inductive, PTL

----------------------------------------------------------------------------
(* The requests implement Handoff.                                         *)

(* What is recorded for a notice is a payment that was COMPLETED.          *)
NoticesPaid ==
    \A p \in Recorded : NoticeOf(p) \in Notices => p \in history.completed

(* What PayFast and the client see.                                        *)
Answered == {n \in Notices : notice[n].answered}
Excused == history.failed \cup history.touched
Seen == <<history.completed, history.owed, confirmed, Answered, Excused,
          project, history.unasked, finalIssued>>
Visible == <<history.completed, history.owed, history.failed, history.touched,
             history.unasked, confirmed, project, finalIssued>>

LEMMA OwedNext == IInv' => ConfirmationsAreOwed'
BY OwedHolds, PTL

LEMMA LastStage ==
    ASSUME IInv
    PROVE  FinalConfirmed => Agreed!LastStagePaid
<1>1. "FINAL_20" \in CoreStages
  BY DEF CoreStages
<1> QED
  BY <1>1 DEF FinalConfirmed, IInv, CompletedOK, Agreed!LastStagePaid

(* A step that writes neither a payment nor what is seen.                  *)
LEMMA Unseen ==
    ASSUME IInv, NoticesPaid, UNCHANGED <<payment, Visible>>,
           \A n \in Notices : notice'[n].answered = notice[n].answered
    PROVE  NoticesPaid' /\ UNCHANGED Seen
<1>1. Recorded' = Recorded
  BY DEF Recorded
<1> QED
  BY <1>1 DEF NoticesPaid, Visible, Seen, Answered, Excused

(* A step on the payments.                                                 *)
LEMMA PaymentsSeen ==
    ASSUME IInv, NoticesPaid, NEW p \in Payments,
           Recorded' \subseteq Recorded \cup {p},
           NoticeOf(p) \in Notices /\ p \notin Recorded => p \in history'.completed,
           history.completed \subseteq history'.completed
    PROVE  NoticesPaid'
BY DEF NoticesPaid

LEMMA RecordSeen ==
    ASSUME IInv, NoticesPaid, NEW s \in Slots, RecordPayment(s)
    PROVE  NoticesPaid' /\ Agreed!Next
<1>0. PICK p : p = handler[s].payment
  OBVIOUS
<1>1. PICK n : n = handler[s].notice
  OBVIOUS
<1>2. handler[s] \in HandlerState /\ HandlerOK(s) /\ history \in History
  BY Typed DEF IInv
<1>3. p \in Payments /\ n \in Notices /\ InvoiceOf[n] \in Invoices
  BY <1>0, <1>1, <1>2, Typed DEF HandlerOK, IInv, RecordPayment, At
<1>4. Recorded' = Recorded \cup {p}
  <2>1. AddPayment(p, InvoiceOf[n], "COMPLETED")
    BY <1>0, <1>1 DEF RecordPayment
  <2>2. "COMPLETED" \in PaymentStatus
    BY DEF PaymentStatus
  <2> QED
    BY <1>3, <2>1, <2>2, PaymentAdded DEF IInv
<1>5. history' = [history EXCEPT !.completed = @ \cup {p}, !.owed[p] = @ + 1]
  BY <1>0 DEF RecordPayment
<1>6. /\ history'.completed = history.completed \cup {p}
      /\ history'.owed = [history.owed EXCEPT ![p] = @ + 1]
      /\ history'.failed = history.failed /\ history'.touched = history.touched
      /\ history'.unasked = history.unasked
  BY <1>2, <1>5 DEF History
<1>7. Agreed!Pay(p)
  BY <1>6 DEF RecordPayment, core, Agreed!Pay, Agreed!Owe
<1>8. NoticesPaid'
  BY <1>3, <1>4, <1>6, PaymentsSeen
<1> QED
  BY <1>3, <1>7, <1>8 DEF Agreed!Next

LEMMA PostSeen ==
    ASSUME IInv, NoticesPaid, NEW i \in Invoices, NEW status \in PaymentStatus,
           PostPayment(i, status)
    PROVE  NoticesPaid' /\ (Agreed!Next \/ UNCHANGED Seen)
<1>0. PICK p : p = <<None, history.posted + 1>>
  OBVIOUS
<1>1. history \in History
  BY Typed DEF IInv
<1>2. p \in Payments /\ NoticeOf(p) = None
  <2>1. history.posted + 1 \in 1 .. MaxPosted
    BY <1>1 DEF PostPayment, History
  <2> QED
    BY <1>0, <2>1, PaymentNames
<1>3. Recorded' = Recorded \cup {p}
  <2>1. AddPayment(p, i, status)
    BY <1>0 DEF PostPayment
  <2> QED
    BY <1>2, <2>1, PaymentAdded DEF IInv
<1>4. history' = [history EXCEPT
         !.posted = @ + 1,
         !.completed = IF status = "COMPLETED" THEN @ \cup {p} ELSE @]
  BY <1>0 DEF PostPayment
<1>5. /\ history'.completed = IF status = "COMPLETED" THEN history.completed \cup {p}
                                                      ELSE history.completed
      /\ history'.owed = history.owed
      /\ history'.failed = history.failed /\ history'.touched = history.touched
      /\ history'.unasked = history.unasked
  BY <1>1, <1>4 DEF History
<1>6. NoticesPaid'
  BY <1>2, <1>3, <1>5, PaymentsSeen
<1>7. CASE status = "COMPLETED"
  <2>1. Agreed!Pay(p)
    BY <1>5, <1>7 DEF PostPayment, core, Agreed!Pay
  <2> QED
    BY <1>2, <1>6, <2>1 DEF Agreed!Next
<1>8. CASE status # "COMPLETED"
  BY <1>5, <1>6, <1>8 DEF PostPayment, core, Seen, Answered, Excused
<1> QED
  BY <1>7, <1>8

(* An update by hand corrects the payment, whatever the status it has read.*)
LEMMA PatchSeen ==
    ASSUME IInv, NoticesPaid, NEW s \in Slots, PatchWrites(s)
    PROVE  NoticesPaid' /\ Agreed!Next
<1>0. PICK p : p = handler[s].payment
  OBVIOUS
<1>1. handler[s] \in HandlerState /\ HandlerOK(s) /\ history \in History
  BY Typed DEF IInv
<1>2. p \in Payments /\ p \in Recorded /\ NoticeOf(p) \in Notices \cup {None}
  BY <1>0, <1>1, PaymentNames DEF HandlerOK, PatchWrites, At
<1>3. PICK paid \in BOOLEAN, due \in BOOLEAN :
         history' = [history EXCEPT
              !.touched = @ \cup ({NoticeOf(p)} \ {None}),
              !.completed = IF paid THEN @ \cup {p} ELSE @,
              !.owed[p] = IF due THEN @ + 1 ELSE @]
  <2> DEFINE now == payment[p].status
             status == IF handler[s].want = "kept" THEN now ELSE handler[s].want
             moved == status = "COMPLETED" /\ now # "COMPLETED"
             stale == handler[s].read # now
  <2>1. history' = [history EXCEPT
              !.touched = @ \cup ({NoticeOf(p)} \ {None}),
              !.completed = IF moved THEN @ \cup {p} ELSE @,
              !.owed[p] = IF moved \/ stale THEN @ + 1 ELSE @]
    BY <1>0 DEF PatchWrites
  <2>2. moved \in BOOLEAN /\ (moved \/ stale) \in BOOLEAN
    OBVIOUS
  <2> HIDE DEF moved, stale
  <2> QED
    BY <2>1, <2>2
<1>4. /\ history'.completed = IF paid THEN history.completed \cup {p}
                                      ELSE history.completed
      /\ history'.owed = [history.owed EXCEPT ![p] = IF due THEN @ + 1 ELSE @]
      /\ history'.touched = history.touched \cup ({NoticeOf(p)} \ {None})
      /\ history'.failed = history.failed /\ history'.unasked = history.unasked
  BY <1>1, <1>3 DEF History
<1>5. Recorded' = Recorded
  BY <1>0, <1>2 DEF PatchWrites, IInv, TypeOK, PaymentRow, Recorded
<1>6. NoticesPaid'
  BY <1>2, <1>4, <1>5, PaymentsSeen
<1>7. {NoticeOf(p)} \ {None} = {n \in Notices : NoticeOf(p) = n}
  BY <1>2
<1>8. Excused' = Excused \cup {n \in Notices : NoticeOf(p) = n}
  BY <1>4, <1>7 DEF Excused
<1>9. {n \in Notices :
         p \in [k \in Notices |-> {q \in Payments : NoticeOf(q) = k}][n]}
      = {n \in Notices : NoticeOf(p) = n}
  BY <1>2
<1>10. history'.owed = [history.owed EXCEPT ![p] = @ + 1] \/ history'.owed = history.owed
  BY <1>1, <1>4 DEF History
<1>11. Agreed!Correct(p)
  BY <1>4, <1>8, <1>9, <1>10
     DEF PatchWrites, core, Excused, Agreed!Correct, Agreed!Owe
<1> QED
  BY <1>2, <1>6, <1>11 DEF Agreed!Next

LEMMA AskSeen ==
    ASSUME IInv, NoticesPaid, NEW s \in Slots, NEW p \in Recorded,
           NEW stage \in CoreStages, ConfirmByHand(s, p, stage)
    PROVE  NoticesPaid' /\ Agreed!Next
<1>1. p \in Payments /\ history \in History
  BY Typed DEF IInv
<1>2. /\ history'.owed = [history.owed EXCEPT ![p] = @ + 1]
      /\ history'.completed = history.completed
      /\ history'.failed = history.failed /\ history'.touched = history.touched
      /\ history'.unasked = history.unasked
  BY <1>1 DEF ConfirmByHand, History
<1>3. Agreed!Ask(p)
  BY <1>2 DEF ConfirmByHand, core, Agreed!Ask, Agreed!Owe
<1>4. NoticesPaid'
  BY <1>2 DEF NoticesPaid, Recorded, ConfirmByHand, billing
<1> QED
  BY <1>1, <1>3, <1>4 DEF Agreed!Next

LEMMA FailSeen ==
    ASSUME IInv, NoticesPaid, NEW s \in Slots, CallFails(s)
    PROVE  NoticesPaid' /\ (Agreed!Next \/ UNCHANGED Seen)
<1>0. PICK n : n = handler[s].notice
  OBVIOUS
<1>1. handler[s] \in HandlerState /\ history \in History
  BY Typed DEF IInv
<1>2. n \in Notices \cup {None}
  BY <1>0, <1>1 DEF HandlerState
<1>3. /\ history'.failed = history.failed \cup ({n} \ {None})
      /\ history'.completed = history.completed
      /\ history'.owed = history.owed
      /\ history'.touched = history.touched /\ history'.unasked = history.unasked
  BY <1>0, <1>1 DEF CallFails, History
<1>4. NoticesPaid'
  BY <1>3 DEF NoticesPaid, Recorded, CallFails, billing
<1>5. CASE n = None
  BY <1>3, <1>4, <1>5 DEF CallFails, core, Seen, Answered, Excused
<1>6. CASE n \in Notices
  <2>1. history'.failed \cup history'.touched
          = (history.failed \cup history.touched) \cup {n}
    BY <1>3, <1>6
  <2>2. Agreed!Fail(n)
    BY <1>3, <2>1 DEF CallFails, core, Agreed!Fail
  <2> QED
    BY <1>4, <1>6, <2>2 DEF Agreed!Next
<1> QED
  BY <1>2, <1>5, <1>6

(* An answer finds the payment of the notice made and its milestone        *)
(* confirmed, or knows why it is not.                                      *)
LEMMA AnswerSeen ==
    ASSUME IInv, NoticesPaid, NEW s \in Slots, Answer(s)
    PROVE  NoticesPaid' /\ Agreed!Next
<1>0. PICK n : n = handler[s].notice
  OBVIOUS
<1>1. PICK p : p = handler[s].payment
  OBVIOUS
<1>2. handler[s] \in HandlerState /\ HandlerOK(s)
  BY Typed DEF IInv
<1>3. /\ n \in Notices /\ p \in Payments /\ p \in Recorded /\ NoticeOf(p) = n
      /\ Concluded(n)
  BY <1>0, <1>1, <1>2 DEF HandlerOK, Answer, At
<1>4. p \in history.completed
  BY <1>3 DEF NoticesPaid
<1>5. StageOf[InvoiceOf[n]] \in CoreStages =>
         \/ n \in history.failed \cup history.touched
         \/ \E q \in Payments : NoticeOf(q) = n /\ confirmed[q][StageOf[InvoiceOf[n]]] > 0
  BY <1>3 DEF Concluded, ConfirmedBy, PaymentsOf, Recorded
<1>6. \A k \in Notices :
         notice'[k].answered = IF k = n THEN TRUE ELSE notice[k].answered
  BY <1>0, <1>3 DEF Answer, IInv, TypeOK
<1>7. {k \in Notices : notice'[k].answered}
        = {k \in Notices : notice[k].answered} \cup {n}
  BY <1>3, <1>6
<1>8. Agreed!Answer(n)
  BY <1>3, <1>4, <1>5, <1>7
     DEF Answer, core, Agreed!Answer, Agreed!CoreStages, CoreStages
<1>9. NoticesPaid'
  BY DEF Answer, billing, NoticesPaid, Recorded
<1> QED
  BY <1>3, <1>8, <1>9 DEF Agreed!Next

(* A milestone is logged for a payment that core has seen COMPLETED, and   *)
(* the call that logs it is one of those that are owed.                    *)
LEMMA LogSeen ==
    ASSUME IInv, IInv', NoticesPaid, NEW s \in Slots, LogMilestone(s)
    PROVE  NoticesPaid' /\ Agreed!Next
<1>0. PICK p : p = handler[s].payment
  OBVIOUS
<1>1. PICK g : g = handler[s].stage
  OBVIOUS
<1>2. p \in history.completed /\ p \in Payments /\ g \in CoreStages
  <2>1. handler[s].pc = "log" /\ HandlerOK(s)
    BY DEF IInv, LogMilestone, At
  <2> QED
    BY <1>0, <1>1, <2>1 DEF HandlerOK
<1>3. /\ confirmed' = [confirmed EXCEPT ![p][g] = @ + 1]
      /\ confirmed \in [Payments -> [CoreStages -> Nat]]
      /\ history.owed[p] \in Nat
  BY <1>0, <1>1, <1>2, Typed DEF LogMilestone, IInv, TypeOK
<1>4. confirmed[p]["MILESTONE_30"] \in Nat /\ confirmed[p]["FINAL_20"] \in Nat
  BY <1>2, <1>3 DEF CoreStages
<1>5. confirmed'[p]["MILESTONE_30"] + confirmed'[p]["FINAL_20"]
        = confirmed[p]["MILESTONE_30"] + confirmed[p]["FINAL_20"] + 1
  BY <1>2, <1>3, <1>4 DEF CoreStages
<1>6. confirmed'[p]["MILESTONE_30"] + confirmed'[p]["FINAL_20"] <= history.owed[p]
  BY <1>2, OwedNext DEF ConfirmationsAreOwed, Confirmations, LogMilestone
<1>7. confirmed[p]["MILESTONE_30"] + confirmed[p]["FINAL_20"] < history.owed[p]
  BY <1>3, <1>4, <1>5, <1>6
<1>8. Agreed!Confirm(p, g)
  BY <1>2, <1>3, <1>7 DEF LogMilestone, Agreed!Confirm
<1>9. NoticesPaid'
  BY DEF LogMilestone, billing, NoticesPaid, Recorded
<1> QED
  BY <1>2, <1>8, <1>9 DEF Agreed!Next, Agreed!CoreStages, CoreStages

(* The project: the status that asks for the last milestone, the final     *)
(* invoice, and the routes that do not ask.                                *)
LEMMA ProjectSeen ==
    ASSUME IInv, NoticesPaid
    PROVE  /\ \A s \in Slots : StatusWrites(s) \/ IssueFinal(s)
                                  => NoticesPaid' /\ Agreed!Next
           /\ \A target \in ProjectStatus : BulkStatus(target)
                                  => NoticesPaid' /\ Agreed!Next
<1>1. history \in History
  BY Typed DEF IInv
<1>2. ASSUME NEW s \in Slots, StatusWrites(s)
      PROVE  NoticesPaid' /\ Agreed!Next
  <2>0. PICK target : target = handler[s].target
    OBVIOUS
  <2>1. handler[s] \in HandlerState /\ handler[s].pc = "status" /\ HandlerOK(s)
    BY <1>2, Typed DEF IInv, StatusWrites, At
  <2>2. target \in ProjectStatus /\ (target = "COMPLETED" => FinalConfirmed)
    BY <2>0, <2>1 DEF HandlerState, HandlerOK
  <2>3. /\ history'.unasked = FALSE /\ history'.completed = history.completed
        /\ history'.owed = history.owed
        /\ history'.failed = history.failed /\ history'.touched = history.touched
    BY <1>1, <1>2 DEF StatusWrites, History
  <2>4. Agreed!SetStatus(target)
    BY <1>2, <2>0, <2>2, <2>3, LastStage
       DEF StatusWrites, Agreed!SetStatus, Agreed!payments
  <2>5. NoticesPaid'
    BY <1>2, <2>3 DEF StatusWrites, billing, NoticesPaid, Recorded
  <2> QED
    BY <2>2, <2>4, <2>5 DEF Agreed!Next, ProjectStatus
<1>3. ASSUME NEW s \in Slots, IssueFinal(s)
      PROVE  NoticesPaid' /\ Agreed!Next
  <2>1. handler[s].pc = "bill" /\ HandlerOK(s)
    BY <1>3 DEF IInv, IssueFinal, At
  <2>2. FinalConfirmed
    BY <2>1 DEF HandlerOK
  <2>3. Agreed!IssueFinal
    BY <1>3, <2>2, LastStage DEF IssueFinal, Agreed!IssueFinal, Agreed!payments
  <2>4. NoticesPaid'
    BY <1>3 DEF IssueFinal, billing, NoticesPaid, Recorded
  <2> QED
    BY <2>3, <2>4 DEF Agreed!Next
<1>4. ASSUME NEW target \in ProjectStatus, BulkStatus(target)
      PROVE  NoticesPaid' /\ Agreed!Next
  <2>1. /\ history'.unasked = (target = "COMPLETED")
        /\ history'.completed = history.completed
        /\ history'.owed = history.owed
        /\ history'.failed = history.failed /\ history'.touched = history.touched
    BY <1>1, <1>4 DEF BulkStatus, History
  <2>2. Agreed!ForceStatus(target)
    BY <1>4, <2>1 DEF BulkStatus, Agreed!ForceStatus, Agreed!payments
  <2>3. NoticesPaid'
    BY <1>4, <2>1 DEF BulkStatus, billing, NoticesPaid, Recorded
  <2> QED
    BY <2>2, <2>3 DEF Agreed!Next, ProjectStatus
<1> QED
  BY <1>2, <1>3, <1>4

(* What goes on inside the services.                                       *)
LEMMA QuietSeen ==
    ASSUME IInv, NoticesPaid,
           \/ \E s \in Slots : \/ Notify(s) \/ MarkPaid(s) \/ VerifyPayment(s)
                               \/ StatusChecks(s) \/ Abort(s)
                               \/ \E target \in ProjectStatus : StatusReads(s, target)
                               \/ \E p \in Recorded, want \in PaymentStatus \cup {"kept"} :
                                     PatchReads(s, p, want)
           \/ \E i \in Invoices, status \in {"open", "PAID"} : PatchInvoice(i, status)
           \/ UNCHANGED vars
    PROVE  NoticesPaid' /\ UNCHANGED Seen
<1>1. history \in History
  BY Typed DEF IInv
<1>2. UNCHANGED <<payment, confirmed, project, finalIssued>>
  BY DEF Notify, Deliver, MarkPaid, VerifyPayment, StatusChecks, Abort,
         StatusReads, PatchReads, PatchInvoice, vars, billing, core
<1>3. \A n \in Notices : notice'[n].answered = notice[n].answered
  <2>1. CASE \E s \in Slots : Notify(s)
    <3>1. PICK n \in Notices : notice' = [notice EXCEPT ![n].deliveries = @ + 1]
      BY <2>1 DEF Notify, Deliver
    <3>2. notice \in [Notices -> [deliveries : 0 .. MaxDeliveries, answered : BOOLEAN]]
      BY DEF IInv, TypeOK
    <3> QED
      BY <3>1, <3>2
  <2>2. CASE UNCHANGED notice
    BY <2>2
  <2> QED
    BY <2>1, <2>2 DEF MarkPaid, VerifyPayment, StatusChecks, Abort,
       StatusReads, PatchReads, PatchInvoice, vars
<1>4. UNCHANGED <<history.completed, history.owed, history.failed,
                  history.touched, history.unasked>>
  <2>1. \/ history' = history
        \/ \E i \in Invoices : history' = [history EXCEPT !.byHand = @ \ {i}]
        \/ history' = [history EXCEPT !.faults = @ + 1]
        \/ history' = [history EXCEPT !.requests = @ + 1]
        \/ \E i \in Invoices : history' = [history EXCEPT !.requests = @ + 1,
                                                          !.byHand = @ \cup {i}]
    <3>1. CASE \E s \in Slots : MarkPaid(s)
      <4>1. PICK s \in Slots : MarkPaid(s)
        BY <3>1
      <4>2. handler[s].notice \in Notices
        BY <4>1 DEF IInv, HandlerOK, MarkPaid, At
      <4>3. InvoiceOf[handler[s].notice] \in Invoices
        BY <4>2
      <4> QED
        BY <4>1, <4>3 DEF MarkPaid
    <3> QED
      BY <3>1 DEF Notify, Deliver, VerifyPayment, StatusChecks, Abort,
                  StatusReads, PatchReads, PatchInvoice, vars
  <2> QED
    BY <1>1, <2>1 DEF History
<1> QED
  BY <1>2, <1>3, <1>4, Unseen DEF Visible

LEMMA HandoffStep ==
    ASSUME IInv, IInv', NoticesPaid, [Next]_vars
    PROVE  NoticesPaid' /\ (Agreed!Next \/ UNCHANGED Seen)
<1>1. CASE \E s \in Slots : Notify(s) \/ Process(s) \/ CallFails(s) \/ Abort(s)
  BY <1>1, RecordSeen, AnswerSeen, LogSeen, PatchSeen, FailSeen, ProjectSeen,
     QuietSeen DEF Process
<1>2. CASE ByHand
  BY <1>2, PostSeen, AskSeen, ProjectSeen, QuietSeen DEF ByHand
<1>3. CASE UNCHANGED vars
  BY <1>3, QuietSeen
<1> QED
  BY <1>1, <1>2, <1>3 DEF Next

(* POST /payfast/itn, the updates by hand and the routes of the project,   *)
(* with everything that may cut them short, implement the handoff: what is *)
(* confirmed was paid and asked for, what is answered is done, what is     *)
(* completed was confirmed.                                                *)
THEOREM HandoffImplemented == Spec => HandsOverAsAgreed
<1>1. Init => NoticesPaid /\ Agreed!Init
  <2> SUFFICES ASSUME Init PROVE NoticesPaid /\ Agreed!Init
    OBVIOUS
  <2>1. Recorded = {}
    BY DEF Init, Recorded, NoPayment
  <2>2. NoticesPaid
    BY <2>1 DEF NoticesPaid
  <2> QED
    BY <2>2 DEF Init, Agreed!Init, Agreed!CoreStages, CoreStages, ProjectStatus
<1>2. IInv /\ IInv' /\ NoticesPaid /\ [Next]_vars
         => NoticesPaid' /\ [Agreed!Next]_(Agreed!vars)
  BY HandoffStep DEF Seen, Answered, Excused, Agreed!vars
<1> QED
  BY <1>1, <1>2, Inductive, PTL DEF Spec, Agreed!Spec, HandsOverAsAgreed
=============================================================================
