---------------------- MODULE AutomationWorkflowProofs ----------------------
(* Proofs about AutomationWorkflow for any number of events, topics,       *)
(* adapter calls, attempts, failures and restarts.                         *)
EXTENDS AutomationWorkflow, FiniteSetTheorems, TLAPS

USE WorkflowAssumption

----------------------------------------------------------------------------
(* Types.                                                                  *)

(* The messages that wait in a topic's subscription are events.            *)
LEMMA NextMessage ==
    ASSUME TypeOK, NEW t \in Topics, inbox[t] # <<>>
    PROVE  Head(inbox[t]) \in Events /\ Tail(inbox[t]) \in Seq(Events)
<1>1. inbox[t] \in Seq(Events)
  BY DEF TypeOK
<1> QED BY <1>1

LEMMA Idle == WellFormed(IdleLoop) /\ IdleLoop.pc = "idle"
BY DEF WellFormed, IdleLoop, LoopState

(* A message is checked with no attempt made.                              *)
LEMMA CheckedTypes ==
    ASSUME NEW e \in Events, NEW known \in BOOLEAN
    PROVE  /\ WellFormed(Checked(e, known))
           /\ Checked(e, known).event = e
           /\ Checked(e, known).pc =
                 IF e \in Invalid THEN "rejected"
                 ELSE IF known THEN "duplicate" ELSE "received"
BY DEF WellFormed, Checked, LoopState

(* What the handler's moves leave of its state.                            *)
LEMMA LoopMoves ==
    ASSUME NEW l, WellFormed(l), l.pc # "idle"
    PROVE  /\ \A pc \in {"completed", "marking", "failing", "abandoning"} :
                /\ WellFormed(MovedTo(l, pc))
                /\ MovedTo(l, pc).event = l.event /\ MovedTo(l, pc).pc = pc
           /\ l.attempt < MaxAttempts =>
                /\ WellFormed(MovedTo(l, "waiting"))
                /\ MovedTo(l, "waiting").event = l.event
                /\ MovedTo(l, "waiting").pc = "waiting"
           /\ l.pc \in {"received", "waiting"} =>
                /\ WellFormed(NextAttempt(l))
                /\ NextAttempt(l).event = l.event
                /\ NextAttempt(l).pc = "attempting"
           /\ WellFormed(FirstCall(l))
           /\ FirstCall(l).event = l.event /\ FirstCall(l).pc = "working"
           /\ l.pc = "working" =>
                /\ WellFormed(NextCall(l))
                /\ NextCall(l).event = l.event
                /\ NextCall(l).pc = IF l.step + 1 = Steps THEN "completed"
                                    ELSE "working"
<1>1. \A pc \in {"completed", "marking", "failing", "abandoning"} :
        /\ WellFormed(MovedTo(l, pc))
        /\ MovedTo(l, pc).event = l.event /\ MovedTo(l, pc).pc = pc
  BY DEF WellFormed, LoopState, MovedTo
<1>2. l.attempt < MaxAttempts =>
        /\ WellFormed(MovedTo(l, "waiting"))
        /\ MovedTo(l, "waiting").event = l.event
        /\ MovedTo(l, "waiting").pc = "waiting"
  BY DEF WellFormed, LoopState, MovedTo
<1>3. ASSUME l.pc \in {"received", "waiting"}
      PROVE  /\ WellFormed(NextAttempt(l))
             /\ NextAttempt(l).event = l.event
             /\ NextAttempt(l).pc = "attempting"
  <2>1. l.attempt + 1 \in Nat /\ l.attempt + 1 <= MaxAttempts
    BY <1>3 DEF WellFormed, LoopState
  <2>2. l \in LoopState
    BY DEF WellFormed
  <2>3. NextAttempt(l) \in LoopState
    BY <2>1, <2>2 DEF LoopState, NextAttempt
  <2>4. /\ NextAttempt(l).pc = "attempting"
        /\ NextAttempt(l).attempt = l.attempt + 1
        /\ NextAttempt(l).event = l.event /\ NextAttempt(l).step = l.step
    BY <2>2 DEF LoopState, NextAttempt
  <2> QED BY <2>1, <2>3, <2>4 DEF WellFormed
<1>4. /\ WellFormed(FirstCall(l))
      /\ FirstCall(l).event = l.event /\ FirstCall(l).pc = "working"
  <2>1. 0 < Steps
    OBVIOUS
  <2>2. l \in LoopState
    BY DEF WellFormed
  <2>3. FirstCall(l) \in LoopState
    BY <2>2 DEF LoopState, FirstCall
  <2>4. /\ FirstCall(l).pc = "working" /\ FirstCall(l).step = 0
        /\ FirstCall(l).event = l.event
        /\ FirstCall(l).attempt = l.attempt
    BY <2>2 DEF LoopState, FirstCall
  <2> QED BY <2>1, <2>3, <2>4 DEF WellFormed
<1>5. ASSUME l.pc = "working"
      PROVE  /\ WellFormed(NextCall(l))
             /\ NextCall(l).event = l.event
             /\ NextCall(l).pc = IF l.step + 1 = Steps THEN "completed"
                                 ELSE "working"
  <2>1. l.step \in Nat /\ l.step + 1 \in Nat /\ l.step + 1 <= Steps
    BY <1>5 DEF WellFormed, LoopState
  <2>2. CASE l.step + 1 = Steps
    BY <1>5, <2>1, <2>2 DEF WellFormed, LoopState, NextCall
  <2>3. CASE l.step + 1 < Steps
    BY <1>5, <2>1, <2>3 DEF WellFormed, LoopState, NextCall
  <2> QED BY <2>1, <2>2, <2>3
<1> QED BY <1>1, <1>2, <1>3, <1>4, <1>5

(* A save leaves a status in the record, and counts a fault if it fails.   *)
LEMMA SaveTypes ==
    ASSUME TypeOK, NEW t \in Topics,
           loop[t].pc \in {"rejected", "duplicate", "received", "attempting",
                           "completed", "failing", "abandoning"},
           Save(t) \/ SaveRejects(t)
    PROVE  job' \in [Events -> Statuses] /\ faults' \in 0 .. MaxFaults
<1>1. Saved[loop[t].pc] \in Statuses
  BY DEF Saved, Statuses
<1>2. loop[t].event \in Events
  BY DEF TypeOK, WellFormed
<1>3. Write(t) => job' \in [Events -> Statuses]
  BY <1>1, <1>2 DEF TypeOK, Write
<1>4. Fault => faults' \in 0 .. MaxFaults
  BY DEF TypeOK, Fault
<1> QED BY <1>3, <1>4 DEF Save, SaveRejects, TypeOK

(* Counting a call keeps the counters.                                     *)
LEMMA EffectTypes ==
    ASSUME TypeOK, NEW e \in Events, NEW k \in 1 .. Steps,
           NEW done \in BOOLEAN, CountEffect(e, k, done)
    PROVE  effects' \in [Events -> [1 .. Steps -> Nat]]
<1>1. effects[e] \in [1 .. Steps -> Nat]
  BY DEF TypeOK
<1>2. [effects[e] EXCEPT ![k] = effects[e][k] + 1] \in [1 .. Steps -> Nat]
  BY <1>1
<1>3. \/ effects' = effects
      \/ effects' = [effects EXCEPT
                        ![e] = [effects[e] EXCEPT ![k] = effects[e][k] + 1]]
  BY DEF CountEffect
<1> QED BY <1>2, <1>3 DEF TypeOK

LEMMA TypeInit == Init => TypeOK
BY Idle DEF Init, TypeOK, WellFormed, Statuses

(* Every step keeps the messages, handlers, keys and records well formed.  *)
LEMMA TypeStep == TypeOK /\ [Next]_vars => TypeOK'
<1> SUFFICES ASSUME TypeOK, [Next]_vars PROVE TypeOK'
  OBVIOUS
<1>0. ASSUME NEW t \in Topics, NEW l, WellFormed(l),
             loop' = [loop EXCEPT ![t] = l]
      PROVE  /\ loop' \in [Topics -> LoopState]
             /\ \A u \in Topics : WellFormed(loop'[u])
  BY <1>0 DEF TypeOK, WellFormed
<1>1. ASSUME NEW e \in Events, Arrive(e) PROVE TypeOK'
  <2>1. inbox' \in [Topics -> Seq(Events)]
    BY <1>1 DEF Arrive, TypeOK
  <2>2. arrivals' \in [Events -> Nat]
    BY <1>1 DEF Arrive, TypeOK
  <2> QED BY <1>1, <2>1, <2>2 DEF Arrive, TypeOK
<1>2. ASSUME NEW t \in Topics, Take(t) PROVE TypeOK'
  <2> DEFINE e == Head(inbox[t])
  <2>1. e \in Events /\ Tail(inbox[t]) \in Seq(Events)
    BY <1>2, NextMessage DEF Take
  <2>2. inbox' \in [Topics -> Seq(Events)]
    BY <1>2, <2>1 DEF Take, TypeOK
  <2>3. faults' \in 0 .. MaxFaults
    <3>1. UNCHANGED faults \/ Fault
      BY <1>2 DEF Take
    <3> QED BY <3>1 DEF Fault, TypeOK
  <2>4. Known(e) \in BOOLEAN
    BY DEF Known
  <2>5. \/ loop' = loop
        \/ \E known \in BOOLEAN : loop' = [loop EXCEPT ![t] = Checked(e, known)]
    BY <1>2, <2>4 DEF Take
  <2>6. /\ loop' \in [Topics -> LoopState]
        /\ \A u \in Topics : WellFormed(loop'[u])
    <3> HIDE DEF e
    <3> QED BY <2>1, <2>5, CheckedTypes, <1>0 DEF TypeOK
  <2> QED BY <1>2, <2>2, <2>3, <2>6 DEF Take, TypeOK
<1>3. ASSUME NEW t \in Topics, RecordEnd(t) PROVE TypeOK'
  BY <1>0, <1>3, SaveTypes, Idle DEF RecordEnd, Finish, TypeOK
<1>4. ASSUME NEW t \in Topics, RecordReceived(t) PROVE TypeOK'
  BY <1>0, <1>4, SaveTypes, LoopMoves DEF RecordReceived, At, TypeOK
<1>5. ASSUME NEW t \in Topics, StartAttempt(t) PROVE TypeOK'
  BY <1>0, <1>5, SaveTypes, LoopMoves DEF StartAttempt, At, TypeOK
<1>6. ASSUME NEW t \in Topics, Perform(t) PROVE TypeOK'
  <2> DEFINE e == loop[t].event
             k == loop[t].step + 1
  <2>1. loop[t].pc = "working" /\ WellFormed(loop[t])
    BY <1>6 DEF Perform, At, TypeOK
  <2>2. e \in Events /\ k \in 1 .. Steps
    BY <2>1 DEF WellFormed, LoopState
  <2>3. effects' \in [Events -> [1 .. Steps -> Nat]]
    <3>1. CountEffect(e, k, TRUE)
      BY <1>6 DEF Perform
    <3> QED BY <2>2, <3>1, EffectTypes
  <2>4. completed' \in [Events -> Nat]
    BY <1>6, <2>2 DEF Perform, TypeOK
  <2>5. loop' = [loop EXCEPT ![t] = NextCall(loop[t])]
    BY <1>6 DEF Perform
  <2>6. /\ loop' \in [Topics -> LoopState]
        /\ \A u \in Topics : WellFormed(loop'[u])
    BY <1>0, <2>1, <2>5, LoopMoves
  <2> QED BY <1>6, <2>3, <2>4, <2>6 DEF Perform, TypeOK
<1>7. ASSUME NEW t \in Topics, NEW done \in BOOLEAN, Refuse(t, done) PROVE TypeOK'
  <2> DEFINE e == loop[t].event
             k == loop[t].step + 1
  <2>1. loop[t].pc = "working" /\ WellFormed(loop[t])
    BY <1>7 DEF Refuse, At, TypeOK
  <2>2. e \in Events /\ k \in 1 .. Steps
    BY <2>1 DEF WellFormed, LoopState
  <2>3. effects' \in [Events -> [1 .. Steps -> Nat]]
    <3>1. CountEffect(e, k, done)
      BY <1>7 DEF Refuse
    <3> QED BY <2>2, <3>1, EffectTypes
  <2>4. /\ loop' \in [Topics -> LoopState]
        /\ \A u \in Topics : WellFormed(loop'[u])
    BY <1>0, <1>7, <2>1, LoopMoves DEF Refuse, Goto
  <2> QED BY <1>7, <2>3, <2>4 DEF Refuse, TypeOK
<1>8. ASSUME NEW t \in Topics, RecordSuccess(t) PROVE TypeOK'
  <2>1. loop[t].pc = "completed" /\ WellFormed(loop[t])
    BY <1>8 DEF RecordSuccess, At, TypeOK
  <2>2. job' \in [Events -> Statuses] /\ faults' \in 0 .. MaxFaults
    BY <1>8, <2>1, SaveTypes DEF RecordSuccess
  <2>3. /\ loop' \in [Topics -> LoopState]
        /\ \A u \in Topics : WellFormed(loop'[u])
    BY <1>0, <1>8, <2>1, LoopMoves DEF RecordSuccess, Goto
  <2>4. remembered' \subseteq Events
    BY <1>8, <2>1 DEF RecordSuccess, TypeOK, WellFormed
  <2> QED BY <1>8, <2>2, <2>3, <2>4 DEF RecordSuccess, TypeOK
<1>9. ASSUME NEW t \in Topics, MarkProcessed(t) PROVE TypeOK'
  <2>1. loop[t].pc = "marking" /\ WellFormed(loop[t])
    BY <1>9 DEF MarkProcessed, At, TypeOK
  <2>2. processed' \subseteq Events /\ faults' \in 0 .. MaxFaults
    <3>1. loop[t].event \in Events
      BY <2>1 DEF WellFormed
    <3>2. processed' \in {processed, processed \cup {loop[t].event}}
      BY <1>9 DEF MarkProcessed
    <3>3. UNCHANGED faults \/ Fault
      BY <1>9 DEF MarkProcessed
    <3> QED BY <3>1, <3>2, <3>3 DEF TypeOK, Fault
  <2>3. /\ loop' \in [Topics -> LoopState]
        /\ \A u \in Topics : WellFormed(loop'[u])
    BY <1>0, <1>9, Idle DEF MarkProcessed, Finish
  <2> QED BY <1>9, <2>2, <2>3 DEF MarkProcessed, TypeOK
<1>10. ASSUME NEW t \in Topics, SuccessRejects(t) PROVE TypeOK'
  <2>1. job' \in [Events -> Statuses] /\ faults' \in 0 .. MaxFaults
    BY <1>10, SaveTypes DEF SuccessRejects, Fault, At, TypeOK
  <2>2. loop[t].pc # "idle" /\ WellFormed(loop[t])
    BY <1>10 DEF SuccessRejects, At, TypeOK
  <2>3. /\ loop' \in [Topics -> LoopState]
        /\ \A u \in Topics : WellFormed(loop'[u])
    BY <1>0, <1>10, <2>2, LoopMoves DEF SuccessRejects, Goto
  <2>4. processed' \subseteq Events
    BY <1>10, <2>2 DEF SuccessRejects, TypeOK, WellFormed
  <2> QED BY <1>10, <2>1, <2>3, <2>4 DEF SuccessRejects, TypeOK
<1>11. ASSUME NEW t \in Topics, RecordFailure(t) PROVE TypeOK'
  BY <1>0, <1>11, SaveTypes, LoopMoves DEF RecordFailure, AttemptsLeft, Goto, At, TypeOK
<1>12. ASSUME NEW t \in Topics, BackoffElapses(t) PROVE TypeOK'
  BY <1>0, <1>12, LoopMoves DEF BackoffElapses, At, TypeOK
<1>13. ASSUME NEW t \in Topics, HandlerRejects(t) PROVE TypeOK'
  BY <1>0, <1>13, SaveTypes, Idle DEF HandlerRejects, Finish, TypeOK
<1>14. CASE Crash
  BY <1>14, Idle DEF Crash, TypeOK, WellFormed
<1>15. CASE UNCHANGED vars
  BY <1>15 DEF vars, TypeOK
<1>16. ASSUME NEW t \in Topics, RecordThrows(t) PROVE TypeOK'
  BY <1>0, <1>16, Idle DEF RecordThrows, Finish, TypeOK
<1> QED
  BY <1>1, <1>2, <1>3, <1>4, <1>5, <1>6, <1>7, <1>8, <1>9, <1>10, <1>11,
     <1>12, <1>13, <1>14, <1>15, <1>16 DEF Next, Handle

(* Every behaviour of the handler keeps its state well formed (handler in  *)
(* subscriptions.ts).                                                      *)
THEOREM TypeCorrect == Spec => []TypeOK
BY TypeInit, TypeStep, PTL DEF Spec

----------------------------------------------------------------------------
(* The inductive invariant.                                                *)

Busy == {"received", "attempting", "working", "failing", "waiting"}

(* A handler that is not idle works on an event of its own topic, and what *)
(* the invariant says of that event is read off its control state.         *)
LEMMA Working ==
    ASSUME TypeOK, TopicInv, NEW t \in Topics, loop[t].pc # "idle"
    PROVE  /\ WellFormed(loop[t])
           /\ loop[t].event \in Events /\ TopicOf[loop[t].event] = t
           /\ Handling(loop[t].event) /\ LoopOf(loop[t].event) = loop[t]
           /\ MayComplete(loop[t].event) <=> loop[t].pc \in Busy
           /\ MayRecord(loop[t].event)
                <=> loop[t].pc \in {"completed", "marking"}
BY DEF TypeOK, TopicInv, WellFormed, Handling, LoopOf, MayComplete, MayRecord,
       Busy

(* The same of the state its step leads to.                                *)
LEMMA WorkingNext ==
    ASSUME TypeOK, NEW t \in Topics, NEW e \in Events, TopicOf[e] = t,
           NEW l, WellFormed(l), l.pc # "idle" => l.event = e,
           loop' = [loop EXCEPT ![t] = l]
    PROVE  /\ LoopOf(e)' = l
           /\ Handling(e)' <=> l.pc # "idle"
           /\ MayComplete(e)' <=> l.pc \in Busy
           /\ MayRecord(e)' <=> l.pc \in {"completed", "marking"}
<1>1. LoopOf(e)' = l
  BY DEF TypeOK, LoopOf
<1>2. Handling(e)' <=> l.pc # "idle"
  BY <1>1 DEF Handling
<1>3. MayComplete(e)' <=> l.pc \in Busy
  BY <1>1, <1>2 DEF MayComplete, Busy
<1>4. MayRecord(e)' <=> l.pc \in {"completed", "marking"}
  BY <1>1, <1>2 DEF MayRecord
<1> QED BY <1>1, <1>2, <1>3, <1>4

(* A step of the handler at one event leaves the others' completions, keys *)
(* and records alone.                                                      *)
OthersKept(e) ==
    \A f \in Events \ {e} :
        /\ completed'[f] = completed[f] /\ job'[f] = job[f]
        /\ f \in remembered' <=> f \in remembered
        /\ f \in processed' <=> f \in processed

(* So the invariant has to be shown for that event only.                   *)
LEMMA OneEvent ==
    ASSUME TypeOK, TopicInv, CompletionInv, SuccessIsReal,
           NEW t \in Topics, NEW e \in Events, TopicOf[e] = t,
           loop[t].pc # "idle" => loop[t].event = e,
           NEW l, WellFormed(l), l.pc # "idle" => l.event = e,
           loop' = [loop EXCEPT ![t] = l],
           OthersKept(e), faults' \in Nat, faults <= faults',
           crashes' = crashes,
           CompletionFor(e)',
           job'[e] \in {"succeeded", "skipped-duplicate"} => completed'[e] > 0
    PROVE  CompletionInv' /\ SuccessIsReal'
<1>1. ASSUME NEW f \in Events \ {e} PROVE CompletionFor(f)'
  <2>1. /\ Handling(f)' <=> Handling(f)
        /\ Handling(f) => LoopOf(f)' = LoopOf(f)
    <3>1. TopicOf[f] \in Topics
      OBVIOUS
    <3>2. CASE TopicOf[f] = t
      BY <1>1, <3>2 DEF TypeOK, Handling, LoopOf
    <3>3. CASE TopicOf[f] # t
      BY <3>1, <3>3 DEF TypeOK, Handling, LoopOf
    <3> QED BY <3>2, <3>3
  <2>2. /\ MayComplete(f)' <=> MayComplete(f)
        /\ MayRecord(f)' <=> MayRecord(f)
    BY <2>1 DEF MayComplete, MayRecord
  <2>3. Known(f)' <=> Known(f)
    BY <1>1 DEF Known, OthersKept
  <2>4. /\ completed'[f] = completed[f] /\ completed[f] \in Nat
        /\ f \in processed' <=> f \in processed
    BY <1>1 DEF OthersKept, TypeOK
  <2>5. faults \in Nat /\ crashes \in Nat
    BY DEF TypeOK
  <2>6. CompletionFor(f)
    BY <1>1 DEF CompletionInv
  <2> QED BY <2>1, <2>2, <2>3, <2>4, <2>5, <2>6 DEF CompletionFor
<1>2. CompletionInv'
  BY <1>1 DEF CompletionInv
<1>3. SuccessIsReal'
  BY DEF SuccessIsReal, OthersKept
<1> QED BY <1>2, <1>3

(* The handlers stay with the events of their topics.                      *)
LEMMA TopicStep == TypeOK /\ TopicInv /\ [Next]_vars => TopicInv'
<1> SUFFICES ASSUME TypeOK, TopicInv, [Next]_vars PROVE TopicInv'
  OBVIOUS
<1>1. ASSUME NEW t \in Topics, loop[t].pc # "idle", NEW l,
             l.pc = "idle" \/ l.event = loop[t].event,
             loop' = [loop EXCEPT ![t] = l], UNCHANGED inbox
      PROVE  TopicInv'
  BY <1>1 DEF TopicInv, TypeOK
<1>2. ASSUME NEW e \in Events, Arrive(e) PROVE TopicInv'
  <2>1. ASSUME NEW t \in Topics, NEW i \in DOMAIN inbox'[t]
        PROVE  TopicOf[inbox'[t][i]] = t
    <3>1. inbox[t] \in Seq(Events)
      BY DEF TypeOK
    <3>2. CASE t # TopicOf[e]
      BY <1>2, <2>1, <3>2 DEF Arrive, TypeOK, TopicInv
    <3>3. CASE t = TopicOf[e]
      <4>1. inbox'[t] = Append(inbox[t], e)
        BY <1>2, <3>3 DEF Arrive, TypeOK
      <4>2. CASE i = Len(inbox[t]) + 1
        BY <3>1, <3>3, <4>1, <4>2
      <4>3. CASE i # Len(inbox[t]) + 1
        <5>1. i \in DOMAIN inbox[t] /\ inbox'[t][i] = inbox[t][i]
          BY <2>1, <3>1, <4>1, <4>3
        <5> QED BY <5>1 DEF TopicInv
      <4> QED BY <4>2, <4>3
    <3> QED BY <3>2, <3>3
  <2> QED BY <1>2, <2>1 DEF Arrive, TopicInv
<1>3. ASSUME NEW t \in Topics, Take(t) PROVE TopicInv'
  <2> DEFINE e == Head(inbox[t])
  <2>1. inbox[t] \in Seq(Events) /\ inbox[t] # <<>>
    BY <1>3 DEF Take, TypeOK
  <2>2. e \in Events /\ TopicOf[e] = t
    <3>1. 1 \in DOMAIN inbox[t] /\ inbox[t][1] = e
      BY <2>1
    <3> QED BY <2>1, <3>1 DEF TopicInv
  <2>3. ASSUME NEW u \in Topics, NEW i \in DOMAIN inbox'[u]
        PROVE  TopicOf[inbox'[u][i]] = u
    <3>1. inbox' = [inbox EXCEPT ![t] = Tail(inbox[t])]
      BY <1>3 DEF Take
    <3>2. CASE u # t
      BY <2>3, <3>1, <3>2 DEF TypeOK, TopicInv
    <3>3. CASE u = t
      <4>1. inbox'[t] = Tail(inbox[t])
        BY <3>1 DEF TypeOK
      <4>2. i + 1 \in DOMAIN inbox[t] /\ inbox'[t][i] = inbox[t][i + 1]
        BY <2>1, <2>3, <3>3, <4>1
      <4> QED BY <3>3, <4>2 DEF TopicInv
    <3> QED BY <3>2, <3>3
  <2>4. Known(e) \in BOOLEAN
    BY DEF Known
  <2>5. \/ loop' = loop
        \/ \E known \in BOOLEAN : loop' = [loop EXCEPT ![t] = Checked(e, known)]
    BY <1>3, <2>4 DEF Take
  <2> HIDE DEF e
  <2>6. \A u \in Topics : loop'[u].pc # "idle" => TopicOf[loop'[u].event] = u
    <3>1. CASE loop' = loop
      BY <3>1 DEF TopicInv
    <3>2. ASSUME NEW known \in BOOLEAN,
                 loop' = [loop EXCEPT ![t] = Checked(e, known)]
          PROVE  \A u \in Topics :
                    loop'[u].pc # "idle" => TopicOf[loop'[u].event] = u
      <4>1. loop'[t].event = e
        BY <2>2, <3>2, CheckedTypes DEF TypeOK
      <4>2. \A u \in Topics \ {t} : loop'[u] = loop[u]
        BY <3>2 DEF TypeOK
      <4> QED BY <2>2, <4>1, <4>2 DEF TopicInv
    <3> QED BY <2>5, <3>1, <3>2
  <2> QED BY <2>3, <2>6 DEF TopicInv
<1>4. ASSUME NEW t \in Topics, Handle(t), ~Take(t) PROVE TopicInv'
  <2>1. loop[t].pc # "idle" /\ UNCHANGED inbox
    BY <1>4 DEF Handle, RecordEnd, RecordThrows, RecordReceived, StartAttempt, Perform,
         Refuse, RecordSuccess, MarkProcessed, SuccessRejects, RecordFailure,
         BackoffElapses, HandlerRejects, At
  <2>2. WellFormed(loop[t])
    BY DEF TypeOK
  <2>3. PICK l : /\ l.pc = "idle" \/ l.event = loop[t].event
                 /\ loop' = [loop EXCEPT ![t] = l]
    <3>1. \/ loop' = [loop EXCEPT ![t] = IdleLoop]
          \/ \E pc \in {"marking", "failing", "abandoning", "waiting"} :
                loop' = [loop EXCEPT ![t] = MovedTo(loop[t], pc)]
          \/ loop' = [loop EXCEPT ![t] = NextAttempt(loop[t])]
          \/ loop' = [loop EXCEPT ![t] = FirstCall(loop[t])]
          \/ loop' = [loop EXCEPT ![t] = NextCall(loop[t])]
      BY <1>4 DEF Handle, RecordEnd, RecordThrows, RecordReceived, StartAttempt, Perform,
           Refuse, RecordSuccess, MarkProcessed, SuccessRejects,
           RecordFailure, BackoffElapses, HandlerRejects, Goto, Finish
    <3>2. /\ \A pc : MovedTo(loop[t], pc).event = loop[t].event
          /\ NextAttempt(loop[t]).event = loop[t].event
          /\ FirstCall(loop[t]).event = loop[t].event
          /\ NextCall(loop[t]).event = loop[t].event
      BY <2>2 DEF WellFormed, LoopState, MovedTo, NextAttempt, FirstCall,
           NextCall
    <3> QED BY <3>1, <3>2, Idle
  <2> QED BY <1>1, <2>1, <2>3
<1>5. CASE Crash
  BY <1>5, Idle DEF Crash, TopicInv
<1>6. CASE UNCHANGED vars
  BY <1>6 DEF vars, TopicInv
<1> QED BY <1>2, <1>3, <1>4, <1>5, <1>6 DEF Next

(* What a save does to the record and to the count of faults.              *)
LEMMA SaveEffect ==
    ASSUME TypeOK, NEW t \in Topics, loop[t].event \in Events,
           Save(t) \/ SaveRejects(t)
    PROVE  /\ \/ job'[loop[t].event] = Saved[loop[t].pc]
              \/ job' = job
           /\ \A f \in Events \ {loop[t].event} : job'[f] = job[f]
           /\ faults' \in Nat
           /\ faults' = faults \/ faults' = faults + 1
           /\ SaveRejects(t) => faults' = faults + 1
<1>1. /\ Write(t) \/ job' = job
      /\ faults' = faults \/ faults' = faults + 1
      /\ SaveRejects(t) => faults' = faults + 1
  BY DEF Save, SaveRejects, Fault
<1>2. Write(t) => /\ job'[loop[t].event] = Saved[loop[t].pc]
                  /\ \A f \in Events \ {loop[t].event} : job'[f] = job[f]
  BY DEF TypeOK, Write
<1> QED BY <1>1, <1>2 DEF TypeOK

(* Each step of a handler keeps the invariant of its event.                *)
LEMMA HandlerStep ==
    ASSUME IInv, NEW t \in Topics, Handle(t), ~Take(t), TypeOK',
           NEW e, e = loop[t].event, NEW l, l = loop'[t]
    PROVE  CompletionInv' /\ SuccessIsReal'
<1> USE DEF IInv
<1>1. loop[t].pc # "idle"
  BY DEF Handle, RecordEnd, RecordThrows, RecordReceived, StartAttempt, Perform, Refuse,
         RecordSuccess, MarkProcessed, SuccessRejects, RecordFailure,
         BackoffElapses, HandlerRejects, At
<1>2. /\ WellFormed(loop[t]) /\ e \in Events /\ TopicOf[e] = t
      /\ Handling(e) /\ LoopOf(e) = loop[t]
      /\ MayComplete(e) <=> loop[t].pc \in Busy
      /\ MayRecord(e) <=> loop[t].pc \in {"completed", "marking"}
  BY <1>1, Working
<1>3. /\ CompletionFor(e) /\ completed[e] \in Nat
      /\ faults \in Nat /\ crashes \in Nat
      /\ job[e] \in {"succeeded", "skipped-duplicate"} => completed[e] > 0
  BY <1>2 DEF CompletionInv, TypeOK, SuccessIsReal
<1>4. WellFormed(l) /\ loop' = [loop EXCEPT ![t] = l]
  BY DEF TypeOK, Handle, RecordEnd, RecordThrows, RecordReceived, StartAttempt, Perform,
         Refuse, RecordSuccess, MarkProcessed, SuccessRejects, RecordFailure,
         BackoffElapses, HandlerRejects, Goto, Finish
<1>5. \A pc : MovedTo(loop[t], pc).event = e /\ MovedTo(loop[t], pc).pc = pc
  BY <1>2 DEF WellFormed, LoopState, MovedTo
<1>6. /\ faults' \in Nat /\ completed'[e] \in Nat
      /\ job \in [Events -> Statuses] /\ job' \in [Events -> Statuses]
      /\ completed \in [Events -> Nat]
  BY <1>2 DEF TypeOK
<1>7. ASSUME l.pc # "idle" => l.event = e
      PROVE  /\ LoopOf(e)' = l
             /\ Handling(e)' <=> l.pc # "idle"
             /\ MayComplete(e)' <=> l.pc \in Busy
             /\ MayRecord(e)' <=> l.pc \in {"completed", "marking"}
  BY <1>2, <1>4, <1>7, WorkingNext
<1>8. ASSUME l.pc # "idle" => l.event = e,
             OthersKept(e), faults <= faults', crashes' = crashes,
             CompletionFor(e)',
             job'[e] \in {"succeeded", "skipped-duplicate"} => completed'[e] > 0
      PROVE  CompletionInv' /\ SuccessIsReal'
  BY <1>1, <1>2, <1>4, <1>6, <1>8, OneEvent
<1>9. ASSUME Save(t) \/ SaveRejects(t)
      PROVE  /\ job'[e] = Saved[loop[t].pc] \/ job' = job
             /\ \A f \in Events \ {e} : job'[f] = job[f]
             /\ faults <= faults'
             /\ SaveRejects(t) => faults' = faults + 1
  BY <1>2, <1>3, <1>9, SaveEffect
<1>10. CASE RecordEnd(t)
  <2>1. loop[t].pc \in {"rejected", "duplicate", "abandoning"}
    BY <1>10 DEF RecordEnd, At
  <2>2. l.pc = "idle"
    BY <1>10, Idle DEF RecordEnd, Finish, TypeOK
  <2>3. /\ job'[e] = Saved[loop[t].pc] \/ job' = job
        /\ \A f \in Events \ {e} : job'[f] = job[f]
        /\ faults <= faults'
    BY <1>9, <1>10 DEF RecordEnd
  <2>4. UNCHANGED <<completed, remembered, processed, crashes>>
    BY <1>10 DEF RecordEnd
  <2>5. OthersKept(e)
    BY <1>3, <2>3, <2>4 DEF OthersKept
  <2>6. job'[e] \in {"succeeded", "skipped-duplicate"} => completed'[e] > 0
    BY <1>2, <1>3, <2>1, <2>3, <2>4 DEF Saved, CompletionFor
  <2>7. CompletionFor(e)'
    BY <1>2, <1>3, <1>6, <1>7, <2>1, <2>2, <2>3, <2>4
       DEF CompletionFor, Known, Busy
  <2> QED BY <1>3, <1>8, <2>2, <2>3, <2>4, <2>5, <2>6, <2>7
<1>11. CASE RecordReceived(t)
  <2>1. loop[t].pc \in {"received"}
    BY <1>11 DEF RecordReceived, At
  <2>2. l.pc = "attempting" /\ l.event = e
    BY <1>11, <1>2, LoopMoves DEF RecordReceived, At, TypeOK
  <2>3. /\ job'[e] = Saved[loop[t].pc] \/ job' = job
        /\ \A f \in Events \ {e} : job'[f] = job[f]
        /\ faults <= faults'
    BY <1>9, <1>11 DEF RecordReceived
  <2>4. UNCHANGED <<completed, remembered, processed, crashes>>
    BY <1>11 DEF RecordReceived
  <2>5. OthersKept(e)
    BY <1>3, <2>3, <2>4 DEF OthersKept
  <2>6. job'[e] \in {"succeeded", "skipped-duplicate"} => completed'[e] > 0
    BY <1>2, <1>3, <2>1, <2>3, <2>4 DEF Saved, CompletionFor
  <2>7. CompletionFor(e)'
    BY <1>2, <1>3, <1>6, <1>7, <2>1, <2>2, <2>3, <2>4
       DEF CompletionFor, Known, Busy
  <2> QED BY <1>3, <1>8, <2>2, <2>3, <2>4, <2>5, <2>6, <2>7
<1>12. CASE StartAttempt(t)
  <2>1. loop[t].pc \in {"attempting"}
    BY <1>12 DEF StartAttempt, At
  <2>2. l.pc = "working" /\ l.event = e
    BY <1>12, <1>2, LoopMoves DEF StartAttempt, At, TypeOK
  <2>3. /\ job'[e] = Saved[loop[t].pc] \/ job' = job
        /\ \A f \in Events \ {e} : job'[f] = job[f]
        /\ faults <= faults'
    BY <1>9, <1>12 DEF StartAttempt
  <2>4. UNCHANGED <<completed, remembered, processed, crashes>>
    BY <1>12 DEF StartAttempt
  <2>5. OthersKept(e)
    BY <1>3, <2>3, <2>4 DEF OthersKept
  <2>6. job'[e] \in {"succeeded", "skipped-duplicate"} => completed'[e] > 0
    BY <1>2, <1>3, <2>1, <2>3, <2>4 DEF Saved, CompletionFor
  <2>7. CompletionFor(e)'
    BY <1>2, <1>3, <1>6, <1>7, <2>1, <2>2, <2>3, <2>4
       DEF CompletionFor, Known, Busy
  <2> QED BY <1>3, <1>8, <2>2, <2>3, <2>4, <2>5, <2>6, <2>7
<1>13. CASE RecordFailure(t)
  <2>1. loop[t].pc \in {"failing"}
    BY <1>13 DEF RecordFailure, At
  <2>2. l.pc \in {"waiting", "abandoning"} /\ l.event = e
    BY <1>13, <1>5 DEF RecordFailure, Goto, TypeOK
  <2>3. /\ job'[e] = Saved[loop[t].pc] \/ job' = job
        /\ \A f \in Events \ {e} : job'[f] = job[f]
        /\ faults <= faults'
    BY <1>9, <1>13 DEF RecordFailure
  <2>4. UNCHANGED <<completed, remembered, processed, crashes>>
    BY <1>13 DEF RecordFailure
  <2>5. OthersKept(e)
    BY <1>3, <2>3, <2>4 DEF OthersKept
  <2>6. job'[e] \in {"succeeded", "skipped-duplicate"} => completed'[e] > 0
    BY <1>2, <1>3, <2>1, <2>3, <2>4 DEF Saved, CompletionFor
  <2>7. CompletionFor(e)'
    BY <1>2, <1>3, <1>6, <1>7, <2>1, <2>2, <2>3, <2>4
       DEF CompletionFor, Known, Busy
  <2> QED BY <1>3, <1>8, <2>2, <2>3, <2>4, <2>5, <2>6, <2>7
<1>14. CASE BackoffElapses(t)
  <2>1. loop[t].pc \in {"waiting"}
    BY <1>14 DEF BackoffElapses, At
  <2>2. l.pc = "attempting" /\ l.event = e
    BY <1>14, <1>2, LoopMoves DEF BackoffElapses, At, TypeOK
  <2>3. UNCHANGED <<job, faults>>
    BY <1>14 DEF BackoffElapses
  <2>4. UNCHANGED <<completed, remembered, processed, crashes>>
    BY <1>14 DEF BackoffElapses
  <2>5. OthersKept(e)
    BY <1>3, <2>3, <2>4 DEF OthersKept
  <2>6. job'[e] \in {"succeeded", "skipped-duplicate"} => completed'[e] > 0
    BY <1>2, <1>3, <2>1, <2>3, <2>4 DEF Saved, CompletionFor
  <2>7. CompletionFor(e)'
    BY <1>2, <1>3, <1>6, <1>7, <2>1, <2>2, <2>3, <2>4
       DEF CompletionFor, Known, Busy
  <2> QED BY <1>3, <1>8, <2>2, <2>3, <2>4, <2>5, <2>6, <2>7
<1>15. CASE HandlerRejects(t)
  <2>1. loop[t].pc \in {"rejected", "duplicate", "received", "attempting",
                     "failing", "abandoning"}
    BY <1>15 DEF HandlerRejects, At
  <2>2. l.pc = "idle"
    BY <1>15, Idle DEF HandlerRejects, Finish, TypeOK
  <2>3. /\ job'[e] = Saved[loop[t].pc] \/ job' = job
        /\ \A f \in Events \ {e} : job'[f] = job[f]
        /\ faults <= faults'
    BY <1>9, <1>15 DEF HandlerRejects
  <2>4. UNCHANGED <<completed, remembered, processed, crashes>>
    BY <1>15 DEF HandlerRejects
  <2>5. OthersKept(e)
    BY <1>3, <2>3, <2>4 DEF OthersKept
  <2>6. job'[e] \in {"succeeded", "skipped-duplicate"} => completed'[e] > 0
    BY <1>2, <1>3, <2>1, <2>3, <2>4 DEF Saved, CompletionFor
  <2>7. CompletionFor(e)'
    BY <1>2, <1>3, <1>6, <1>7, <2>1, <2>2, <2>3, <2>4
       DEF CompletionFor, Known, Busy
  <2> QED BY <1>3, <1>8, <2>2, <2>3, <2>4, <2>5, <2>6, <2>7
<1>16. CASE Perform(t)
  <2>1. loop[t].pc = "working"
    BY <1>16 DEF Perform, At
  <2>2. l.pc \in {"completed", "working"} /\ l.event = e
    BY <1>2, <1>16, <2>1, LoopMoves DEF Perform, TypeOK
  <2>3. UNCHANGED <<job, faults, remembered, processed, crashes>>
    BY <1>16 DEF Perform
  <2>4. /\ \A f \in Events \ {e} : completed'[f] = completed[f]
        /\ \/ l.pc = "completed" /\ completed'[e] = completed[e] + 1
           \/ l.pc = "working" /\ completed'[e] = completed[e]
    <3>1. l.pc = IF loop[t].step + 1 = Steps THEN "completed" ELSE "working"
      BY <1>2, <1>16, <2>1, LoopMoves DEF Perform, TypeOK
    <3> QED BY <1>2, <1>6, <1>16, <3>1 DEF Perform
  <2>5. OthersKept(e)
    BY <2>3, <2>4 DEF OthersKept
  <2>6. job'[e] \in {"succeeded", "skipped-duplicate"} => completed'[e] > 0
    BY <1>3, <2>3, <2>4
  <2>7. CompletionFor(e)'
    BY <1>2, <1>3, <1>6, <1>7, <2>1, <2>2, <2>3, <2>4
       DEF CompletionFor, Known, Busy
  <2> QED BY <1>3, <1>8, <2>2, <2>3, <2>5, <2>6, <2>7
<1>17. ASSUME NEW done \in BOOLEAN, Refuse(t, done)
       PROVE  CompletionInv' /\ SuccessIsReal'
  <2>1. loop[t].pc = "working"
    BY <1>17 DEF Refuse, At
  <2>2. l.pc = "failing" /\ l.event = e
    BY <1>5, <1>17 DEF Refuse, Goto, TypeOK
  <2>3. UNCHANGED <<job, faults, completed, remembered, processed, crashes>>
    BY <1>17 DEF Refuse
  <2>4. OthersKept(e)
    BY <2>3 DEF OthersKept
  <2>5. CompletionFor(e)'
    BY <1>2, <1>3, <1>6, <1>7, <2>1, <2>2, <2>3
       DEF CompletionFor, Known, Busy
  <2> QED BY <1>3, <1>8, <2>2, <2>3, <2>4, <2>5
<1>18. CASE RecordSuccess(t)
  <2>1. loop[t].pc = "completed"
    BY <1>18 DEF RecordSuccess, At
  <2>2. l.pc = "marking" /\ l.event = e
    BY <1>5, <1>18 DEF RecordSuccess, Goto, TypeOK
  <2>3. /\ job'[e] = Saved[loop[t].pc] \/ job' = job
        /\ \A f \in Events \ {e} : job'[f] = job[f]
        /\ faults <= faults'
    BY <1>9, <1>18 DEF RecordSuccess
  <2>4. /\ remembered' = remembered \cup {e}
        /\ UNCHANGED <<completed, processed, crashes>>
    BY <1>18 DEF RecordSuccess
  <2>5. OthersKept(e)
    BY <2>3, <2>4 DEF OthersKept
  <2>6. completed[e] > 0
    BY <1>2, <1>3, <2>1 DEF CompletionFor
  <2>7. CompletionFor(e)'
    BY <1>2, <1>3, <1>6, <1>7, <2>1, <2>2, <2>3, <2>4, <2>6
       DEF CompletionFor, Known, Busy
  <2> QED BY <1>3, <1>8, <2>2, <2>3, <2>4, <2>5, <2>6, <2>7
<1>19. CASE MarkProcessed(t)
  <2>1. loop[t].pc = "marking"
    BY <1>19 DEF MarkProcessed, At
  <2>2. l.pc = "idle"
    BY <1>19, Idle DEF MarkProcessed, Finish, TypeOK
  <2>3. /\ \/ processed' = processed \cup {e} /\ faults' = faults
           \/ processed' = processed /\ faults' = faults + 1
        /\ UNCHANGED <<job, completed, remembered, crashes>>
    BY <1>19 DEF MarkProcessed, Fault
  <2>4. OthersKept(e)
    BY <2>3 DEF OthersKept
  <2>5. completed[e] > 0 /\ completed[e] <= 1 + faults + crashes
    BY <1>2, <1>3, <2>1 DEF CompletionFor
  <2>6. CompletionFor(e)'
    BY <1>2, <1>3, <1>6, <1>7, <2>1, <2>2, <2>3, <2>5
       DEF CompletionFor, Known, Busy
  <2> QED BY <1>3, <1>8, <2>2, <2>3, <2>4, <2>5, <2>6
<1>20. CASE SuccessRejects(t)
  <2>1. loop[t].pc \in {"completed", "marking"}
    BY <1>20 DEF SuccessRejects, At
  <2>2. l.pc = "failing" /\ l.event = e
    BY <1>5, <1>20 DEF SuccessRejects, Goto, TypeOK
  <2>3. /\ faults' = faults + 1
        /\ \A f \in Events \ {e} : job'[f] = job[f]
        /\ UNCHANGED <<completed, remembered, crashes>>
        /\ processed' \in {processed, processed \cup {e}}
    BY <1>9, <1>20 DEF SuccessRejects, Fault
  <2>4. OthersKept(e)
    BY <2>3 DEF OthersKept
  <2>5. completed[e] > 0 /\ completed[e] <= 1 + faults + crashes
    BY <1>2, <1>3, <2>1 DEF CompletionFor
  <2>6. CompletionFor(e)'
    BY <1>2, <1>3, <1>6, <1>7, <2>1, <2>2, <2>3, <2>5
       DEF CompletionFor, Known, Busy
  <2> QED BY <1>3, <1>8, <2>2, <2>3, <2>4, <2>5, <2>6
<1>21. CASE RecordThrows(t)
  <2>1. loop[t].pc = "rejected" /\ l.pc = "idle"
    BY <1>21, Idle DEF RecordThrows, At, Finish, TypeOK
  <2>2. UNCHANGED <<job, completed, remembered, processed, faults, crashes>>
    BY <1>21 DEF RecordThrows
  <2>3. OthersKept(e)
    BY <2>2 DEF OthersKept
  <2>4. CompletionFor(e)'
    BY <1>2, <1>3, <1>6, <1>7, <2>1, <2>2 DEF CompletionFor, Known, Busy
  <2> QED BY <1>3, <1>8, <2>1, <2>2, <2>3, <2>4
<1> QED
  BY <1>10, <1>11, <1>12, <1>13, <1>14, <1>15, <1>16, <1>17, <1>18, <1>19,
     <1>20, <1>21 DEF Handle

(* A message taken from the inbox: an event known from memory or from      *)
(* Redis is skipped, and one that is not has no completion of its own; a   *)
(* lookup that fails is a fault that another completion is owed to.        *)
LEMMA TakeStep ==
    ASSUME IInv, NEW t \in Topics, Take(t), TypeOK',
           NEW e, e = Head(inbox[t])
    PROVE  CompletionInv' /\ SuccessIsReal'
<1> USE DEF IInv
<1>1. loop[t].pc = "idle" /\ WellFormed(loop[t])
  BY DEF Take, At, TypeOK
<1>2. e \in Events /\ TopicOf[e] = t
  <2>1. e \in Events
    BY NextMessage DEF Take
  <2>2. 1 \in DOMAIN inbox[t] /\ inbox[t][1] = e
    <3>1. inbox[t] \in Seq(Events) /\ inbox[t] # <<>>
      BY DEF Take, TypeOK
    <3> QED BY <3>1
  <2> QED BY <2>1, <2>2 DEF TopicInv
<1>3. /\ LoopOf(e) = loop[t] /\ ~Handling(e) /\ ~MayComplete(e)
      /\ ~MayRecord(e)
  BY <1>1, <1>2 DEF LoopOf, Handling, MayComplete, MayRecord
<1>4. /\ CompletionFor(e) /\ completed[e] \in Nat
      /\ faults \in Nat /\ crashes \in Nat /\ faults' \in Nat
      /\ job[e] \in {"succeeded", "skipped-duplicate"} => completed[e] > 0
  <2>1. faults \in Nat /\ crashes \in Nat /\ faults' \in Nat
    BY DEF TypeOK
  <2>2. CompletionFor(e) /\ completed[e] \in Nat
    BY <1>2 DEF CompletionInv, TypeOK
  <2>3. job[e] \in {"succeeded", "skipped-duplicate"} => completed[e] > 0
    BY <1>2 DEF SuccessIsReal
  <2> QED BY <2>1, <2>2, <2>3
<1>5. UNCHANGED <<remembered, processed, job, completed, crashes>>
  BY DEF Take
<1>6. OthersKept(e) /\ (Known(e)' <=> Known(e))
  BY <1>5 DEF OthersKept, Known
<1>7. ASSUME NEW known \in BOOLEAN, faults <= faults',
             loop' = [loop EXCEPT ![t] = Checked(e, known)],
             known => Known(e),
             ~known /\ Known(e) => faults' = faults + 1
      PROVE  CompletionInv' /\ SuccessIsReal'
  <2>1. /\ WellFormed(Checked(e, known)) /\ Checked(e, known).event = e
        /\ Checked(e, known).pc =
              IF e \in Invalid THEN "rejected"
              ELSE IF known THEN "duplicate" ELSE "received"
    BY <1>2, CheckedTypes
  <2>2. PICK l : l = Checked(e, known)
    OBVIOUS
  <2>3. /\ LoopOf(e)' = l
        /\ MayComplete(e)' <=> l.pc \in Busy
        /\ MayRecord(e)' <=> l.pc \in {"completed", "marking"}
    BY <1>2, <1>7, <2>1, <2>2, WorkingNext
  <2>4. CompletionFor(e)'
    BY <1>3, <1>4, <1>5, <1>6, <1>7, <2>1, <2>2, <2>3
       DEF CompletionFor, Busy, Known
  <2>5. loop' = [loop EXCEPT ![t] = l] /\ WellFormed(l) /\ l.event = e
    BY <1>7, <2>1, <2>2
  <2> QED BY <1>1, <1>2, <1>4, <1>5, <1>6, <1>7, <2>4, <2>5, OneEvent
<1>8. CASE loop' = [loop EXCEPT ![t] = Checked(e, Known(e))] /\ UNCHANGED faults
  <2>1. Known(e) = TRUE \/ Known(e) = FALSE
    BY DEF Known
  <2>2. faults <= faults'
    BY <1>4, <1>8
  <2>3. CASE Known(e) = TRUE
    BY <1>7, <1>8, <2>2, <2>3
  <2>4. CASE Known(e) = FALSE
    BY <1>7, <1>8, <2>2, <2>4
  <2> QED BY <2>1, <2>3, <2>4
<1>9. CASE Fault /\ loop' = [loop EXCEPT ![t] = Checked(e, FALSE)]
  <2>1. faults' = faults + 1 /\ faults <= faults'
    BY <1>4, <1>9 DEF Fault
  <2> QED BY <1>7, <1>9, <2>1
<1>10. CASE Fault /\ loop' = loop
  <2>1. loop' = [loop EXCEPT ![t] = loop[t]]
    BY <1>10 DEF TypeOK
  <2>2. LoopOf(e)' = LoopOf(e)
    BY <1>10 DEF LoopOf
  <2>3. ~Handling(e)' /\ ~MayComplete(e)' /\ ~MayRecord(e)'
    BY <1>3, <2>2 DEF Handling, MayComplete, MayRecord
  <2>4. faults' = faults + 1 /\ faults <= faults'
    BY <1>4, <1>10 DEF Fault
  <2>5. CompletionFor(e)'
    BY <1>3, <1>4, <1>5, <1>6, <2>3, <2>4 DEF CompletionFor, Known
  <2>6. PICK l : l = loop[t]
    OBVIOUS
  <2>7. /\ loop' = [loop EXCEPT ![t] = l] /\ WellFormed(l)
        /\ l.pc = "idle"
    BY <1>1, <2>1, <2>6
  <2>8. job'[e] \in {"succeeded", "skipped-duplicate"} => completed'[e] > 0
    BY <1>4, <1>5
  <2> QED BY <1>1, <1>2, <1>4, <1>5, <1>6, <2>4, <2>5, <2>7, <2>8, OneEvent
<1> QED BY <1>8, <1>9, <1>10 DEF Take

(* Every step keeps the invariant.                                         *)
LEMMA InvStep == IInv /\ [Next]_vars => IInv'
<1> SUFFICES ASSUME IInv, [Next]_vars PROVE IInv'
  OBVIOUS
<1>1. TypeOK'
  BY TypeStep DEF IInv
<1>2. TopicInv'
  BY TopicStep DEF IInv
<1>3. ASSUME NEW e \in Events, Arrive(e)
      PROVE  CompletionInv' /\ SuccessIsReal'
  <2>1. UNCHANGED <<loop, remembered, processed, job, completed, faults,
                    crashes>>
    BY <1>3 DEF Arrive
  <2> QED BY <2>1 DEF IInv, CompletionInv, SuccessIsReal, CompletionFor,
                      MayComplete, MayRecord, Handling, LoopOf, Known
<1>4. ASSUME NEW t \in Topics, Take(t)
      PROVE  CompletionInv' /\ SuccessIsReal'
  BY <1>1, <1>4, TakeStep
<1>5. ASSUME NEW t \in Topics, Handle(t), ~Take(t)
      PROVE  CompletionInv' /\ SuccessIsReal'
  BY <1>1, <1>5, HandlerStep
<1>6. ASSUME Crash PROVE CompletionInv' /\ SuccessIsReal'
  <2>1. ASSUME NEW e \in Events PROVE CompletionFor(e)'
    <3>1. /\ CompletionFor(e) /\ completed[e] \in Nat
          /\ faults \in Nat /\ crashes \in Nat
      BY DEF IInv, CompletionInv, TypeOK
    <3>2. ~Handling(e)' /\ ~MayComplete(e)' /\ ~MayRecord(e)'
      BY <1>6, Idle DEF Crash, Handling, LoopOf, MayComplete, MayRecord
    <3>3. Known(e)' => Known(e)
      BY <1>6 DEF Crash, Known
    <3> QED BY <1>6, <3>1, <3>2, <3>3 DEF Crash, CompletionFor
  <2>2. UNCHANGED <<job, completed>>
    BY <1>6 DEF Crash
  <2>3. SuccessIsReal
    BY DEF IInv
  <2>4. SuccessIsReal'
    BY <2>2, <2>3 DEF SuccessIsReal
  <2> QED BY <2>1, <2>4 DEF CompletionInv
<1>7. ASSUME UNCHANGED vars PROVE CompletionInv' /\ SuccessIsReal'
  <2>1. CompletionInv /\ SuccessIsReal
    BY DEF IInv
  <2> QED BY <1>7, <2>1 DEF vars, CompletionInv, SuccessIsReal, CompletionFor,
              MayComplete, MayRecord, Handling, LoopOf, Known
<1>8. CompletionInv' /\ SuccessIsReal'
  BY <1>3, <1>4, <1>5, <1>6, <1>7 DEF Next
<1> QED BY <1>1, <1>2, <1>8 DEF IInv

LEMMA InvInit == Init => IInv
<1> SUFFICES ASSUME Init PROVE IInv
  OBVIOUS
<1>1. TypeOK
  BY TypeInit
<1>2. TopicInv /\ SuccessIsReal
  BY Idle DEF Init, TopicInv, SuccessIsReal
<1>3. ASSUME NEW e \in Events PROVE CompletionFor(e)
  <2>1. LoopOf(e) = IdleLoop
    BY DEF Init, LoopOf
  <2>2. ~Handling(e) /\ ~MayComplete(e) /\ ~MayRecord(e) /\ ~Known(e)
    BY <2>1, Idle DEF Init, Handling, MayComplete, MayRecord, Known
  <2> QED BY <2>2 DEF Init, CompletionFor
<1> QED BY <1>1, <1>2, <1>3 DEF IInv, CompletionInv

(* The invariant: what the completions of each event's workflow are owed   *)
(* to, at every point of the handler (handler in subscriptions.ts).        *)
THEOREM Inductive == Spec => []IInv
BY InvInit, InvStep, PTL DEF Spec

(* However often an event is delivered and retried, its workflow completes *)
(* once more than failures of Redis and restarts account for, at the most  *)
(* (the lookup and markProcessedEvent in subscriptions.ts).                *)
THEOREM CompletedOnlyOnce == Spec => []CompletedOnce
<1>1. IInv => CompletedOnce
  <2> SUFFICES ASSUME IInv PROVE CompletedOnce
    OBVIOUS
  <2>1. ASSUME NEW e \in Events PROVE completed[e] <= 1 + faults + crashes
    <3>1. CompletionFor(e)
      BY DEF IInv, CompletionInv
    <3> QED BY <3>1 DEF CompletionFor
  <2> QED BY <2>1 DEF CompletedOnce
<1> QED BY <1>1, Inductive, PTL

(* A job recorded as succeeded, or skipped as a duplicate, ran to its end  *)
(* (upsertAuditRecord in subscriptions.ts).                                *)
THEOREM SuccessReal == Spec => []SuccessIsReal
<1>1. IInv => SuccessIsReal
  BY DEF IInv
<1> QED BY <1>1, Inductive, PTL

(* A workflow completes only in a call of an adapter that the handler is   *)
(* making for that event.                                                  *)
LEMMA CompletionIsPerformed ==
    ASSUME IInv, [Next]_vars, NEW e \in Events, completed'[e] > completed[e]
    PROVE  MayComplete(e)
<1>1. PICK t \in Topics : Perform(t)
  <2>1. completed' # completed \/ completed'[e] = completed[e]
    OBVIOUS
  <2>2. completed[e] \in Nat
    BY DEF IInv, TypeOK
  <2>3. completed' # completed
    BY <2>2
  <2> QED BY <2>3 DEF Next, Handle, Arrive, Take, RecordEnd, RecordThrows, RecordReceived,
        StartAttempt, Refuse, RecordSuccess, MarkProcessed, SuccessRejects,
        RecordFailure, BackoffElapses, HandlerRejects, Crash, vars
<1>2. loop[t].event = e /\ loop[t].pc = "working"
  <2>1. completed[e] \in Nat /\ completed \in [Events -> Nat]
    BY DEF IInv, TypeOK
  <2> QED BY <1>1, <2>1 DEF Perform, At
<1> QED BY <1>2, Working DEF IInv, Busy

(* Once the key of an event is in Redis its workflow completes again only  *)
(* if a call of Redis failed (markProcessedEvent and hasProcessedEvent).   *)
THEOREM MarkedFinal == Spec => MarkedIsFinal
<1>1. IInv /\ [Next]_vars =>
        [\A e \in processed :
            completed'[e] > completed[e] => faults > 0]_vars
  <2> SUFFICES ASSUME IInv, [Next]_vars, NEW e \in processed,
                      completed'[e] > completed[e]
               PROVE  faults > 0
    OBVIOUS
  <2>1. e \in Events
    BY DEF IInv, TypeOK
  <2>2. MayComplete(e)
    BY <2>1, CompletionIsPerformed
  <2> QED BY <2>1, <2>2 DEF IInv, CompletionInv, CompletionFor
<1> QED BY <1>1, Inductive, PTL DEF Spec, MarkedIsFinal

----------------------------------------------------------------------------
(* What a workflow that ran to its end leaves on record.                   *)

(* A step of a handler moves it on with its event, or sets it idle, and    *)
(* leaves the messages and the other handlers alone.                       *)
LEMMA HandlerMove ==
    ASSUME IInv, NEW t \in Topics, Handle(t), ~Take(t), TypeOK',
           NEW e, e = loop[t].event, NEW l, l = loop'[t]
    PROVE  /\ loop[t].pc # "idle" /\ WellFormed(loop[t]) /\ WellFormed(l)
           /\ e \in Events /\ TopicOf[e] = t
           /\ Handling(e) /\ LoopOf(e) = loop[t]
           /\ l.pc # "idle" => l.event = e
           /\ LoopOf(e)' = l
           /\ Handling(e)' <=> l.pc # "idle"
           /\ \A f \in Events \ {e} :
                 /\ Handling(f)' <=> Handling(f)
                 /\ Handling(f) => LoopOf(f)' = LoopOf(f)
           /\ UNCHANGED <<inbox, arrivals, crashes>>
<1> USE DEF IInv
<1>1. loop[t].pc # "idle" /\ UNCHANGED <<inbox, arrivals, crashes>>
  BY DEF Handle, RecordEnd, RecordThrows, RecordReceived, StartAttempt, Perform, Refuse,
         RecordSuccess, MarkProcessed, SuccessRejects, RecordFailure,
         BackoffElapses, HandlerRejects, At
<1>2. /\ WellFormed(loop[t]) /\ e \in Events /\ TopicOf[e] = t
      /\ Handling(e) /\ LoopOf(e) = loop[t]
  BY <1>1, Working
<1>3. WellFormed(l) /\ loop' = [loop EXCEPT ![t] = l]
  BY DEF TypeOK, Handle, RecordEnd, RecordThrows, RecordReceived, StartAttempt, Perform,
         Refuse, RecordSuccess, MarkProcessed, SuccessRejects, RecordFailure,
         BackoffElapses, HandlerRejects, Goto, Finish
<1>4. l.pc # "idle" => l.event = e
  <2>1. \/ loop' = [loop EXCEPT ![t] = IdleLoop]
        \/ \E pc \in {"marking", "failing", "abandoning", "waiting"} :
              loop' = [loop EXCEPT ![t] = MovedTo(loop[t], pc)]
        \/ loop' = [loop EXCEPT ![t] = NextAttempt(loop[t])]
        \/ loop' = [loop EXCEPT ![t] = FirstCall(loop[t])]
        \/ loop' = [loop EXCEPT ![t] = NextCall(loop[t])]
    BY DEF Handle, RecordEnd, RecordThrows, RecordReceived, StartAttempt, Perform,
           Refuse, RecordSuccess, MarkProcessed, SuccessRejects,
           RecordFailure, BackoffElapses, HandlerRejects, Goto, Finish
  <2>2. /\ \A pc : MovedTo(loop[t], pc).event = loop[t].event
        /\ NextAttempt(loop[t]).event = loop[t].event
        /\ FirstCall(loop[t]).event = loop[t].event
        /\ NextCall(loop[t]).event = loop[t].event
    BY <1>2 DEF WellFormed, LoopState, MovedTo, NextAttempt, FirstCall,
         NextCall
  <2>3. l \in {IdleLoop, NextAttempt(loop[t]), FirstCall(loop[t]),
               NextCall(loop[t])}
        \/ \E pc : l = MovedTo(loop[t], pc)
    BY <2>1 DEF TypeOK
  <2> QED BY <2>2, <2>3, Idle
<1>5. LoopOf(e)' = l /\ (Handling(e)' <=> l.pc # "idle")
  BY <1>2, <1>3, <1>4, WorkingNext
<1>6. ASSUME NEW f \in Events \ {e}
      PROVE  /\ Handling(f)' <=> Handling(f)
             /\ Handling(f) => LoopOf(f)' = LoopOf(f)
  <2>1. TopicOf[f] \in Topics
    OBVIOUS
  <2>2. CASE TopicOf[f] = t
    BY <1>1, <1>3, <1>4, <1>6, <2>2 DEF TypeOK, Handling, LoopOf
  <2>3. CASE TopicOf[f] # t
    BY <1>3, <2>1, <2>3 DEF TypeOK, Handling, LoopOf
  <2> QED BY <2>2, <2>3
<1> QED BY <1>1, <1>2, <1>3, <1>4, <1>5, <1>6

(* What CompletionIsRecorded rests on, while Redis works and the service   *)
(* stays up: a workflow completes only in an attempt that is on record,    *)
(* only an event that never completed is abandoned, and only an invalid    *)
(* one is rejected.                                                        *)
RecordedFor(e) ==
    /\ completed[e] > 0 =>
          job[e] \notin {"failed", "dead-lettered"} /\ e \notin Invalid
    /\ Handling(e) /\ LoopOf(e).pc = "working" => job[e] = "processing"
    /\ Handling(e) /\ LoopOf(e).pc = "abandoning" => completed[e] = 0
    /\ Handling(e) => (LoopOf(e).pc = "rejected" <=> e \in Invalid)

RecordedInv ==
    faults = 0 /\ crashes = 0 => \A e \in Events : RecordedFor(e)

LEMMA RecordedInit == Init => RecordedInv
<1> SUFFICES ASSUME Init PROVE RecordedInv
  OBVIOUS
<1>1. ASSUME NEW e \in Events PROVE RecordedFor(e)
  <2>1. ~Handling(e)
    BY Idle DEF Init, Handling, LoopOf
  <2> QED BY <2>1 DEF Init, RecordedFor
<1> QED BY <1>1 DEF RecordedInv

(* With Redis at work a save is made.                                      *)
LEMMA Written ==
    ASSUME TypeOK, NEW t \in Topics, loop[t].event \in Events,
           faults = 0, faults' = 0, Save(t) \/ SaveRejects(t)
    PROVE  Save(t) /\ job' = [job EXCEPT ![loop[t].event] = Saved[loop[t].pc]]
BY DEF TypeOK, Save, SaveRejects, Write, Fault

(* Each step of a handler, with Redis at work.                             *)
LEMMA RecordedHandler ==
    ASSUME IInv, RecordedInv, NEW t \in Topics, Handle(t), ~Take(t), TypeOK',
           faults' = 0, crashes' = 0,
           NEW e, e = loop[t].event, NEW l, l = loop'[t]
    PROVE  RecordedInv'
<1>1. /\ loop[t].pc # "idle" /\ WellFormed(loop[t]) /\ WellFormed(l)
      /\ e \in Events /\ TopicOf[e] = t
      /\ Handling(e) /\ LoopOf(e) = loop[t]
      /\ l.pc # "idle" => l.event = e
      /\ LoopOf(e)' = l
      /\ Handling(e)' <=> l.pc # "idle"
      /\ \A f \in Events \ {e} :
            /\ Handling(f)' <=> Handling(f)
            /\ Handling(f) => LoopOf(f)' = LoopOf(f)
      /\ crashes' = crashes
  BY HandlerMove
<1>2. faults = 0 /\ crashes = 0
  <2>1. faults' = faults \/ faults' = faults + 1
    BY DEF Handle, RecordEnd, RecordThrows, RecordReceived, StartAttempt, Perform, Refuse,
         RecordSuccess, MarkProcessed, SuccessRejects, RecordFailure,
         BackoffElapses, HandlerRejects, Save, SaveRejects, Fault
  <2> QED BY <1>1, <2>1 DEF IInv, TypeOK
<1>3. \A f \in Events : RecordedFor(f)
  BY <1>2 DEF RecordedInv
<1>4. completed[e] \in Nat /\ (MayComplete(e) => completed[e] = 0)
  BY <1>1, <1>2 DEF IInv, TypeOK, CompletionInv, CompletionFor
<1>5. MayComplete(e) <=> loop[t].pc \in Busy
  BY <1>1, Working DEF IInv
<1>6. ASSUME Save(t) \/ SaveRejects(t)
      PROVE  Save(t) /\ job' = [job EXCEPT ![e] = Saved[loop[t].pc]]
  BY <1>1, <1>2, <1>6, Written DEF IInv
<1>7. \A pc : MovedTo(loop[t], pc).pc = pc
  BY <1>1 DEF WellFormed, LoopState, MovedTo
<1>8. ~SuccessRejects(t) /\ ~HandlerRejects(t)
  BY <1>2 DEF SuccessRejects, HandlerRejects, SaveRejects, Fault
<1>9. job \in [Events -> Statuses] /\ completed \in [Events -> Nat]
  BY DEF IInv, TypeOK
<1>10. ASSUME RecordedFor(e)',
              \A f \in Events \ {e} :
                 job'[f] = job[f] /\ completed'[f] = completed[f]
       PROVE  RecordedInv'
  <2>1. ASSUME NEW f \in Events \ {e} PROVE RecordedFor(f)'
    BY <1>1, <1>3, <1>10, <2>1 DEF RecordedFor
  <2> QED BY <1>10, <2>1 DEF RecordedInv
<1>11. CASE RecordEnd(t)
  <2>1. l.pc = "idle" /\ completed' = completed
    BY <1>11, Idle DEF RecordEnd, Finish, IInv, TypeOK
  <2>2. /\ job' = [job EXCEPT ![e] = Saved[loop[t].pc]]
        /\ loop[t].pc \in {"rejected", "duplicate", "abandoning"}
    BY <1>6, <1>11 DEF RecordEnd
  <2>3. RecordedFor(e)'
    BY <1>1, <1>3, <1>4, <1>9, <2>1, <2>2 DEF RecordedFor, Saved
  <2> QED BY <1>9, <1>10, <2>1, <2>2, <2>3
<1>12. CASE RecordReceived(t)
  <2>1. /\ loop[t].pc = "received" /\ l.pc = "attempting"
        /\ completed' = completed
    BY <1>1, <1>12, LoopMoves DEF RecordReceived, At, IInv, TypeOK
  <2>2. job' = [job EXCEPT ![e] = Saved[loop[t].pc]]
    BY <1>6, <1>12 DEF RecordReceived
  <2>3. RecordedFor(e)'
    BY <1>1, <1>3, <1>4, <1>5, <1>9, <2>1, <2>2 DEF RecordedFor, Saved, Busy
  <2> QED BY <1>9, <1>10, <2>1, <2>2, <2>3
<1>13. CASE StartAttempt(t)
  <2>1. /\ loop[t].pc = "attempting" /\ l.pc = "working"
        /\ completed' = completed
    BY <1>1, <1>13, LoopMoves DEF StartAttempt, At, IInv, TypeOK
  <2>2. job' = [job EXCEPT ![e] = Saved[loop[t].pc]]
    BY <1>6, <1>13 DEF StartAttempt
  <2>3. RecordedFor(e)'
    BY <1>1, <1>3, <1>4, <1>5, <1>9, <2>1, <2>2 DEF RecordedFor, Saved, Busy
  <2> QED BY <1>9, <1>10, <2>1, <2>2, <2>3
<1>14. CASE Perform(t)
  <2>1. /\ loop[t].pc = "working" /\ l.pc \in {"completed", "working"}
        /\ job' = job
    BY <1>1, <1>14, LoopMoves DEF Perform, At, IInv, TypeOK
  <2>2. \A f \in Events \ {e} : completed'[f] = completed[f]
    BY <1>9, <1>14 DEF Perform
  <2>3. job[e] = "processing" /\ e \notin Invalid
    BY <1>1, <1>3, <2>1 DEF RecordedFor
  <2>4. RecordedFor(e)'
    BY <1>1, <2>1, <2>3 DEF RecordedFor
  <2> QED BY <1>10, <2>1, <2>2, <2>4
<1>15. ASSUME NEW done \in BOOLEAN, Refuse(t, done) PROVE RecordedInv'
  <2>1. /\ loop[t].pc = "working" /\ l.pc = "failing"
        /\ job' = job /\ completed' = completed
    BY <1>7, <1>15 DEF Refuse, Goto, At, IInv, TypeOK
  <2>2. RecordedFor(e)'
    BY <1>1, <1>3, <1>4, <1>5, <2>1 DEF RecordedFor, Busy
  <2> QED BY <1>10, <2>1, <2>2
<1>16. CASE RecordSuccess(t)
  <2>1. /\ loop[t].pc = "completed" /\ l.pc = "marking"
        /\ completed' = completed
    BY <1>7, <1>16 DEF RecordSuccess, Goto, At, IInv, TypeOK
  <2>2. job' = [job EXCEPT ![e] = Saved[loop[t].pc]]
    BY <1>6, <1>16 DEF RecordSuccess
  <2>3. RecordedFor(e)'
    BY <1>1, <1>3, <1>9, <2>1, <2>2 DEF RecordedFor, Saved
  <2> QED BY <1>9, <1>10, <2>1, <2>2, <2>3
<1>17. CASE MarkProcessed(t)
  <2>1. l.pc = "idle" /\ job' = job /\ completed' = completed
    BY <1>17, Idle DEF MarkProcessed, Finish, IInv, TypeOK
  <2>2. RecordedFor(e)'
    BY <1>1, <1>3, <2>1 DEF RecordedFor
  <2> QED BY <1>10, <2>1, <2>2
<1>18. CASE RecordFailure(t)
  <2>1. /\ loop[t].pc = "failing" /\ l.pc \in {"waiting", "abandoning"}
        /\ completed' = completed
    BY <1>7, <1>18 DEF RecordFailure, Goto, At, IInv, TypeOK
  <2>2. job' = [job EXCEPT ![e] = Saved[loop[t].pc]]
    BY <1>6, <1>18 DEF RecordFailure
  <2>3. RecordedFor(e)'
    BY <1>1, <1>3, <1>4, <1>5, <1>9, <2>1, <2>2 DEF RecordedFor, Saved, Busy
  <2> QED BY <1>9, <1>10, <2>1, <2>2, <2>3
<1>19. CASE BackoffElapses(t)
  <2>1. /\ loop[t].pc = "waiting" /\ l.pc = "attempting"
        /\ job' = job /\ completed' = completed
    BY <1>1, <1>19, LoopMoves DEF BackoffElapses, At, IInv, TypeOK
  <2>2. RecordedFor(e)'
    BY <1>1, <1>3, <2>1 DEF RecordedFor
  <2> QED BY <1>10, <2>1, <2>2
<1>20. CASE RecordThrows(t)
  <2>1. l.pc = "idle" /\ job' = job /\ completed' = completed
    BY <1>20, Idle DEF RecordThrows, Finish, IInv, TypeOK
  <2>2. RecordedFor(e)'
    BY <1>1, <1>3, <2>1 DEF RecordedFor
  <2> QED BY <1>10, <2>1, <2>2
<1> QED
  BY <1>8, <1>11, <1>12, <1>13, <1>14, <1>15, <1>16, <1>17, <1>18, <1>19,
     <1>20 DEF Handle

(* Every step.                                                             *)
LEMMA RecordedStep == IInv /\ RecordedInv /\ [Next]_vars => RecordedInv'
<1> SUFFICES ASSUME IInv, RecordedInv, [Next]_vars, faults' = 0, crashes' = 0
             PROVE  RecordedInv'
  BY DEF RecordedInv
<1>1. TypeOK'
  BY TypeStep DEF IInv
<1>2. ASSUME UNCHANGED <<loop, job, completed, faults, crashes>>
      PROVE  RecordedInv'
  BY <1>2 DEF RecordedInv, RecordedFor, Handling, LoopOf
<1>3. ASSUME NEW t \in Topics, Take(t) PROVE RecordedInv'
  <2>1. PICK e \in Events : e = Head(inbox[t])
    BY <1>3, NextMessage DEF Take, IInv
  <2>2. faults = 0 /\ crashes = 0 /\ ~Fault
    <3>1. ~Fault
      BY DEF Fault, IInv, TypeOK
    <3>2. faults' = faults /\ crashes' = crashes
      BY <1>3, <3>1 DEF Take
    <3> QED BY <3>1, <3>2
  <2>3. /\ loop' = [loop EXCEPT ![t] = Checked(e, Known(e))]
        /\ UNCHANGED <<job, completed>> /\ loop[t].pc = "idle"
    BY <1>3, <2>1, <2>2 DEF Take, At
  <2>4. /\ Checked(e, Known(e)).event = e
        /\ Checked(e, Known(e)).pc =
              IF e \in Invalid THEN "rejected"
              ELSE IF Known(e) THEN "duplicate" ELSE "received"
    BY DEF Checked
  <2>5. ASSUME NEW f \in Events PROVE RecordedFor(f)'
    <3>1. RecordedFor(f) /\ TopicOf[f] \in Topics
      BY <2>2 DEF RecordedInv
    <3>2. CASE TopicOf[f] # t
      BY <2>3, <3>1, <3>2 DEF RecordedFor, Handling, LoopOf, IInv, TypeOK
    <3>3. CASE TopicOf[f] = t
      <4>1. LoopOf(f)' = Checked(e, Known(e))
        BY <2>3, <3>3 DEF LoopOf, IInv, TypeOK
      <4>2. Handling(f)' => f = e
        BY <2>4, <4>1 DEF Handling
      <4> QED BY <2>3, <2>4, <3>1, <4>1, <4>2 DEF RecordedFor
    <3> QED BY <3>2, <3>3
  <2> QED BY <2>5 DEF RecordedInv
<1>4. ASSUME NEW t \in Topics, Handle(t), ~Take(t) PROVE RecordedInv'
  BY <1>1, <1>4, RecordedHandler
<1>5. ASSUME NEW e \in Events, Arrive(e) PROVE RecordedInv'
  BY <1>2, <1>5 DEF Arrive
<1>6. ~Crash
  BY DEF Crash, IInv, TypeOK
<1>7. CASE UNCHANGED vars
  BY <1>2, <1>7 DEF vars
<1> QED BY <1>3, <1>4, <1>5, <1>6, <1>7 DEF Next

(* While Redis works and the service stays up, no workflow that ran to its *)
(* end is shown as failed or dead-lettered, whatever was delivered again   *)
(* since (upsertAuditRecord in subscriptions.ts).                          *)
THEOREM CompletionRecorded == Spec => []CompletionIsRecorded
<1>1. RecordedInv => CompletionIsRecorded
  BY DEF RecordedInv, RecordedFor, CompletionIsRecorded
<1>2. Init => RecordedInv
  BY RecordedInit
<1>3. IInv /\ RecordedInv /\ [Next]_vars => RecordedInv'
  BY RecordedStep
<1> QED BY <1>1, <1>2, <1>3, Inductive, PTL DEF Spec

----------------------------------------------------------------------------
(* The calls that the messages of an event pay for.                        *)

(* The places of an event in its topic's inbox, and the times that the     *)
(* handler at work on it may still make an adapter call.                   *)
Places(e) == {i \in DOMAIN inbox[TopicOf[e]] : inbox[TopicOf[e]][i] = e}

Ahead(l, k) == l.pc = "attempting" \/ (l.pc = "working" /\ l.step < k)
LeftOf(l, k) ==
    IF l.pc = "idle" THEN 0
    ELSE IF Ahead(l, k) THEN (MaxAttempts - l.attempt) + 1
    ELSE MaxAttempts - l.attempt
Left(e, k) == IF Handling(e) THEN LeftOf(LoopOf(e), k) ELSE 0

(* Each message pays for maxAttempts calls: those made, those its handler  *)
(* may still make, and those of the messages that wait.                    *)
Budget(n) == MaxAttempts * n
BudgetFor(e, k) ==
    effects[e][k] + Left(e, k) + Budget(Cardinality(Places(e)))
        <= Budget(arrivals[e])
BudgetInv == \A e \in Events, k \in 1 .. Steps : BudgetFor(e, k)

LEMMA Budgets ==
    ASSUME NEW n \in Nat
    PROVE  /\ Budget(n) \in Nat /\ Budget(n + 1) = Budget(n) + MaxAttempts
           /\ \A m \in Nat : m <= n => Budget(m) <= Budget(n)
<1>1. Budget(n) \in Nat
  BY DEF Budget
<1>2. Budget(n + 1) = Budget(n) + MaxAttempts
  BY DEF Budget
<1>3. ASSUME NEW m \in Nat, m <= n PROVE Budget(m) <= Budget(n)
  <2>1. PICK d \in Nat : n = m + d
    <3>1. n - m \in Nat /\ n = m + (n - m)
      BY <1>3
    <3> QED BY <3>1
  <2>2. MaxAttempts * (m + d) = MaxAttempts * m + MaxAttempts * d
    OBVIOUS
  <2>3. MaxAttempts * d \in Nat /\ MaxAttempts * m \in Nat
    OBVIOUS
  <2> QED BY <2>1, <2>2, <2>3 DEF Budget
<1> QED BY <1>1, <1>2, <1>3

LEMMA PlacesFinite ==
    ASSUME NEW s \in Seq(Events), NEW e, NEW places,
           places = {i \in DOMAIN s : s[i] = e}
    PROVE  IsFiniteSet(places) /\ Cardinality(places) \in Nat
<1>1. places \subseteq 1 .. Len(s) /\ Len(s) \in Nat
  OBVIOUS
<1>2. IsFiniteSet(1 .. Len(s))
  BY <1>1, FS_Interval
<1>3. IsFiniteSet(places)
  BY <1>1, <1>2, FS_Subset
<1> QED BY <1>3, FS_CardinalityType

LEMMA PlacesTypes ==
    ASSUME TypeOK, TypeOK', NEW e \in Events
    PROVE  /\ IsFiniteSet(Places(e)) /\ Cardinality(Places(e)) \in Nat
           /\ IsFiniteSet(Places(e)') /\ Cardinality(Places(e)') \in Nat
<1>1. inbox[TopicOf[e]] \in Seq(Events) /\ inbox'[TopicOf[e]] \in Seq(Events)
  BY DEF TypeOK
<1>2. IsFiniteSet(Places(e)) /\ Cardinality(Places(e)) \in Nat
  BY <1>1, PlacesFinite DEF Places
<1>3. IsFiniteSet(Places(e)') /\ Cardinality(Places(e)') \in Nat
  BY <1>1, PlacesFinite DEF Places
<1> QED BY <1>2, <1>3

(* A message that arrives takes one more place of its event.               *)
LEMMA PlacesArrive ==
    ASSUME TypeOK, TypeOK', NEW f \in Events, Arrive(f), NEW e \in Events
    PROVE  Cardinality(Places(e)') <=
              IF e = f THEN Cardinality(Places(e)) + 1
              ELSE Cardinality(Places(e))
<1>1. inbox[TopicOf[e]] \in Seq(Events)
  BY DEF TypeOK
<1>2. Cardinality(Places(e)) \in Nat /\ IsFiniteSet(Places(e))
  BY PlacesTypes
<1>3. CASE e = f
  <2> DEFINE s == inbox[TopicOf[e]]
  <2>1. inbox'[TopicOf[e]] = Append(s, e)
    BY <1>3 DEF Arrive, TypeOK
  <2>2. Places(e)' \subseteq Places(e) \cup {Len(s) + 1}
    <3>1. ASSUME NEW i \in Places(e)', i # Len(s) + 1 PROVE i \in Places(e)
      <4>1. i \in DOMAIN Append(s, e) /\ Append(s, e)[i] = e
        BY <2>1 DEF Places
      <4>2. i \in DOMAIN s /\ s[i] = e
        BY <1>1, <3>1, <4>1
      <4> QED BY <4>2 DEF Places
    <3> QED BY <3>1
  <2>3. PICK x : x = Len(s) + 1
    OBVIOUS
  <2>4. /\ IsFiniteSet(Places(e) \cup {x})
        /\ Cardinality(Places(e) \cup {x}) <= Cardinality(Places(e)) + 1
    <3>1. /\ IsFiniteSet(Places(e) \cup {x})
          /\ Cardinality(Places(e) \cup {x}) =
                IF x \in Places(e) THEN Cardinality(Places(e))
                ELSE Cardinality(Places(e)) + 1
      BY <1>2, FS_AddElement, Zenon
    <3> QED BY <1>2, <3>1
  <2>5. Cardinality(Places(e)') <= Cardinality(Places(e) \cup {x})
    BY <2>2, <2>3, <2>4, FS_Subset
  <2>6. /\ Cardinality(Places(e)') \in Nat
        /\ Cardinality(Places(e) \cup {x}) \in Nat
    <3>1. IsFiniteSet(Places(e)')
      BY <2>2, <2>3, <2>4, FS_Subset
    <3> QED BY <2>4, <3>1, FS_CardinalityType
  <2> QED BY <1>2, <1>3, <2>4, <2>5, <2>6
<1>4. CASE e # f
  <2>1. Places(e)' \subseteq Places(e)
    <3>1. CASE TopicOf[e] # TopicOf[f]
      <4>1. inbox'[TopicOf[e]] = inbox[TopicOf[e]]
        BY <3>1 DEF Arrive, TypeOK
      <4> QED BY <4>1 DEF Places
    <3>2. CASE TopicOf[e] = TopicOf[f]
      <4> DEFINE s == inbox[TopicOf[e]]
      <4>1. inbox'[TopicOf[e]] = Append(s, f)
        BY <3>2 DEF Arrive, TypeOK
      <4>2. ASSUME NEW i \in Places(e)' PROVE i \in Places(e)
        <5>1. i \in DOMAIN Append(s, f) /\ Append(s, f)[i] = e
          BY <4>1 DEF Places
        <5>2. i \in DOMAIN s /\ s[i] = e
          BY <1>1, <1>4, <5>1
        <5> QED BY <5>2 DEF Places
      <4> QED BY <4>2
    <3> QED BY <3>1, <3>2
  <2>2. Cardinality(Places(e)') <= Cardinality(Places(e))
    BY <1>2, <2>1, FS_Subset
  <2> QED BY <1>4, <2>2
<1> QED BY <1>3, <1>4

(* A message that is taken leaves one place less of its event.             *)
LEMMA PlacesTake ==
    ASSUME TypeOK, TypeOK', NEW t \in Topics, Take(t), NEW e \in Events
    PROVE  /\ Cardinality(Places(e)') <= Cardinality(Places(e))
           /\ TopicOf[e] = t /\ e = Head(inbox[t]) =>
                 Cardinality(Places(e)') + 1 <= Cardinality(Places(e))
<1>1. Cardinality(Places(e)) \in Nat /\ IsFiniteSet(Places(e))
  BY PlacesTypes
<1>2. /\ inbox' = [inbox EXCEPT ![t] = Tail(inbox[t])] /\ inbox[t] # <<>>
      /\ inbox[t] \in Seq(Events)
  BY DEF Take, TypeOK
<1>3. CASE TopicOf[e] # t
  <2>1. inbox'[TopicOf[e]] = inbox[TopicOf[e]]
    BY <1>2, <1>3 DEF TypeOK
  <2>2. Places(e)' = Places(e)
    BY <2>1 DEF Places
  <2> QED BY <1>1, <1>3, <2>2
<1>4. CASE TopicOf[e] = t
  <2> DEFINE s == inbox[t]
             Rest == Places(e) \ {1}
             shift == [i \in Places(e)' |-> i + 1]
  <2>1. inbox'[TopicOf[e]] = Tail(s)
    BY <1>2, <1>4 DEF TypeOK
  <2>2. \A i \in Places(e)' : i \in Nat \ {0} /\ i + 1 \in Rest
    <3>1. ASSUME NEW i \in Places(e)' PROVE i \in Nat \ {0} /\ i + 1 \in Rest
      <4>1. i \in DOMAIN Tail(s) /\ Tail(s)[i] = e
        BY <2>1 DEF Places
      <4>2. i \in Nat \ {0} /\ i + 1 \in DOMAIN s /\ s[i + 1] = e
        BY <1>2, <4>1
      <4> QED BY <1>4, <4>2 DEF Places
    <3> QED BY <3>1
  <2>3. shift \in Injection(Places(e)', Rest)
    BY <2>2 DEF Injection, IsInjective
  <2>4. /\ IsFiniteSet(Rest) /\ Cardinality(Rest) \in Nat
        /\ Cardinality(Rest) <= Cardinality(Places(e))
        /\ 1 \in Places(e) => Cardinality(Rest) + 1 = Cardinality(Places(e))
    <3>1. /\ IsFiniteSet(Rest)
          /\ Cardinality(Rest) = IF 1 \in Places(e)
                                 THEN Cardinality(Places(e)) - 1
                                 ELSE Cardinality(Places(e))
      BY <1>1, FS_RemoveElement, Zenon
    <3>2. Cardinality(Rest) \in Nat
      BY <3>1, FS_CardinalityType
    <3> QED BY <1>1, <3>1, <3>2
  <2>5. /\ IsFiniteSet(Places(e)')
        /\ Cardinality(Places(e)') <= Cardinality(Rest)
    BY <2>3, <2>4, FS_Injection
  <2>6. Cardinality(Places(e)') \in Nat
    BY <2>5, FS_CardinalityType
  <2>7. e = Head(s) => 1 \in Places(e)
    BY <1>2, <1>4 DEF Places
  <2> QED BY <1>1, <1>4, <2>4, <2>5, <2>6, <2>7
<1> QED BY <1>3, <1>4

LEMMA LeftTypes ==
    ASSUME NEW l, WellFormed(l), NEW k \in 1 .. Steps
    PROVE  LeftOf(l, k) \in Nat
BY DEF LeftOf, WellFormed, LoopState

LEMMA CounterOf ==
    ASSUME NEW counters \in [Events -> [1 .. Steps -> Nat]],
           NEW e \in Events, NEW k \in 1 .. Steps
    PROVE  counters[e] \in [1 .. Steps -> Nat] /\ counters[e][k] \in Nat
<1>1. counters[e] \in [1 .. Steps -> Nat]
  OBVIOUS
<1> QED BY <1>1

(* Each step of a handler that makes a call has one less to make.          *)
LEMMA LeftHandler ==
    ASSUME IInv, NEW t \in Topics, Handle(t), ~Take(t), TypeOK',
           NEW e, e = loop[t].event, NEW l, l = loop'[t],
           NEW k \in 1 .. Steps
    PROVE  /\ effects'[e][k] + LeftOf(l, k) <= effects[e][k] + LeftOf(loop[t], k)
           /\ \A f \in Events \ {e} : effects'[f][k] = effects[f][k]
<1>1. /\ loop[t].pc # "idle" /\ WellFormed(loop[t]) /\ WellFormed(l)
      /\ e \in Events
      /\ l.pc # "idle" => l.event = e
  BY HandlerMove
<1>2. /\ effects \in [Events -> [1 .. Steps -> Nat]]
      /\ effects[e] \in [1 .. Steps -> Nat]
      /\ effects'[e][k] \in Nat /\ effects[e][k] \in Nat
  <2>1. effects \in [Events -> [1 .. Steps -> Nat]]
    BY DEF IInv, TypeOK
  <2>2. effects' \in [Events -> [1 .. Steps -> Nat]]
    BY DEF TypeOK
  <2> QED BY <1>1, <2>1, <2>2, CounterOf
<1>3. /\ LeftOf(loop[t], k) \in Nat /\ LeftOf(l, k) \in Nat
      /\ loop[t].attempt \in Nat /\ loop[t].attempt <= MaxAttempts
      /\ loop[t].step \in Nat
  BY <1>1, LeftTypes DEF WellFormed, LoopState
<1>4. CASE loop' = [loop EXCEPT ![t] = IdleLoop] /\ effects' = effects
  <2>1. l.pc = "idle"
    BY <1>4, Idle DEF IInv, TypeOK
  <2> QED BY <1>2, <1>3, <1>4, <2>1 DEF LeftOf
<1>5. ASSUME NEW pc \in {"marking", "waiting", "abandoning", "failing"},
             loop' = [loop EXCEPT ![t] = MovedTo(loop[t], pc)],
             effects' = effects
      PROVE  effects'[e][k] + LeftOf(l, k)
                <= effects[e][k] + LeftOf(loop[t], k)
  <2>1. l.pc = pc /\ l.attempt = loop[t].attempt
    BY <1>1, <1>5 DEF IInv, TypeOK, MovedTo, WellFormed, LoopState
  <2>2. LeftOf(l, k) = MaxAttempts - loop[t].attempt
    BY <2>1 DEF LeftOf, Ahead
  <2>3. LeftOf(l, k) <= LeftOf(loop[t], k)
    BY <1>1, <1>3, <2>2 DEF LeftOf
  <2>4. effects'[e][k] = effects[e][k]
    BY <1>5
  <2> QED BY <1>2, <1>3, <2>3, <2>4
<1>6. ASSUME loop[t].pc \in {"received", "waiting"},
             loop' = [loop EXCEPT ![t] = NextAttempt(loop[t])],
             effects' = effects
      PROVE  effects'[e][k] + LeftOf(l, k)
                <= effects[e][k] + LeftOf(loop[t], k)
  <2>1. l.pc = "attempting" /\ l.attempt = loop[t].attempt + 1
    BY <1>1, <1>6 DEF IInv, TypeOK, NextAttempt, WellFormed, LoopState
  <2>2. /\ LeftOf(l, k) = (MaxAttempts - (loop[t].attempt + 1)) + 1
        /\ LeftOf(loop[t], k) = MaxAttempts - loop[t].attempt
    BY <1>6, <2>1 DEF LeftOf, Ahead
  <2>3. LeftOf(l, k) = LeftOf(loop[t], k)
    BY <1>3, <2>2
  <2>4. effects'[e][k] = effects[e][k]
    BY <1>6
  <2> QED BY <1>2, <1>3, <2>3, <2>4
<1>7. CASE StartAttempt(t)
  <2>1. /\ loop[t].pc = "attempting" /\ effects' = effects
        /\ l = FirstCall(loop[t])
    BY <1>7 DEF StartAttempt, At, IInv, TypeOK
  <2>2. l.pc = "working" /\ l.step = 0 /\ l.attempt = loop[t].attempt
    BY <1>1, <2>1 DEF FirstCall, WellFormed, LoopState
  <2>3. LeftOf(l, k) = LeftOf(loop[t], k)
    BY <2>1, <2>2 DEF LeftOf, Ahead
  <2> QED BY <1>2, <1>3, <2>1, <2>3
<1>8. ASSUME NEW done \in BOOLEAN, loop[t].pc = "working",
             CountEffect(e, loop[t].step + 1, done),
             l.pc # "attempting", l.attempt = loop[t].attempt,
             l.pc = "working" => l.step = loop[t].step + 1, l.pc # "idle"
      PROVE  /\ effects'[e][k] + LeftOf(l, k)
                   <= effects[e][k] + LeftOf(loop[t], k)
             /\ \A f \in Events \ {e} : effects'[f][k] = effects[f][k]
  <2>1. /\ k = loop[t].step + 1 => effects'[e][k] <= effects[e][k] + 1
        /\ k # loop[t].step + 1 => effects'[e][k] = effects[e][k]
        /\ \A f \in Events \ {e} : effects'[f][k] = effects[f][k]
    BY <1>1, <1>2, <1>8 DEF CountEffect
  <2>2. CASE k = loop[t].step + 1
    <3>1. Ahead(loop[t], k) /\ ~Ahead(l, k)
      BY <1>3, <1>8, <2>2 DEF Ahead
    <3>2. LeftOf(loop[t], k) = LeftOf(l, k) + 1
      BY <1>3, <1>8, <3>1 DEF LeftOf
    <3>3. effects'[e][k] <= effects[e][k] + 1
      BY <2>1, <2>2
    <3>4. effects'[e][k] \in Nat /\ effects[e][k] \in Nat
      BY <1>2
    <3>5. effects'[e][k] + LeftOf(l, k)
             <= effects[e][k] + LeftOf(loop[t], k)
      BY <1>3, <3>2, <3>3, <3>4
    <3> QED BY <2>1, <3>5
  <2>3. CASE k # loop[t].step + 1
    <3>1. Ahead(l, k) => Ahead(loop[t], k)
      BY <1>3, <1>8, <2>3 DEF Ahead
    <3>2. LeftOf(l, k) <= LeftOf(loop[t], k)
      BY <1>3, <1>8, <3>1 DEF LeftOf
    <3> QED BY <1>2, <1>3, <2>1, <2>3, <3>2
  <2> QED BY <2>2, <2>3, <2>1
<1>9. CASE Perform(t)
  <2>1. /\ loop[t].pc = "working" /\ l = NextCall(loop[t])
        /\ CountEffect(e, loop[t].step + 1, TRUE)
    BY <1>9 DEF Perform, At, IInv, TypeOK
  <2>2. /\ l.attempt = loop[t].attempt /\ l.step = loop[t].step + 1
        /\ l.pc \in {"completed", "working"}
    BY <1>1, <2>1 DEF NextCall, WellFormed, LoopState
  <2> QED BY <1>8, <2>1, <2>2
<1>10. ASSUME NEW done \in BOOLEAN, Refuse(t, done)
       PROVE  /\ effects'[e][k] + LeftOf(l, k)
                    <= effects[e][k] + LeftOf(loop[t], k)
              /\ \A f \in Events \ {e} : effects'[f][k] = effects[f][k]
  <2>1. /\ loop[t].pc = "working" /\ l = MovedTo(loop[t], "failing")
        /\ CountEffect(e, loop[t].step + 1, done)
    BY <1>10 DEF Refuse, Goto, At, IInv, TypeOK
  <2>2. l.attempt = loop[t].attempt /\ l.pc = "failing"
    BY <1>1, <2>1 DEF MovedTo, WellFormed, LoopState
  <2> QED BY <1>8, <2>1, <2>2
<1>11. CASE RecordEnd(t) \/ RecordThrows(t) \/ MarkProcessed(t) \/ HandlerRejects(t)
  BY <1>4, <1>11 DEF RecordEnd, RecordThrows, MarkProcessed, HandlerRejects, Finish
<1>12. CASE RecordSuccess(t) \/ SuccessRejects(t) \/ RecordFailure(t)
  <2>1. effects' = effects
    BY <1>12 DEF RecordSuccess, SuccessRejects, RecordFailure
  <2>2. PICK pc \in {"marking", "waiting", "abandoning", "failing"} :
           loop' = [loop EXCEPT ![t] = MovedTo(loop[t], pc)]
    BY <1>12 DEF RecordSuccess, SuccessRejects, RecordFailure, Goto
  <2> QED BY <1>5, <2>1, <2>2
<1>13. CASE RecordReceived(t) \/ BackoffElapses(t)
  <2>1. /\ loop[t].pc \in {"received", "waiting"} /\ effects' = effects
        /\ loop' = [loop EXCEPT ![t] = NextAttempt(loop[t])]
    BY <1>13 DEF RecordReceived, BackoffElapses, At
  <2> QED BY <1>6, <2>1
<1> QED BY <1>7, <1>9, <1>10, <1>11, <1>12, <1>13
        DEF Handle, StartAttempt

LEMMA BudgetInit == Init => BudgetInv
<1> SUFFICES ASSUME Init, NEW e \in Events, NEW k \in 1 .. Steps
             PROVE  BudgetFor(e, k)
  BY DEF BudgetInv
<1>1. effects[e][k] = 0 /\ arrivals[e] = 0 /\ inbox[TopicOf[e]] = <<>>
  BY DEF Init
<1>2. Left(e, k) = 0
  BY Idle DEF Init, Left, Handling, LoopOf
<1>3. Places(e) = {}
  BY <1>1 DEF Places
<1>4. Cardinality(Places(e)) = 0
  BY <1>3, FS_EmptySet
<1>5. Budget(0) \in Nat
  BY Budgets
<1> QED BY <1>1, <1>2, <1>4, <1>5 DEF BudgetFor

(* Every step.                                                             *)
LEMMA BudgetStep == IInv /\ BudgetInv /\ [Next]_vars => BudgetInv'
<1> SUFFICES ASSUME IInv, BudgetInv, [Next]_vars,
                    NEW e \in Events, NEW k \in 1 .. Steps
             PROVE  BudgetFor(e, k)'
  BY DEF BudgetInv
<1>1. TypeOK /\ TypeOK'
  BY TypeStep DEF IInv
<1>2. BudgetFor(e, k) /\ TopicOf[e] \in Topics
  BY DEF BudgetInv
<1>3. /\ effects[e][k] \in Nat /\ effects'[e][k] \in Nat
      /\ arrivals[e] \in Nat /\ arrivals'[e] \in Nat
  BY <1>1 DEF TypeOK
<1>4. Left(e, k) \in Nat /\ Left(e, k)' \in Nat
  <2>1. WellFormed(LoopOf(e)) /\ WellFormed(LoopOf(e)')
    BY <1>1, <1>2 DEF TypeOK, LoopOf
  <2>2. LeftOf(LoopOf(e), k) \in Nat /\ LeftOf(LoopOf(e)', k) \in Nat
    BY <2>1, LeftTypes
  <2> QED BY <2>2 DEF Left
<1>5. /\ Cardinality(Places(e)) \in Nat /\ IsFiniteSet(Places(e))
      /\ Cardinality(Places(e)') \in Nat
  BY <1>1, PlacesTypes
<1>6. ASSUME effects'[e][k] + Left(e, k)' <= effects[e][k] + Left(e, k),
             inbox' = inbox, arrivals' = arrivals
      PROVE  BudgetFor(e, k)'
  <2>1. Places(e)' = Places(e)
    BY <1>6 DEF Places
  <2>2. Budget(Cardinality(Places(e))) \in Nat /\ Budget(arrivals[e]) \in Nat
    BY <1>3, <1>5, Budgets
  <2> QED BY <1>2, <1>3, <1>4, <1>6, <2>1, <2>2 DEF BudgetFor
<1>7. CASE UNCHANGED vars
  <2>1. Left(e, k)' = Left(e, k)
    BY <1>7 DEF vars, Left, Handling, LoopOf
  <2> QED BY <1>3, <1>4, <1>6, <1>7, <2>1 DEF vars
<1>8. ASSUME NEW f \in Events, Arrive(f) PROVE BudgetFor(e, k)'
  <2>1. UNCHANGED <<effects, loop>>
    BY <1>8 DEF Arrive
  <2>2. Left(e, k)' = Left(e, k)
    BY <2>1 DEF Left, Handling, LoopOf
  <2>3. arrivals'[e] = IF e = f THEN arrivals[e] + 1 ELSE arrivals[e]
    BY <1>8 DEF Arrive, TypeOK, IInv
  <2>4. Cardinality(Places(e)') <=
           IF e = f THEN Cardinality(Places(e)) + 1 ELSE Cardinality(Places(e))
    BY <1>1, <1>8, PlacesArrive
  <2>5. PICK n : n = Cardinality(Places(e)')
    OBVIOUS
  <2>6. n \in Nat
    BY <1>5, <2>5
  <2>7. /\ Budget(n) <= IF e = f
                        THEN Budget(Cardinality(Places(e))) + MaxAttempts
                        ELSE Budget(Cardinality(Places(e)))
        /\ Budget(n) \in Nat /\ Budget(Cardinality(Places(e))) \in Nat
    <3>1. CASE e = f
      BY <1>5, <2>4, <2>5, <2>6, <3>1, Budgets
    <3>2. CASE e # f
      BY <1>5, <2>4, <2>5, <2>6, <3>2, Budgets
    <3> QED BY <3>1, <3>2
  <2>8. /\ Budget(arrivals'[e]) = IF e = f THEN Budget(arrivals[e]) + MaxAttempts
                                  ELSE Budget(arrivals[e])
        /\ Budget(arrivals[e]) \in Nat
    BY <1>3, <2>3, Budgets
  <2> QED BY <1>2, <1>3, <1>4, <2>1, <2>2, <2>5, <2>7, <2>8 DEF BudgetFor
<1>9. ASSUME NEW t \in Topics, Take(t) PROVE BudgetFor(e, k)'
  <2>1. UNCHANGED <<effects, arrivals>> /\ loop[t].pc = "idle"
    BY <1>9 DEF Take, At
  <2>2. /\ Cardinality(Places(e)') <= Cardinality(Places(e))
        /\ TopicOf[e] = t /\ e = Head(inbox[t]) =>
              Cardinality(Places(e)') + 1 <= Cardinality(Places(e))
    BY <1>1, <1>9, PlacesTake
  <2>3. PICK n : n = Cardinality(Places(e)')
    OBVIOUS
  <2>4. n \in Nat
    BY <1>5, <2>3
  <2>5. /\ Left(e, k)' <= Left(e, k) + MaxAttempts
        /\ Left(e, k)' > Left(e, k) => TopicOf[e] = t /\ e = Head(inbox[t])
    <3>1. CASE TopicOf[e] # t
      <4>1. LoopOf(e)' = LoopOf(e)
        BY <1>1, <1>2, <1>9, <3>1 DEF Take, LoopOf, TypeOK
      <4>2. Left(e, k)' = Left(e, k)
        BY <4>1 DEF Left, Handling
      <4> QED BY <1>4, <4>2
    <3>2. CASE TopicOf[e] = t
      <4>1. PICK x \in Events : x = Head(inbox[t])
        BY <1>1, <1>9, NextMessage DEF Take
      <4>2. Left(e, k) = 0
        BY <2>1, <3>2 DEF Left, Handling, LoopOf
      <4>3. \/ loop' = loop
            \/ \E known \in {Known(x), FALSE} :
                  loop' = [loop EXCEPT ![t] = Checked(x, known)]
        BY <1>9, <4>1 DEF Take
      <4>4. CASE loop' = loop
        <5>1. Left(e, k)' = 0
          BY <4>2, <4>4 DEF Left, Handling, LoopOf
        <5> QED BY <4>2, <5>1
      <4>5. ASSUME NEW known, loop' = [loop EXCEPT ![t] = Checked(x, known)]
            PROVE  /\ Left(e, k)' <= Left(e, k) + MaxAttempts
                   /\ Left(e, k)' > Left(e, k) => e = x
        <5>1. LoopOf(e)' = Checked(x, known)
          BY <1>1, <3>2, <4>5 DEF LoopOf, TypeOK
        <5>2. /\ Checked(x, known).event = x
              /\ Checked(x, known).attempt = 0
              /\ Checked(x, known).pc \in {"rejected", "duplicate", "received"}
          BY DEF Checked
        <5>3. LeftOf(Checked(x, known), k) = MaxAttempts
          BY <5>2 DEF LeftOf, Ahead
        <5>4. Left(e, k)' = IF x = e THEN MaxAttempts ELSE 0
          BY <5>1, <5>2, <5>3 DEF Left, Handling
        <5> QED BY <4>2, <5>4
      <4> QED BY <3>2, <4>1, <4>3, <4>4, <4>5
    <3> QED BY <3>1, <3>2
  <2>6. /\ Budget(n) \in Nat /\ Budget(Cardinality(Places(e))) \in Nat
        /\ Budget(n) <= Budget(Cardinality(Places(e)))
        /\ TopicOf[e] = t /\ e = Head(inbox[t]) =>
              Budget(n) + MaxAttempts <= Budget(Cardinality(Places(e)))
    <3>1. /\ Budget(n) \in Nat /\ Budget(n + 1) = Budget(n) + MaxAttempts
          /\ n + 1 \in Nat
      BY <2>4, Budgets
    <3> QED BY <1>5, <2>2, <2>3, <2>4, <3>1, Budgets
  <2>7. Budget(arrivals[e]) \in Nat
    BY <1>3, Budgets
  <2> QED BY <1>2, <1>3, <1>4, <2>1, <2>3, <2>5, <2>6, <2>7 DEF BudgetFor
<1>10. ASSUME NEW t \in Topics, Handle(t), ~Take(t) PROVE BudgetFor(e, k)'
  <2>1. PICK x : x = loop[t].event
    OBVIOUS
  <2>2. PICK l : l = loop'[t]
    OBVIOUS
  <2>3. /\ Handling(x) /\ LoopOf(x) = loop[t]
        /\ LoopOf(x)' = l
        /\ Handling(x)' <=> l.pc # "idle"
        /\ e # x => /\ Handling(e)' <=> Handling(e)
                    /\ Handling(e) => LoopOf(e)' = LoopOf(e)
        /\ UNCHANGED <<inbox, arrivals>>
    BY <1>1, <1>10, <2>1, <2>2, HandlerMove
  <2>4. /\ effects'[x][k] + LeftOf(l, k)
              <= effects[x][k] + LeftOf(loop[t], k)
        /\ e # x => effects'[e][k] = effects[e][k]
    BY <1>1, <1>10, <2>1, <2>2, LeftHandler
  <2>5. CASE e = x
    <3>1. Left(e, k) = LeftOf(loop[t], k)
      BY <2>3, <2>5 DEF Left
    <3>2. Left(e, k)' = LeftOf(l, k)
      BY <2>3, <2>5 DEF Left, LeftOf
    <3> QED BY <1>6, <2>3, <2>4, <2>5, <3>1, <3>2
  <2>6. CASE e # x
    <3>1. Left(e, k)' = Left(e, k)
      BY <2>3, <2>6 DEF Left
    <3> QED BY <1>3, <1>4, <1>6, <2>3, <2>4, <2>6, <3>1
  <2> QED BY <2>5, <2>6
<1>11. CASE Crash
  <2>1. inbox'[TopicOf[e]] = <<>> /\ UNCHANGED <<effects, arrivals>>
    BY <1>2, <1>11 DEF Crash
  <2>2. Left(e, k)' = 0
    BY <1>2, <1>11, Idle DEF Crash, Left, Handling, LoopOf
  <2>3. Places(e)' = {}
    BY <2>1 DEF Places
  <2>4. Cardinality(Places(e)') = 0
    BY <2>3, FS_EmptySet
  <2>5. /\ Budget(0) \in Nat /\ Budget(Cardinality(Places(e))) \in Nat
        /\ Budget(0) <= Budget(Cardinality(Places(e)))
        /\ Budget(arrivals[e]) \in Nat
    <3>1. PICK n : n = Cardinality(Places(e))
      OBVIOUS
    <3>2. n \in Nat /\ 0 \in Nat /\ 0 <= n
      BY <1>5, <3>1
    <3>3. Budget(0) \in Nat /\ Budget(n) \in Nat /\ Budget(0) <= Budget(n)
      BY <3>2, Budgets
    <3> QED BY <1>3, <3>1, <3>3, Budgets
  <2> QED BY <1>2, <1>3, <1>4, <2>1, <2>2, <2>4, <2>5 DEF BudgetFor
<1> QED BY <1>7, <1>8, <1>9, <1>10, <1>11 DEF Next

(* An adapter call is made maxAttempts times at the most for each message  *)
(* received of its event, however messages are repeated, Redis fails and   *)
(* the service restarts (the attempts of the handler in subscriptions.ts). *)
THEOREM EffectsBounded == Spec => []EffectsAreBounded
<1>1. TypeOK /\ BudgetInv => EffectsAreBounded
  <2> SUFFICES ASSUME TypeOK, BudgetInv, NEW e \in Events, NEW k \in 1 .. Steps
               PROVE  effects[e][k] <= MaxAttempts * arrivals[e]
    BY DEF EffectsAreBounded
  <2>1. Left(e, k) \in Nat
    <3>1. WellFormed(LoopOf(e))
      BY DEF TypeOK, LoopOf
    <3> QED BY <3>1, LeftTypes DEF Left
  <2>2. effects[e][k] \in Nat /\ arrivals[e] \in Nat
    BY DEF TypeOK
  <2>3. Budget(Cardinality(Places(e))) \in Nat /\ Budget(arrivals[e]) \in Nat
    <3>1. inbox[TopicOf[e]] \in Seq(Events)
      BY DEF TypeOK
    <3>2. Cardinality(Places(e)) \in Nat
      BY <3>1, PlacesFinite DEF Places
    <3> QED BY <2>2, <3>2, Budgets
  <2>4. effects[e][k] <= Budget(arrivals[e])
    BY <2>1, <2>2, <2>3 DEF BudgetInv, BudgetFor
  <2> QED BY <2>4 DEF Budget
<1>2. Init => BudgetInv
  BY BudgetInit
<1>3. IInv /\ BudgetInv /\ [Next]_vars => BudgetInv'
  BY BudgetStep
<1>4. IInv => TypeOK
  BY DEF IInv
<1> QED BY <1>1, <1>2, <1>3, <1>4, Inductive, PTL DEF Spec
=============================================================================
