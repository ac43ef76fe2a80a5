--------------------- MODULE ScheduledNotificationsProofs ---------------------
(* Proofs about ScheduledNotifications for any number of notifications,    *)
(* senders, faults and restarts, any batch size and any limit of the list. *)
(* The inductive invariant says where an id may be: on a list once, in the *)
(* hands of a sender or claimed, and never claimed while it may be claimed *)
(* again.                                                                  *)
EXTENDS ScheduledNotifications, TLAPS

USE ScheduleAssumption

----------------------------------------------------------------------------
(* Sequences without repetition.                                           *)

LEMMA TailOf ==
    ASSUME NEW s \in Seq(Records), s # <<>>
    PROVE  /\ Head(s) \in Records /\ Tail(s) \in Seq(Records)
           /\ Range(s) = {Head(s)} \cup Range(Tail(s))
           /\ IsInjective(s) =>
                 IsInjective(Tail(s)) /\ Head(s) \notin Range(Tail(s))
<1>1. /\ Len(s) \in Nat \ {0} /\ DOMAIN s = 1 .. Len(s)
      /\ \A i \in 1 .. Len(s) : s[i] \in Records
      /\ Head(s) = s[1]
  OBVIOUS
<1>2. /\ Tail(s) \in Seq(Records) /\ Len(Tail(s)) = Len(s) - 1
      /\ DOMAIN Tail(s) = 1 .. Len(s) - 1
      /\ \A i \in 1 .. Len(s) - 1 : Tail(s)[i] = s[i + 1]
  BY <1>1
<1>3. Range(s) = {Head(s)} \cup Range(Tail(s))
  <2>1. ASSUME NEW i \in 1 .. Len(s)
        PROVE  s[i] = Head(s) \/ s[i] \in Range(Tail(s))
    <3>1. CASE i = 1
      BY <3>1, <1>1
    <3>2. CASE i # 1
      <4>1. i - 1 \in 1 .. Len(s) - 1 /\ s[i] = Tail(s)[i - 1]
        BY <3>2, <1>1, <1>2
      <4> QED BY <4>1, <1>2 DEF Range
    <3> QED BY <3>1, <3>2
  <2>2. ASSUME NEW i \in 1 .. Len(s) - 1 PROVE Tail(s)[i] \in Range(s)
    <3>1. i + 1 \in 1 .. Len(s)
      BY <1>1
    <3> QED BY <3>1, <1>1, <1>2 DEF Range
  <2>3. Head(s) \in Range(s)
    BY <1>1 DEF Range
  <2> QED BY <2>1, <2>2, <2>3, <1>1, <1>2 DEF Range
<1>4. ASSUME IsInjective(s) PROVE IsInjective(Tail(s))
  <2> SUFFICES ASSUME NEW i \in 1 .. Len(s) - 1, NEW j \in 1 .. Len(s) - 1,
                      Tail(s)[i] = Tail(s)[j]
               PROVE  i = j
    BY <1>2 DEF IsInjective
  <2>1. i + 1 \in 1 .. Len(s) /\ j + 1 \in 1 .. Len(s) /\ s[i + 1] = s[j + 1]
    BY <1>1, <1>2
  <2>2. i + 1 = j + 1
    BY <2>1, <1>1, <1>4 DEF IsInjective
  <2> QED BY <2>2
<1>5. ASSUME IsInjective(s), Head(s) \in Range(Tail(s)) PROVE FALSE
  <2>1. PICK i \in 1 .. Len(s) - 1 : Tail(s)[i] = s[1]
    BY <1>1, <1>2, <1>5 DEF Range
  <2>2. i + 1 \in 1 .. Len(s) /\ 1 \in 1 .. Len(s) /\ s[i + 1] = s[1]
    BY <2>1, <1>1, <1>2
  <2>3. i + 1 = 1
    BY <2>2, <1>1, <1>5 DEF IsInjective
  <2> QED BY <2>3
<1> QED BY <1>1, <1>2, <1>3, <1>4, <1>5

LEMMA AppendTo ==
    ASSUME NEW s \in Seq(Records), NEW r \in Records
    PROVE  /\ Append(s, r) \in Seq(Records) /\ Append(s, r) # <<>>
           /\ Range(Append(s, r)) = Range(s) \cup {r}
           /\ IsInjective(s) /\ r \notin Range(s) => IsInjective(Append(s, r))
<1>1. /\ Len(s) \in Nat /\ DOMAIN s = 1 .. Len(s)
      /\ Append(s, r) \in Seq(Records) /\ Append(s, r) # <<>>
      /\ DOMAIN Append(s, r) = 1 .. Len(s) + 1
      /\ \A i \in 1 .. Len(s) : Append(s, r)[i] = s[i]
      /\ Append(s, r)[Len(s) + 1] = r
  OBVIOUS
<1>2. Range(Append(s, r)) = Range(s) \cup {r}
  <2>1. \A i \in 1 .. Len(s) + 1 : i \in 1 .. Len(s) \/ i = Len(s) + 1
    BY <1>1
  <2>2. \A i \in 1 .. Len(s) : i \in 1 .. Len(s) + 1
    BY <1>1
  <2>3. Len(s) + 1 \in 1 .. Len(s) + 1
    BY <1>1
  <2> QED BY <2>1, <2>2, <2>3, <1>1 DEF Range
<1>3. ASSUME IsInjective(s), r \notin Range(s) PROVE IsInjective(Append(s, r))
  BY <1>1, <1>3 DEF IsInjective, Range
<1> QED BY <1>1, <1>2, <1>3

LEMMA RangeOf ==
    ASSUME NEW l \in Seq(Records)
    PROVE  Range(l) \subseteq Records
BY DEF Range

(* An id in front of a list that does not have it: nothing that is not cut *)
(* off goes missing.                                                       *)
LEMMA PushedOnto ==
    ASSUME NEW r \in Records, NEW list \in Seq(Records), IsInjective(list),
           r \notin Range(list)
    PROVE  /\ Pushed(r, list) \in Seq(Records)
           /\ IsInjective(Pushed(r, list))
           /\ Range(Pushed(r, list)) \subseteq Range(list) \cup {r}
           /\ Beyond(InFront(r, list)) \subseteq Records
           /\ Range(list) \cup {r} \subseteq
                 Range(Pushed(r, list)) \cup Beyond(InFront(r, list))
<1> DEFINE all == <<r>> \o list
<1>1. RemoveFirst(list, r) = list /\ InFront(r, list) = all
  <2>1. RemoveFirst(list, r) = list
    BY DEF RemoveFirst, Range
  <2> QED BY <2>1 DEF InFront
<1>2. /\ Len(list) \in Nat /\ DOMAIN list = 1 .. Len(list)
      /\ all \in Seq(Records) /\ Len(all) = Len(list) + 1
      /\ DOMAIN all = 1 .. Len(list) + 1
      /\ all[1] = r
      /\ \A i \in 2 .. Len(list) + 1 :
            /\ all[i] = list[i - 1]
            /\ i - 1 \in 1 .. Len(list)
  OBVIOUS
<1>3. IsInjective(all)
  BY <1>2 DEF IsInjective, Range
<1>4. Range(all) = Range(list) \cup {r}
  <2>1. \A i \in 1 .. Len(list) + 1 : i = 1 \/ i \in 2 .. Len(list) + 1
    BY <1>2
  <2>2. Range(all) \subseteq Range(list) \cup {r}
    BY <2>1, <1>2 DEF Range
  <2>3. \A i \in 1 .. Len(list) :
           /\ i + 1 \in 2 .. Len(list) + 1 /\ i + 1 \in DOMAIN all
           /\ all[i + 1] = list[i]
    BY <1>2
  <2>4. r \in Range(all)
    <3>1. 1 \in DOMAIN all
      BY <1>2
    <3> QED BY <3>1, <1>2 DEF Range
  <2>5. Range(list) \subseteq Range(all)
    <3> HIDE DEF all
    <3> QED BY <2>3, <1>2 DEF Range
  <2> QED BY <2>2, <2>4, <2>5
<1>5. CASE Len(all) > MaxHistory
  <2> DEFINE cut == SubSeq(all, 1, MaxHistory)
  <2>1. Pushed(r, list) = cut
    BY <1>1, <1>5 DEF Pushed
  <2>2. MaxHistory \in Nat /\ MaxHistory < Len(list) + 1
    BY <1>2, <1>5
  <2>3. /\ cut \in Seq(Records) /\ DOMAIN cut = 1 .. MaxHistory
        /\ \A i \in 1 .. MaxHistory : cut[i] = all[i] /\ i \in DOMAIN all
    BY <1>2, <2>2
  <2>4. IsInjective(cut) /\ Range(cut) \subseteq Range(all)
    BY <2>3, <1>3 DEF IsInjective, Range
  <2> HIDE DEF all, cut
  <2>5. \A i \in DOMAIN all :
           i \in 1 .. MaxHistory \/ i \in MaxHistory + 1 .. Len(all)
    BY <1>2, <2>2
  <2>6. Range(all) \subseteq Range(cut) \cup Beyond(all)
    BY <2>3, <2>5 DEF Range, Beyond
  <2>7. \A i \in MaxHistory + 1 .. Len(all) : i \in DOMAIN all
    BY <1>2, <2>2
  <2>8. Beyond(all) \subseteq Range(all)
    BY <2>7 DEF Range, Beyond
  <2> QED BY <2>1, <2>2, <2>3, <2>4, <2>6, <2>8, <1>1, <1>2, <1>4, RangeOf
<1>6. CASE ~(Len(all) > MaxHistory)
  <2>1. Pushed(r, list) = all
    BY <1>1, <1>6 DEF Pushed
  <2>2. MaxHistory + 1 .. Len(all) = {}
    BY <1>2, <1>6
  <2>3. Beyond(all) = {}
    BY <2>2 DEF Beyond
  <2> HIDE DEF all
  <2> QED BY <2>1, <2>3, <1>1, <1>2, <1>3, <1>4
<1> QED BY <1>5, <1>6

----------------------------------------------------------------------------
(* The inductive invariant.                                                *)

Active(s) == sender[s].pc # "idle"

(* Every list of ids that is stored or held.                               *)
Lists == {pending, cycle.todo, cycle.keep, cycle.claimed}
            \cup {sender[s].list : s \in Senders}

Somewhere(r) == \E l \in Lists : r \in Range(l)

(* No list has an id twice, or one that was not made, or one that a sender *)
(* has yet to list; what a scan has looked at is behind it.                *)
ListsOK ==
    /\ \A l \in Lists : IsInjective(l)
    /\ \A r \in Records : Somewhere(r) => r <= issued
    /\ \A s \in Senders : Active(s) =>
          sender[s].id <= issued /\ ~Somewhere(sender[s].id)
    /\ \A s, t \in Senders :
          Active(s) /\ Active(t) /\ sender[s].id = sender[t].id => s = t
    /\ Range(cycle.todo) \cap (Range(cycle.keep) \cup Range(cycle.claimed)) = {}

(* An id that was not made has no record.                                  *)
RecordsOK == \A r \in Records : r > issued => record[r].status = "none"

(* What the running cycle has claimed and not dispatched yet.              *)
Undispatched == IF cycle.pc = "answered" THEN Range(Tail(cycle.claimed))
                                         ELSE Range(cycle.claimed)

(* A delivery, made or about to be, is allowed by a claim on record or by  *)
(* a claim that Redis lost.                                                *)
DeliveryOK ==
    \A r \in Records :
        delivered[r] + (IF r \in Undispatched THEN 1 ELSE 0)
            <= (IF record[r].status \in {"none", "pending"} THEN 0 ELSE 1)
                  + faults

(* A good answer comes with a delivery.                                    *)
SentOK ==
    /\ SentWasDelivered
    /\ cycle.pc = "answered" /\ cycle.ok => delivered[Head(cycle.claimed)] > 0

(* A waiting id that nobody has in hand is wherever the next write of the *)
(* list, whoever makes it, takes it from.                                  *)
InAllLists(r) ==
    /\ r \in Range(pending)
    /\ \A s \in Senders : sender[s].pc = "read" => r \in Range(sender[s].list)
    /\ Scanning => r \in Range(cycle.todo) \cup Range(cycle.keep)

WithSender(r) == \E s \in Senders : Active(s) /\ sender[s].id = r

Waiting(r) == record[r].status = "pending"
                /\ (WithSender(r) \/ InHand(r) \/ InAllLists(r))

Accounted(r) ==
    \/ r \in atRisk
    \/ Waiting(r)
    \/ record[r].status = "processing" /\ InHand(r)
    \/ record[r].status \in {"sent", "failed"}

(* Every id is accounted for; an idle cycle has none in hand.              *)
KeptOK ==
    /\ cycle.pc = "idle" => cycle.claimed = <<>>
    /\ \A r \in 1 .. issued : Accounted(r)

IInv ==
    /\ TypeOK
    /\ ListsOK
    /\ RecordsOK
    /\ DeliveryOK
    /\ SentOK
    /\ KeptOK

----------------------------------------------------------------------------
(* Types.                                                                  *)

LEMMA Idles == IdleSender \in SenderState /\ IdleCycle \in CycleState
BY DEF IdleSender, IdleCycle, SenderState, CycleState

LEMMA TypeInit == Init => TypeOK
<1> SUFFICES ASSUME Init PROVE TypeOK
  OBVIOUS
<1>1. record \in [Records -> Record]
  BY DEF Init, NoRecord, Record, Statuses, AllDelays
<1>2. cycle.pc = "idle" /\ \A s \in Senders : sender[s].pc = "idle"
  BY DEF Init, IdleCycle, IdleSender
<1>3. sender \in [Senders -> SenderState] /\ cycle \in CycleState
  BY Idles DEF Init
<1>4. pending \in Seq(Records) /\ issued \in 0 .. MaxRecords
  BY DEF Init
<1>5. /\ delivered \in [Records -> Nat] /\ atRisk \subseteq Records
      /\ batchSize \in BatchSizes
  BY DEF Init
<1>6. faults \in 0 .. MaxFaults /\ crashes \in 0 .. MaxCrashes
  BY DEF Init
<1> QED BY <1>1, <1>2, <1>3, <1>4, <1>5, <1>6 DEF TypeOK

LEMMA SpentIsTyped ==
    ASSUME TypeOK, NEW lost \in BOOLEAN, Works(lost)
    PROVE  faults' \in 0 .. MaxFaults
BY DEF TypeOK, Works

(* What cutting and appending leaves of the lists of a cycle.              *)
LEMMA ScannedIsTyped ==
    ASSUME TypeOK, Scanning, cycle.todo # <<>>
    PROVE  /\ Head(cycle.todo) \in Records
           /\ Scanned(cycle) \in CycleState
           /\ Scanned(cycle) = [cycle EXCEPT !.todo = Tail(cycle.todo)]
           /\ [Scanned(cycle) EXCEPT !.keep = Append(@, Head(cycle.todo))]
                 \in CycleState
           /\ [Scanned(cycle) EXCEPT !.claimed = Append(@, Head(cycle.todo))]
                 \in CycleState
<1>1. /\ cycle \in CycleState /\ cycle.todo \in Seq(Records)
      /\ cycle.keep \in Seq(Records) /\ cycle.claimed \in Seq(Records)
  BY DEF TypeOK, CycleState
<1>2. Head(cycle.todo) \in Records /\ Tail(cycle.todo) \in Seq(Records)
  BY <1>1, TailOf
<1>3. /\ Append(cycle.keep, Head(cycle.todo)) \in Seq(Records)
      /\ Append(cycle.claimed, Head(cycle.todo)) \in Seq(Records)
  BY <1>1, <1>2, AppendTo
<1> QED BY <1>1, <1>2, <1>3 DEF Scanned, CycleState

LEMMA SenderSteps ==
    ASSUME TypeOK, NEW s \in Senders, NEW lost \in BOOLEAN
    PROVE  /\ \A delay \in Delays : StoreRecord(s, delay, lost) => TypeOK'
           /\ ReadList(s, lost) => TypeOK'
           /\ SenderThrows(s) => TypeOK'
<1>1. ASSUME NEW delay \in Delays, StoreRecord(s, delay, lost) PROVE TypeOK'
  <2>1. issued + 1 \in Records /\ issued' = issued + 1
    BY <1>1 DEF StoreRecord, TypeOK, Records
  <2>2. record' \in [Records -> Record]
    <3>1. Pending(delay) \in Record
      BY DEF Pending, Record, Statuses
    <3> QED BY <1>1, <2>1, <3>1 DEF StoreRecord, TypeOK
  <2>3. /\ sender' \in [Senders -> SenderState]
        /\ \A t \in Senders : sender'[t].pc # "idle" => sender'[t].id \in Records
    <3>1. [pc |-> "stored", id |-> issued + 1, list |-> <<>>] \in SenderState
      BY <2>1 DEF SenderState
    <3> QED BY <1>1, <2>1, <3>1 DEF StoreRecord, TypeOK
  <2>4. faults' \in 0 .. MaxFaults /\ atRisk' \subseteq Records
    BY <1>1, <2>1, SpentIsTyped DEF StoreRecord, Endangers, TypeOK
  <2> QED BY <1>1, <2>1, <2>2, <2>3, <2>4 DEF StoreRecord, TypeOK, Records
<1>2. ASSUME ReadList(s, lost) PROVE TypeOK'
  <2>1. faults' \in 0 .. MaxFaults /\ atRisk' \subseteq Records
    BY <1>2, SpentIsTyped, RangeOf DEF ReadList, Endangers, TypeOK
  <2>2. /\ sender' \in [Senders -> SenderState]
        /\ \A t \in Senders : sender'[t].pc # "idle" => sender'[t].id \in Records
    <3> DEFINE list == IF lost THEN <<>> ELSE pending
    <3>1. list \in Seq(Records)
      BY DEF TypeOK
    <3>2. sender' = [sender EXCEPT ![s].pc = "read", ![s].list = list]
      BY <1>2, Zenon DEF ReadList
    <3> HIDE DEF list
    <3>3. sender[s] \in SenderState /\ sender[s].id \in Records
      BY <1>2 DEF ReadList, TypeOK
    <3>4. sender'[s] \in SenderState /\ sender'[s].id \in Records
      BY <3>1, <3>2, <3>3 DEF SenderState, TypeOK
    <3>5. /\ DOMAIN sender' = Senders
          /\ \A t \in Senders \ {s} : sender'[t] = sender[t]
          /\ sender' = [t \in Senders |-> sender'[t]]
      BY <3>2 DEF TypeOK
    <3> QED BY <3>4, <3>5 DEF TypeOK
  <2> QED BY <1>2, <2>1, <2>2 DEF ReadList, TypeOK
<1>3. ASSUME SenderThrows(s) PROVE TypeOK'
  <2>1. /\ sender' \in [Senders -> SenderState]
        /\ \A t \in Senders : sender'[t].pc # "idle" => sender'[t].id \in Records
    BY <1>3, Idles DEF SenderThrows, TypeOK, IdleSender
  <2>2. atRisk' \subseteq Records
    BY <1>3 DEF SenderThrows, TypeOK, Endangers
  <2> QED BY <1>3, <2>1, <2>2 DEF SenderThrows, TypeOK
<1> QED BY <1>1, <1>2, <1>3

(* A write of the list needs to know what is on it.                        *)
LEMMA WriteIsTyped ==
    ASSUME TypeOK, ListsOK, NEW s \in Senders, NEW lost \in BOOLEAN,
           WriteList(s, lost)
    PROVE  TypeOK'
<1>1. sender[s].id \in Records /\ sender[s].list \in Seq(Records)
  BY DEF WriteList, TypeOK, SenderState
<1>2. IsInjective(sender[s].list) /\ sender[s].id \notin Range(sender[s].list)
  BY DEF WriteList, ListsOK, Lists, Active, Somewhere
<1>3. pending' \in Seq(Records) /\ atRisk' \subseteq Records
  <2>1. /\ Pushed(sender[s].id, sender[s].list) \in Seq(Records)
        /\ CutOrOverlapped(s) \subseteq Records
    BY <1>1, <1>2, PushedOnto DEF CutOrOverlapped
  <2> QED BY <1>1, <2>1 DEF WriteList, TypeOK, Endangers
<1>4. faults' \in 0 .. MaxFaults
  BY SpentIsTyped DEF WriteList
<1>5. /\ sender' \in [Senders -> SenderState]
      /\ \A t \in Senders : sender'[t].pc # "idle" => sender'[t].id \in Records
  BY Idles DEF WriteList, TypeOK, IdleSender
<1> QED BY <1>3, <1>4, <1>5 DEF WriteList, TypeOK

LEMMA ScanSteps ==
    ASSUME TypeOK, NEW lost \in BOOLEAN
    PROVE  /\ StartCycle => TypeOK'
           /\ ClaimRecord(lost) => TypeOK'
           /\ PassRecord => TypeOK'
           /\ MissRecord => TypeOK'
           /\ EndScan(lost) => TypeOK'
<1>1. ASSUME StartCycle PROVE TypeOK'
  <2>1. cycle' \in CycleState /\ cycle'.pc = "scanning"
    BY <1>1, Idles DEF StartCycle, TypeOK, CycleState, IdleCycle
  <2> QED BY <1>1, <2>1 DEF StartCycle, TypeOK
<1>2. ASSUME ClaimRecord(lost) PROVE TypeOK'
  <2>1. /\ cycle' \in CycleState /\ cycle'.pc = "scanning"
        /\ Head(cycle.todo) \in Records
    BY <1>2, ScannedIsTyped DEF ClaimRecord, Scanning, Scanned, TypeOK, CycleState
  <2>2. record' \in [Records -> Record]
    BY <1>2, <2>1 DEF ClaimRecord, TypeOK, Processing, Record, Statuses
  <2>3. faults' \in 0 .. MaxFaults
    BY <1>2, SpentIsTyped DEF ClaimRecord
  <2> QED BY <1>2, <2>1, <2>2, <2>3 DEF ClaimRecord, TypeOK
<1>3. ASSUME PassRecord PROVE TypeOK'
  <2>1. cycle' \in CycleState /\ cycle'.pc = "scanning"
    BY <1>3, ScannedIsTyped DEF PassRecord, Scanning, Scanned, TypeOK, CycleState
  <2> QED BY <1>3, <2>1 DEF PassRecord, TypeOK
<1>4. ASSUME MissRecord PROVE TypeOK'
  <2>1. cycle' \in CycleState /\ cycle'.pc = "scanning"
    BY <1>4, ScannedIsTyped DEF MissRecord, Scanning, Scanned, TypeOK, CycleState
  <2>2. faults' \in 0 .. MaxFaults /\ atRisk' \subseteq Records
    BY <1>4, SpentIsTyped, ScannedIsTyped DEF MissRecord, Endangers, TypeOK
  <2> QED BY <1>4, <2>1, <2>2 DEF MissRecord, TypeOK
<1>5. ASSUME EndScan(lost) PROVE TypeOK'
  <2>1. /\ cycle' \in CycleState
        /\ cycle'.pc \in {"dispatching", "answered"} => cycle'.claimed # <<>>
    BY <1>5, Idles DEF EndScan, Dispatching, TypeOK, CycleState, IdleCycle
  <2>2. pending' \in Seq(Records)
    BY <1>5 DEF EndScan, TypeOK, CycleState
  <2>3. faults' \in 0 .. MaxFaults
    BY <1>5, SpentIsTyped DEF EndScan
  <2> QED BY <1>5, <2>1, <2>2, <2>3 DEF EndScan, TypeOK
<1> QED BY <1>1, <1>2, <1>3, <1>4, <1>5

LEMMA NextClaimIsTyped ==
    ASSUME TypeOK, cycle.claimed # <<>>, cycle.pc = "answered"
    PROVE  /\ NextClaim(cycle) \in CycleState
           /\ NextClaim(cycle).pc \in {"idle", "dispatching"}
           /\ NextClaim(cycle).pc = "dispatching" =>
                 /\ NextClaim(cycle).claimed # <<>>
                 /\ NextClaim(cycle) = [cycle EXCEPT !.pc = "dispatching",
                                          !.claimed = Tail(@), !.ok = FALSE]
           /\ NextClaim(cycle).claimed = Tail(cycle.claimed)
<1>1. cycle.claimed \in Seq(Records) /\ Tail(cycle.claimed) \in Seq(Records)
  <2>1. cycle.claimed \in Seq(Records)
    BY DEF TypeOK, CycleState
  <2> QED BY <2>1, TailOf
<1> QED BY <1>1, Idles DEF TypeOK, CycleState, NextClaim, IdleCycle

LEMMA DispatchSteps ==
    ASSUME TypeOK, NEW lost \in BOOLEAN
    PROVE  /\ \A taken, ok \in BOOLEAN : Dispatch(taken, ok) => TypeOK'
           /\ Mark(lost) => TypeOK'
           /\ CycleThrows => TypeOK'
<1>1. ASSUME NEW taken \in BOOLEAN, NEW ok \in BOOLEAN, Dispatch(taken, ok)
      PROVE  TypeOK'
  <2>1. /\ cycle' \in CycleState /\ cycle'.claimed = cycle.claimed
        /\ cycle.claimed # <<>>
    BY <1>1 DEF Dispatch, TypeOK, CycleState
  <2>2. delivered' \in [Records -> Nat]
    <3>1. Head(cycle.claimed) \in Records
      BY <2>1, TailOf DEF TypeOK, CycleState
    <3> QED BY <1>1, <3>1 DEF Dispatch, TypeOK
  <2> QED BY <1>1, <2>1, <2>2 DEF Dispatch, TypeOK
<1>2. ASSUME Mark(lost) PROVE TypeOK'
  <2>1. cycle.claimed # <<>> /\ cycle.claimed \in Seq(Records)
    BY <1>2 DEF Mark, TypeOK, CycleState
  <2>2. record' \in [Records -> Record]
    <3>1. Head(cycle.claimed) \in Records /\ Outcome \in Statuses
      BY <2>1, TailOf DEF Outcome, Statuses
    <3> QED BY <1>2, <3>1 DEF Mark, TypeOK, Record
  <2>3. faults' \in 0 .. MaxFaults /\ atRisk' \subseteq Records
    BY <1>2, <2>1, TailOf, SpentIsTyped DEF Mark, Endangers, TypeOK
  <2> QED BY <1>2, <2>1, <2>2, <2>3, NextClaimIsTyped DEF Mark, TypeOK
<1>3. ASSUME CycleThrows PROVE TypeOK'
  <2>1. /\ cycle' \in CycleState
        /\ cycle'.pc \in {"dispatching", "answered"} => cycle'.claimed # <<>>
    BY <1>3, Idles DEF CycleThrows, TypeOK, CycleState, IdleCycle
  <2>2. atRisk' \subseteq Records
    <3>1. Range(cycle.claimed) \subseteq Records
      BY RangeOf DEF TypeOK, CycleState
    <3> QED BY <1>3, <3>1 DEF CycleThrows, TypeOK, Endangers
  <2> QED BY <1>3, <2>1, <2>2 DEF CycleThrows, TypeOK
<1> QED BY <1>1, <1>2, <1>3

LEMMA TimeSteps ==
    ASSUME TypeOK
    PROVE  /\ \A r \in Records : FallsDue(r) \/ Expires(r) => TypeOK'
           /\ Crash => TypeOK'
<1>1. ASSUME NEW r \in Records, FallsDue(r) PROVE TypeOK'
  BY <1>1 DEF FallsDue, TypeOK, Record
<1>2. ASSUME NEW r \in Records, Expires(r) PROVE TypeOK'
  <2>1. NoRecord \in Record
    BY DEF NoRecord, Record, Statuses, AllDelays
  <2> QED BY <1>2, <2>1 DEF Expires, TypeOK, Endangers
<1>3. ASSUME Crash PROVE TypeOK'
  <2>1. /\ sender' \in [Senders -> SenderState]
        /\ \A t \in Senders : sender'[t].pc = "idle"
    BY <1>3, Idles DEF Crash, IdleSender
  <2>2. cycle' \in CycleState /\ cycle'.pc = "idle"
    BY <1>3, Idles DEF Crash, IdleCycle
  <2>3. atRisk' \subseteq Records
    <3>1. Range(cycle.claimed) \subseteq Records
      BY RangeOf DEF TypeOK, CycleState
    <3> QED BY <1>3, <3>1 DEF Crash, TypeOK, Endangers
  <2> QED BY <1>3, <2>1, <2>2, <2>3 DEF Crash, TypeOK
<1> QED BY <1>1, <1>2, <1>3

LEMMA TypeStep == TypeOK /\ ListsOK /\ [Next]_vars => TypeOK'
<1> SUFFICES ASSUME TypeOK, ListsOK, [Next]_vars PROVE TypeOK'
  OBVIOUS
<1>1. CASE UNCHANGED vars
  BY <1>1 DEF vars, TypeOK
<1>2. CASE \E s \in Senders : \/ Send(s) \/ SenderThrows(s)
                             \/ \E delay \in Delays, lost \in BOOLEAN :
                                   StoreRecord(s, delay, lost)
  BY <1>2, SenderSteps, WriteIsTyped DEF Send
<1>3. CASE Cycle \/ CycleThrows
  BY <1>3, ScanSteps, DispatchSteps DEF Cycle
<1>4. CASE Crash \/ \E r \in Records : FallsDue(r) \/ Expires(r)
  BY <1>4, TimeSteps
<1> QED BY <1>1, <1>2, <1>3, <1>4 DEF Next

----------------------------------------------------------------------------
(* Lists.                                                                  *)

LEMMA Empty == IsInjective(<<>>) /\ Range(<<>>) = {}
BY DEF IsInjective, Range

LEMMA ListsAreTyped ==
    ASSUME TypeOK, NEW l \in Lists
    PROVE  l \in Seq(Records) /\ Range(l) \subseteq Records
<1>1. l \in Seq(Records)
  BY DEF TypeOK, Lists, SenderState, CycleState
<1> QED BY <1>1 DEF Range

LEMMA ListsInit == Init => ListsOK
<1> SUFFICES ASSUME Init PROVE ListsOK
  OBVIOUS
<1>1. \A l \in Lists : l = <<>>
  BY DEF Init, Lists, IdleSender, IdleCycle
<1>2. /\ cycle.todo = <<>> /\ cycle.keep = <<>> /\ cycle.claimed = <<>>
      /\ \A s \in Senders : ~Active(s)
  BY DEF Init, IdleCycle, IdleSender, Active
<1> QED BY <1>1, <1>2, Empty DEF ListsOK, Somewhere

(* A step after which the lists have no id they did not have before.       *)
LEMMA ListsShrink ==
    ASSUME ListsOK, issued' = issued,
           \A l \in Lists' : IsInjective(l),
           \A l \in Lists' : \A r \in Range(l) : Somewhere(r),
           \A s \in Senders :
              Active(s)' => Active(s) /\ sender'[s].id = sender[s].id,
           Range(cycle.todo') \cap (Range(cycle.keep') \cup Range(cycle.claimed')) = {}
    PROVE  ListsOK'
<1>1. \A r : Somewhere(r)' => Somewhere(r)
  BY DEF Somewhere
<1> QED BY <1>1 DEF ListsOK

(* A step that leaves every list, or empties it.                           *)
LEMMA ListsEmptied ==
    ASSUME ListsOK, issued' = issued,
           \A l \in Lists' : l \in Lists \/ l = <<>>,
           \A s \in Senders :
              Active(s)' => Active(s) /\ sender'[s].id = sender[s].id,
           cycle'.todo \in {cycle.todo, <<>>},
           cycle'.keep \in {cycle.keep, <<>>},
           cycle'.claimed \in {cycle.claimed, <<>>}
    PROVE  ListsOK'
<1>1. \A l \in Lists' : IsInjective(l)
  BY Empty DEF ListsOK
<1>2. \A l \in Lists' : \A r \in Range(l) : Somewhere(r)
  BY Empty DEF Somewhere
<1>3. Range(cycle'.todo) \cap (Range(cycle'.keep) \cup Range(cycle'.claimed)) = {}
  BY Empty DEF ListsOK
<1> QED BY <1>1, <1>2, <1>3, ListsShrink

LEMMA StoreLists ==
    ASSUME TypeOK, ListsOK, NEW s \in Senders, NEW delay \in Delays,
           NEW lost \in BOOLEAN, StoreRecord(s, delay, lost)
    PROVE  ListsOK'
<1>1. /\ issued' = issued + 1 /\ issued \in Nat /\ issued + 1 \in Records
      /\ sender'[s] = [pc |-> "stored", id |-> issued + 1, list |-> <<>>]
      /\ \A t \in Senders \ {s} : sender'[t] = sender[t]
      /\ UNCHANGED <<pending, cycle>>
  BY DEF StoreRecord, TypeOK, Records
<1>2. \A l \in Lists' : l \in Lists \/ l = <<>>
  BY <1>1 DEF Lists
<1>3. \A r : Somewhere(r)' => Somewhere(r)
  BY <1>2, Empty DEF Somewhere
<1>4. ~Somewhere(issued + 1)
  BY <1>1 DEF ListsOK
<1>5. \A t \in Senders : Active(t) => sender[t].id <= issued /\ sender[t].id \in Nat
  BY DEF ListsOK, TypeOK, Active, Records
<1>6. \A l \in Lists' : IsInjective(l)
  BY <1>2, Empty DEF ListsOK
<1>7. \A r \in Records : Somewhere(r)' => r <= issued'
  BY <1>1, <1>3 DEF ListsOK, Records
<1>8. \A t \in Senders : Active(t)' =>
         (sender[t].id <= issued /\ ~Somewhere(sender[t].id))'
  <2>1. \A t \in Senders : Active(t)' =>
           /\ sender'[t].id <= issued'
           /\ \A l \in Lists' : sender'[t].id \notin Range(l)
    <3>1. \A r : \A l \in Lists' : r \in Range(l) => Somewhere(r)
      BY <1>3 DEF Somewhere
    <3>2. \A t \in Senders : Active(t)' =>
             ~Somewhere(sender'[t].id) /\ sender'[t].id <= issued'
      BY <1>1, <1>4, <1>5 DEF ListsOK, Active
    <3> QED BY <3>1, <3>2
  <2> QED BY <2>1 DEF Somewhere
<1>9. \A t, u \in Senders :
         Active(t)' /\ Active(u)' /\ sender'[t].id = sender'[u].id => t = u
  BY <1>1, <1>5 DEF ListsOK, Active
<1> QED BY <1>1, <1>6, <1>7, <1>8, <1>9 DEF ListsOK

LEMMA ReadLists ==
    ASSUME TypeOK, ListsOK, NEW s \in Senders, NEW lost \in BOOLEAN,
           ReadList(s, lost)
    PROVE  ListsOK'
<1>1. /\ sender'[s].list \in {<<>>, pending} /\ sender'[s].id = sender[s].id
      /\ Active(s)
      /\ \A t \in Senders \ {s} : sender'[t] = sender[t]
      /\ UNCHANGED <<pending, cycle, issued>>
  BY DEF ReadList, TypeOK, SenderState, Active
<1>2. \A l \in Lists' : l \in Lists \/ l = <<>>
  BY <1>1 DEF Lists
<1>3. \A t \in Senders : Active(t)' => Active(t) /\ sender'[t].id = sender[t].id
  BY <1>1 DEF Active
<1> QED BY <1>1, <1>2, <1>3, ListsEmptied

LEMMA WriteLists ==
    ASSUME TypeOK, ListsOK, NEW s \in Senders, NEW lost \in BOOLEAN,
           WriteList(s, lost)
    PROVE  ListsOK'
<1>1. /\ sender'[s] = IdleSender /\ Active(s) /\ ~Active(s)'
      /\ \A t \in Senders \ {s} : sender'[t] = sender[t]
      /\ UNCHANGED <<cycle, issued>>
      /\ pending' \in {pending, Pushed(sender[s].id, sender[s].list)}
  BY DEF WriteList, TypeOK, Active, IdleSender
<1>2. \A t \in Senders : Active(t)' => Active(t) /\ t # s /\ sender'[t].id = sender[t].id
  BY <1>1 DEF Active
<1>3. CASE pending' = pending
  <2>1. \A l \in Lists' : l \in Lists \/ l = <<>>
    BY <1>1, <1>3 DEF Lists, IdleSender
  <2> QED BY <1>1, <1>2, <2>1, ListsEmptied
<1>4. CASE pending' = Pushed(sender[s].id, sender[s].list)
  <2>1. /\ sender[s].id \in Records /\ sender[s].list \in Seq(Records)
        /\ sender[s].list \in Lists
    BY <1>1 DEF TypeOK, SenderState, Active, Lists
  <2>2. IsInjective(sender[s].list) /\ sender[s].id \notin Range(sender[s].list)
    BY <1>1, <2>1 DEF ListsOK, Somewhere
  <2>3. /\ IsInjective(pending')
        /\ Range(pending') \subseteq Range(sender[s].list) \cup {sender[s].id}
    BY <1>4, <2>1, <2>2, PushedOnto
  <2>4. \A l \in Lists' : l \in Lists \/ l = <<>> \/ l = pending'
    BY <1>1 DEF Lists, IdleSender
  <2>5. \A r : Somewhere(r)' => Somewhere(r) \/ r = sender[s].id
    BY <2>1, <2>3, <2>4, Empty DEF Somewhere
  <2>6. \A l \in Lists' : IsInjective(l)
    BY <2>3, <2>4, Empty DEF ListsOK
  <2>7. \A r \in Records : Somewhere(r)' => r <= issued'
    BY <1>1, <2>5 DEF ListsOK
  <2>8. \A t \in Senders : Active(t)' =>
           (sender[t].id <= issued /\ ~Somewhere(sender[t].id))'
    <3>1. \A r : \A l \in Lists' :
             r \in Range(l) => Somewhere(r) \/ r = sender[s].id
      BY <2>5 DEF Somewhere
    <3>2. \A t \in Senders : Active(t)' =>
             /\ ~Somewhere(sender'[t].id) /\ sender'[t].id # sender[s].id
             /\ sender'[t].id <= issued'
      BY <1>1, <1>2 DEF ListsOK
    <3> QED BY <3>1, <3>2 DEF Somewhere
  <2> QED BY <1>1, <1>2, <2>6, <2>7, <2>8 DEF ListsOK
<1> QED BY <1>1, <1>3, <1>4

(* Steps of the cycle leave the senders and what was issued.               *)
LEMMA ScanLists ==
    ASSUME TypeOK, ListsOK, UNCHANGED <<sender, pending, issued>>,
           cycle.todo # <<>>, cycle'.todo = Tail(cycle.todo),
           \/ cycle'.keep = cycle.keep /\ cycle'.claimed = cycle.claimed
           \/ /\ cycle'.keep = Append(cycle.keep, Head(cycle.todo))
              /\ cycle'.claimed = cycle.claimed
           \/ /\ cycle'.keep = cycle.keep
              /\ cycle'.claimed = Append(cycle.claimed, Head(cycle.todo))
    PROVE  ListsOK'
<1> DEFINE h == Head(cycle.todo)
<1>1. /\ cycle.todo \in Seq(Records) /\ cycle.keep \in Seq(Records)
      /\ cycle.claimed \in Seq(Records)
      /\ {cycle.todo, cycle.keep, cycle.claimed} \subseteq Lists
  BY DEF TypeOK, CycleState, Lists
<1>2. /\ IsInjective(cycle.todo) /\ IsInjective(cycle.keep)
      /\ IsInjective(cycle.claimed)
      /\ Range(cycle.todo) \cap (Range(cycle.keep) \cup Range(cycle.claimed)) = {}
  BY <1>1 DEF ListsOK
<1>3. /\ h \in Records /\ IsInjective(cycle'.todo)
      /\ Range(cycle.todo) = {h} \cup Range(cycle'.todo)
      /\ h \notin Range(cycle'.todo)
  BY <1>1, <1>2, TailOf
<1>4. h \notin Range(cycle.keep) /\ h \notin Range(cycle.claimed)
  BY <1>2, <1>3
<1>5. /\ cycle'.keep # cycle.keep =>
            /\ IsInjective(cycle'.keep)
            /\ Range(cycle'.keep) = Range(cycle.keep) \cup {h}
      /\ cycle'.claimed # cycle.claimed =>
            /\ IsInjective(cycle'.claimed)
            /\ Range(cycle'.claimed) = Range(cycle.claimed) \cup {h}
  BY <1>1, <1>2, <1>3, <1>4, AppendTo
<1>6. \A l \in Lists' : l \in Lists \cup {cycle'.todo, cycle'.keep, cycle'.claimed}
  BY DEF Lists
<1>7. \A l \in Lists' : IsInjective(l)
  BY <1>2, <1>3, <1>5, <1>6 DEF ListsOK
<1>8. \A l \in Lists' : \A r \in Range(l) : Somewhere(r)
  BY <1>1, <1>3, <1>5, <1>6 DEF Somewhere
<1>9. Range(cycle'.todo) \cap (Range(cycle'.keep) \cup Range(cycle'.claimed)) = {}
  BY <1>2, <1>3, <1>5
<1> QED BY <1>7, <1>8, <1>9, ListsShrink DEF Active

LEMMA StartLists == TypeOK /\ ListsOK /\ StartCycle => ListsOK'
<1> SUFFICES ASSUME TypeOK, ListsOK, StartCycle PROVE ListsOK'
  OBVIOUS
<1>1. /\ cycle'.todo = pending /\ cycle'.keep = <<>> /\ cycle'.claimed = <<>>
      /\ UNCHANGED <<sender, pending, issued>>
  BY DEF StartCycle, IdleCycle
<1>2. \A l \in Lists' : l \in Lists \/ l = <<>>
  BY <1>1 DEF Lists
<1>3. \A l \in Lists' : IsInjective(l)
  BY <1>2, Empty DEF ListsOK
<1>4. \A l \in Lists' : \A r \in Range(l) : Somewhere(r)
  BY <1>2, Empty DEF Somewhere
<1>5. Range(cycle'.todo) \cap (Range(cycle'.keep) \cup Range(cycle'.claimed)) = {}
  BY <1>1, Empty
<1> QED BY <1>1, <1>3, <1>4, <1>5, ListsShrink DEF Active

LEMMA EndLists ==
    ASSUME TypeOK, ListsOK, NEW lost \in BOOLEAN, EndScan(lost)
    PROVE  ListsOK'
<1>1. /\ UNCHANGED <<sender, issued>>
      /\ pending' \in {pending, cycle.keep}
      /\ cycle'.todo = <<>> /\ cycle'.keep = <<>>
      /\ cycle'.claimed = cycle.claimed
  BY DEF EndScan, Dispatching, IdleCycle, TypeOK, CycleState
<1>2. \A l \in Lists' : l \in Lists \/ l = <<>>
  BY <1>1 DEF Lists
<1> QED BY <1>1, <1>2, ListsEmptied DEF Active

LEMMA MarkLists ==
    ASSUME TypeOK, ListsOK, NEW lost \in BOOLEAN, Mark(lost)
    PROVE  ListsOK'
<1>1. /\ cycle.claimed # <<>> /\ cycle.claimed \in Seq(Records)
      /\ cycle.claimed \in Lists
      /\ UNCHANGED <<sender, pending, issued>>
  BY DEF Mark, TypeOK, CycleState, Lists
<1>2. /\ cycle'.claimed = Tail(cycle.claimed)
      /\ cycle'.todo \in {cycle.todo, <<>>} /\ cycle'.keep \in {cycle.keep, <<>>}
  BY <1>1 DEF Mark, NextClaim, IdleCycle, TypeOK, CycleState
<1>3. /\ IsInjective(cycle'.claimed)
      /\ Range(cycle'.claimed) \subseteq Range(cycle.claimed)
  BY <1>1, <1>2, TailOf DEF ListsOK
<1>4. \A l \in Lists' : l \in Lists \/ l = <<>> \/ l = cycle'.claimed
  BY <1>1, <1>2 DEF Lists
<1>5. \A l \in Lists' : IsInjective(l)
  BY <1>3, <1>4, Empty DEF ListsOK
<1>6. \A l \in Lists' : \A r \in Range(l) : Somewhere(r)
  BY <1>1, <1>3, <1>4, Empty DEF Somewhere
<1>7. Range(cycle'.todo) \cap (Range(cycle'.keep) \cup Range(cycle'.claimed)) = {}
  BY <1>2, <1>3, Empty DEF ListsOK
<1> QED BY <1>1, <1>5, <1>6, <1>7, ListsShrink DEF Active

LEMMA ListsStep == TypeOK /\ ListsOK /\ [Next]_vars => ListsOK'
<1> SUFFICES ASSUME TypeOK, ListsOK, [Next]_vars PROVE ListsOK'
  OBVIOUS
<1>1. CASE UNCHANGED <<sender, cycle, pending, issued>>
  <2>1. \A l \in Lists' : l \in Lists
    BY <1>1 DEF Lists
  <2> QED BY <1>1, <2>1, ListsEmptied DEF Active
<1>2. CASE \E s \in Senders, lost \in BOOLEAN :
              \/ \E delay \in Delays : StoreRecord(s, delay, lost)
              \/ ReadList(s, lost) \/ WriteList(s, lost)
  BY <1>2, StoreLists, ReadLists, WriteLists
<1>3. ASSUME NEW s \in Senders, SenderThrows(s) PROVE ListsOK'
  <2>1. /\ sender'[s] = IdleSender /\ UNCHANGED <<cycle, pending, issued>>
        /\ \A t \in Senders \ {s} : sender'[t] = sender[t]
    BY <1>3 DEF SenderThrows, TypeOK
  <2>2. \A l \in Lists' : l \in Lists \/ l = <<>>
    BY <2>1 DEF Lists, IdleSender
  <2>3. \A t \in Senders : Active(t)' => Active(t) /\ sender'[t].id = sender[t].id
    BY <2>1 DEF Active, IdleSender
  <2> QED BY <2>1, <2>2, <2>3, ListsEmptied
<1>4. CASE StartCycle
  BY <1>4, StartLists
<1>5. CASE PassRecord \/ MissRecord \/ \E lost \in BOOLEAN : ClaimRecord(lost)
  <2>1. /\ UNCHANGED <<sender, pending, issued>> /\ cycle.todo # <<>>
        /\ \/ cycle' = Scanned(cycle)
           \/ cycle' = [Scanned(cycle) EXCEPT !.keep = Append(@, Head(cycle.todo))]
           \/ cycle' = [Scanned(cycle) EXCEPT !.claimed = Append(@, Head(cycle.todo))]
    BY <1>5 DEF PassRecord, MissRecord, ClaimRecord
  <2>2. cycle \in CycleState
    BY DEF TypeOK
  <2>3. /\ cycle'.todo = Tail(cycle.todo)
        /\ \/ cycle'.keep = cycle.keep /\ cycle'.claimed = cycle.claimed
           \/ /\ cycle'.keep = Append(cycle.keep, Head(cycle.todo))
              /\ cycle'.claimed = cycle.claimed
           \/ /\ cycle'.keep = cycle.keep
              /\ cycle'.claimed = Append(cycle.claimed, Head(cycle.todo))
    BY <2>1, <2>2 DEF Scanned, CycleState
  <2> QED BY <2>1, <2>3, ScanLists
<1>6. CASE \E lost \in BOOLEAN : EndScan(lost) \/ Mark(lost)
  BY <1>6, EndLists, MarkLists
<1>7. CASE CycleThrows \/ Crash \/ \E taken, ok \in BOOLEAN : Dispatch(taken, ok)
  <2>1. cycle \in CycleState
    BY DEF TypeOK
  <2>2. /\ UNCHANGED <<pending, issued>>
        /\ \/ sender' = sender
           \/ sender' = [s \in Senders |-> IdleSender]
        /\ cycle'.todo \in {cycle.todo, <<>>}
        /\ cycle'.keep \in {cycle.keep, <<>>}
        /\ cycle'.claimed \in {cycle.claimed, <<>>}
    <3>1. CASE CycleThrows
      BY <3>1, <2>1 DEF CycleThrows, IdleCycle, CycleState
    <3>2. CASE Crash
      BY <3>2 DEF Crash, IdleCycle
    <3>3. CASE \E taken, ok \in BOOLEAN : Dispatch(taken, ok)
      <4>1. PICK ok : cycle' = [cycle EXCEPT !.pc = "answered", !.ok = ok]
        BY <3>3 DEF Dispatch
      <4>2. UNCHANGED <<pending, issued, sender>>
        BY <3>3 DEF Dispatch
      <4> QED BY <4>1, <4>2, <2>1 DEF CycleState
    <3> QED BY <1>7, <3>1, <3>2, <3>3
  <2>3. \A l \in Lists' : l \in Lists \/ l = <<>>
    BY <2>2 DEF Lists, IdleSender
  <2>4. \A t \in Senders : Active(t)' => Active(t) /\ sender'[t].id = sender[t].id
    BY <2>2 DEF Active, IdleSender
  <2> QED BY <2>2, <2>3, <2>4, ListsEmptied
<1>8. CASE \E r \in Records : FallsDue(r) \/ Expires(r)
  BY <1>1, <1>8 DEF FallsDue, Expires
<1> QED
  BY <1>1, <1>2, <1>3, <1>4, <1>5, <1>6, <1>7, <1>8 DEF Next, vars, Send, Cycle

----------------------------------------------------------------------------
(* Records.                                                                *)

(* What steps do to a record: it is made once, claimed, marked, and given  *)
(* up by Redis while it waits.                                             *)
LEMMA RecordSteps ==
    ASSUME TypeOK, [Next]_vars, NEW r \in Records
    PROVE  \/ record'[r].status = record[r].status
           \/ r = issued + 1 /\ issued' = issued + 1 /\ record'[r].status = "pending"
           \/ record[r].status = "pending" /\ record'[r].status \in {"processing", "none"}
           \/ /\ \E lost \in BOOLEAN : Mark(lost)
              /\ r = Head(cycle.claimed)
              /\ record[r].status # "none"
              /\ record'[r].status = Outcome
<1>1. record \in [Records -> Record]
  BY DEF TypeOK
<1>2. CASE UNCHANGED record
  BY <1>2
<1>3. ASSUME NEW s \in Senders, NEW delay \in Delays, NEW lost \in BOOLEAN,
             StoreRecord(s, delay, lost)
      PROVE  \/ record'[r].status = record[r].status
             \/ r = issued + 1 /\ issued' = issued + 1 /\ record'[r].status = "pending"
  BY <1>1, <1>3 DEF StoreRecord, Pending
<1>4. ASSUME NEW lost \in BOOLEAN, ClaimRecord(lost)
      PROVE  \/ record'[r].status = record[r].status
             \/ record[r].status = "pending" /\ record'[r].status = "processing"
  BY <1>1, <1>4 DEF ClaimRecord, Claimable, Processing, Record
<1>5. ASSUME NEW lost \in BOOLEAN, Mark(lost)
      PROVE  \/ record'[r].status = record[r].status
             \/ /\ r = Head(cycle.claimed) /\ record[r].status # "none"
                /\ record'[r].status = Outcome
  BY <1>1, <1>5 DEF Mark, Record
<1>6. ASSUME NEW q \in Records, FallsDue(q)
      PROVE  record'[r].status = record[r].status
  BY <1>1, <1>6 DEF FallsDue, Record
<1>7. ASSUME NEW q \in Records, Expires(q)
      PROVE  \/ record'[r].status = record[r].status
             \/ record[r].status = "pending" /\ record'[r].status = "none"
  BY <1>1, <1>7 DEF Expires, NoRecord
<1>8. CASE \/ \E s \in Senders : Send(s) \/ SenderThrows(s)
           \/ StartCycle \/ PassRecord \/ MissRecord \/ CycleThrows \/ Crash
           \/ \E lost \in BOOLEAN : EndScan(lost)
           \/ \E taken, ok \in BOOLEAN : Dispatch(taken, ok)
  BY <1>2, <1>8 DEF Send, ReadList, WriteList, SenderThrows, StartCycle, PassRecord,
     MissRecord, CycleThrows, Crash, EndScan, Dispatch
<1>9. CASE UNCHANGED vars
  BY <1>2, <1>9 DEF vars
<1> QED BY <1>3, <1>4, <1>5, <1>6, <1>7, <1>8, <1>9 DEF Next, Cycle

LEMMA IssuedGrows ==
    ASSUME TypeOK, [Next]_vars
    PROVE  issued \in Nat /\ issued' \in {issued, issued + 1}
<1>1. issued \in Nat
  BY DEF TypeOK
<1>2. CASE UNCHANGED vars
  BY <1>1, <1>2 DEF vars
<1>3. CASE Next
  BY <1>1, <1>3 DEF Next, Send, Cycle, StoreRecord, ReadList, WriteList, SenderThrows,
     StartCycle, PassRecord, MissRecord, ClaimRecord, EndScan, Dispatch, Mark,
     CycleThrows, FallsDue, Expires, Crash
<1> QED BY <1>2, <1>3

LEMMA RecordsStep == TypeOK /\ RecordsOK /\ [Next]_vars => RecordsOK'
<1> SUFFICES ASSUME TypeOK, RecordsOK, [Next]_vars, NEW r \in Records, r > issued'
             PROVE  record'[r].status = "none"
  BY DEF RecordsOK
<1>1. record[r].status = "none"
  BY IssuedGrows DEF RecordsOK, Records
<1>2. ~(r = issued + 1 /\ issued' = issued + 1)
  BY IssuedGrows DEF Records
<1> QED BY <1>1, <1>2, RecordSteps

----------------------------------------------------------------------------
(* Deliveries.                                                             *)

Base(r) == IF record[r].status \in {"none", "pending"} THEN 0 ELSE 1

(* A step that delivers nothing and claims nothing new.                    *)
LEMMA NothingDelivered ==
    ASSUME TypeOK, TypeOK', DeliveryOK, delivered' = delivered, faults <= faults',
           Undispatched' \subseteq Undispatched,
           \A r \in Records : Base(r) <= Base(r)'
    PROVE  DeliveryOK'
<1> SUFFICES ASSUME NEW r \in Records
             PROVE  delivered[r] + (IF r \in Undispatched' THEN 1 ELSE 0)
                       <= Base(r)' + faults'
  BY DEF DeliveryOK, Base
<1>1. delivered[r] + (IF r \in Undispatched THEN 1 ELSE 0) <= Base(r) + faults
  BY DEF DeliveryOK, Base
<1>2. /\ delivered[r] \in Nat /\ faults \in Nat /\ faults' \in Nat
      /\ Base(r) \in Nat /\ Base(r)' \in Nat
  BY DEF TypeOK, Base
<1>3. Base(r) <= Base(r)'
  OBVIOUS
<1> QED BY <1>1, <1>2, <1>3

LEMMA ClaimDelivery ==
    ASSUME TypeOK, ListsOK, DeliveryOK, NEW lost \in BOOLEAN, ClaimRecord(lost),
           TypeOK'
    PROVE  DeliveryOK'
<1> DEFINE h == Head(cycle.todo)
<1>1. /\ h \in Records /\ cycle.todo \in Seq(Records) /\ cycle.todo # <<>>
      /\ cycle.claimed \in Seq(Records) /\ cycle.pc = "scanning"
      /\ Range(cycle.todo) = {h} \cup Range(Tail(cycle.todo))
  BY TailOf DEF ClaimRecord, Scanning, TypeOK, CycleState
<1>2. h \notin Range(cycle.claimed)
  BY <1>1 DEF ListsOK
<1>3. cycle'.claimed = Append(cycle.claimed, h) /\ cycle'.pc = "scanning"
  BY <1>1 DEF ClaimRecord, Scanned, TypeOK, CycleState
<1>4. Undispatched' = Undispatched \cup {h} /\ h \notin Undispatched
  BY <1>1, <1>2, <1>3, AppendTo DEF Undispatched
<1>5. /\ delivered' = delivered /\ record[h].status = "pending"
      /\ lost => record' = record /\ faults' = faults + 1
      /\ ~lost => faults' = faults /\ record'[h].status = "processing"
      /\ \A r \in Records \ {h} : record'[r] = record[r]
  BY <1>1 DEF ClaimRecord, Claimable, Works, TypeOK, Record, Processing
<1> SUFFICES ASSUME NEW r \in Records
             PROVE  delivered[r] + (IF r \in Undispatched' THEN 1 ELSE 0)
                       <= Base(r)' + faults'
  BY <1>5 DEF DeliveryOK, Base
<1>6. delivered[r] + (IF r \in Undispatched THEN 1 ELSE 0) <= Base(r) + faults
  BY DEF DeliveryOK, Base
<1>7. delivered[r] \in Nat /\ faults \in Nat /\ faults' \in Nat
  BY DEF TypeOK
<1>8. CASE r = h
  BY <1>4, <1>5, <1>6, <1>7, <1>8 DEF Base
<1>9. CASE r # h
  <2>1. (r \in Undispatched' <=> r \in Undispatched) /\ Base(r)' = Base(r)
    BY <1>4, <1>5, <1>9 DEF Base
  <2>2. faults <= faults' /\ Base(r) \in Nat
    BY <1>5, <1>7 DEF Base
  <2> HIDE DEF h
  <2> QED BY <1>6, <1>7, <2>1, <2>2
<1> QED BY <1>8, <1>9

LEMMA DispatchDelivery ==
    ASSUME TypeOK, ListsOK, DeliveryOK, NEW taken \in BOOLEAN, NEW ok \in BOOLEAN,
           Dispatch(taken, ok)
    PROVE  DeliveryOK'
<1> DEFINE h == Head(cycle.claimed)
<1>1. /\ cycle.claimed \in Seq(Records) /\ cycle.claimed # <<>>
      /\ cycle.claimed \in Lists
  BY DEF Dispatch, TypeOK, CycleState, Lists
<1>2. /\ h \in Records /\ h \notin Range(Tail(cycle.claimed))
      /\ Range(cycle.claimed) = {h} \cup Range(Tail(cycle.claimed))
  BY <1>1, TailOf DEF ListsOK
<1>3. cycle'.claimed = cycle.claimed /\ cycle'.pc = "answered"
      /\ cycle.pc = "dispatching"
  BY DEF Dispatch, TypeOK, CycleState
<1>4. Undispatched = {h} \cup Undispatched' /\ h \notin Undispatched'
  BY <1>2, <1>3 DEF Undispatched
<1>5. /\ record' = record /\ faults' = faults
      /\ delivered'[h] \in {delivered[h], delivered[h] + 1}
      /\ \A r \in Records \ {h} : delivered'[r] = delivered[r]
  BY <1>2 DEF Dispatch, TypeOK
<1> SUFFICES ASSUME NEW r \in Records
             PROVE  delivered'[r] + (IF r \in Undispatched' THEN 1 ELSE 0)
                       <= Base(r) + faults
  BY <1>5 DEF DeliveryOK, Base
<1>6. delivered[r] + (IF r \in Undispatched THEN 1 ELSE 0) <= Base(r) + faults
  BY DEF DeliveryOK, Base
<1>7. delivered[r] \in Nat /\ faults \in Nat /\ Base(r) \in Nat
  BY DEF TypeOK, Base
<1>8. CASE r = h
  BY <1>4, <1>5, <1>6, <1>7, <1>8
<1>9. CASE r # h
  BY <1>4, <1>5, <1>6, <1>7, <1>9
<1> QED BY <1>8, <1>9

LEMMA DeliveryInit == Init => DeliveryOK
BY Empty DEF Init, DeliveryOK, Undispatched, IdleCycle, NoRecord

LEMMA DeliveryStep ==
    TypeOK /\ ListsOK /\ RecordsOK /\ DeliveryOK /\ [Next]_vars /\ TypeOK'
        => DeliveryOK'
<1> SUFFICES ASSUME TypeOK, ListsOK, RecordsOK, DeliveryOK, [Next]_vars, TypeOK'
             PROVE  DeliveryOK'
  OBVIOUS
<1>1. cycle \in CycleState /\ faults \in Nat
  BY DEF TypeOK
<1>2. \A r \in Records : Base(r) <= Base(r)'
  <2> SUFFICES ASSUME NEW r \in Records,
                      record[r].status \notin {"none", "pending"}
               PROVE  record'[r].status \notin {"none", "pending"}
    BY DEF Base
  <2>1. r # issued + 1
    BY IssuedGrows DEF RecordsOK, Records
  <2> QED BY <2>1, RecordSteps DEF Outcome
<1>3. CASE /\ delivered' = delivered /\ faults <= faults'
           /\ Undispatched' \subseteq Undispatched
  BY <1>2, <1>3, NothingDelivered
<1>4. ASSUME NEW lost \in BOOLEAN, Works(lost) PROVE faults <= faults'
  BY <1>1, <1>4 DEF Works
<1>5. ASSUME UNCHANGED <<cycle, delivered>>, faults <= faults' PROVE DeliveryOK'
  BY <1>3, <1>5 DEF Undispatched
<1>6. ASSUME NEW s \in Senders, NEW lost \in BOOLEAN,
             \/ \E delay \in Delays : StoreRecord(s, delay, lost)
             \/ ReadList(s, lost) \/ WriteList(s, lost)
      PROVE  DeliveryOK'
  BY <1>4, <1>5, <1>6 DEF StoreRecord, ReadList, WriteList
<1>7. ASSUME NEW s \in Senders, SenderThrows(s) PROVE DeliveryOK'
  BY <1>1, <1>5, <1>7 DEF SenderThrows
<1>8. ASSUME NEW r \in Records, FallsDue(r) \/ Expires(r) PROVE DeliveryOK'
  BY <1>1, <1>5, <1>8 DEF FallsDue, Expires
<1>9. CASE StartCycle \/ Crash \/ CycleThrows
  <2>1. delivered' = delivered /\ faults <= faults'
    BY <1>1, <1>9 DEF StartCycle, Crash, CycleThrows
  <2>2. cycle'.claimed = <<>> \/ cycle' = [cycle EXCEPT !.ok = FALSE]
    <3>1. CASE StartCycle
      BY <3>1 DEF StartCycle, IdleCycle
    <3>2. CASE Crash
      BY <3>2 DEF Crash, IdleCycle
    <3>3. CASE CycleThrows
      <4>1. cycle' = IdleCycle \/ cycle' = [cycle EXCEPT !.ok = FALSE]
        BY <3>3 DEF CycleThrows
      <4> QED BY <4>1 DEF IdleCycle
    <3> QED BY <1>9, <3>1, <3>2, <3>3
  <2>3. CASE cycle' = [cycle EXCEPT !.ok = FALSE]
    BY <1>1, <1>3, <2>1, <2>3 DEF Undispatched, CycleState
  <2>4. CASE cycle'.claimed = <<>>
    <3>1. cycle'.pc # "answered"
      BY <2>4 DEF TypeOK
    <3> QED BY <1>3, <2>1, <2>4, <3>1, Empty DEF Undispatched
  <2> QED BY <2>2, <2>3, <2>4
<1>10. ASSUME NEW lost \in BOOLEAN,
              EndScan(lost) \/ PassRecord \/ MissRecord
       PROVE  DeliveryOK'
  <2>1. delivered' = delivered /\ faults <= faults'
    <3>1. CASE PassRecord
      BY <1>1, <3>1 DEF PassRecord
    <3>2. CASE EndScan(lost) \/ MissRecord
      <4>1. PICK l \in BOOLEAN : Works(l)
        BY <3>2 DEF EndScan, MissRecord
      <4> QED BY <1>4, <3>2, <4>1 DEF EndScan, MissRecord
    <3> QED BY <1>10, <3>1, <3>2
  <2>2. /\ cycle'.claimed = cycle.claimed
        /\ cycle.pc = "scanning" /\ cycle'.pc # "answered"
    <3>1. cycle.pc = "scanning"
      BY <1>10 DEF EndScan, PassRecord, MissRecord, Scanning
    <3>2. CASE PassRecord \/ MissRecord
      <4>1. \/ cycle' = Scanned(cycle)
            \/ cycle' = [Scanned(cycle) EXCEPT !.keep = Append(@, Head(cycle.todo))]
        BY <3>2 DEF PassRecord, MissRecord
      <4> QED BY <1>1, <3>1, <4>1 DEF Scanned, CycleState
    <3>3. CASE EndScan(lost)
      <4>1. \/ cycle' = IdleCycle /\ cycle.claimed = <<>>
            \/ cycle' = [cycle EXCEPT !.pc = "dispatching", !.keep = <<>>]
        BY <3>3 DEF EndScan, Dispatching
      <4>2. CASE cycle' = IdleCycle /\ cycle.claimed = <<>>
        BY <3>1, <4>2 DEF IdleCycle
      <4>3. CASE cycle' = [cycle EXCEPT !.pc = "dispatching", !.keep = <<>>]
        BY <1>1, <3>1, <4>3 DEF CycleState
      <4> QED BY <4>1, <4>2, <4>3
    <3> QED BY <1>10, <3>1, <3>2, <3>3
  <2> QED BY <1>3, <2>1, <2>2 DEF Undispatched
<1>11. ASSUME NEW lost \in BOOLEAN, Mark(lost) PROVE DeliveryOK'
  <2>1. delivered' = delivered /\ faults <= faults'
    BY <1>4, <1>11 DEF Mark
  <2>2. cycle.pc = "answered" /\ cycle.claimed # <<>> /\ cycle' = NextClaim(cycle)
    BY <1>11 DEF Mark, TypeOK
  <2>3. cycle'.claimed = Tail(cycle.claimed) /\ cycle'.pc # "answered"
    BY <2>2, NextClaimIsTyped
  <2> QED BY <1>3, <2>1, <2>2, <2>3 DEF Undispatched
<1>12. CASE UNCHANGED vars
  BY <1>1, <1>5, <1>12 DEF vars
<1> QED
  BY <1>6, <1>7, <1>8, <1>9, <1>10, <1>11, <1>12, ClaimDelivery, DispatchDelivery
     DEF Next, Send, Cycle

----------------------------------------------------------------------------
(* What is marked sent was delivered.                                      *)

LEMMA SentInit == Init => SentOK
BY DEF Init, SentOK, SentWasDelivered, NoRecord, IdleCycle

(* Steps that neither dispatch nor mark.                                   *)
LEMMA SentStays ==
    ASSUME TypeOK, SentOK, [Next]_vars, delivered' = delivered,
           ~(\E lost \in BOOLEAN : Mark(lost)),
           cycle'.pc = "answered" /\ cycle'.ok =>
              cycle.pc = "answered" /\ cycle.ok /\ cycle'.claimed = cycle.claimed
    PROVE  SentOK'
<1>1. ASSUME NEW r \in Records, record'[r].status = "sent"
      PROVE  record[r].status = "sent"
  BY <1>1, RecordSteps
<1> QED BY <1>1 DEF SentOK, SentWasDelivered

LEMMA SentStep == TypeOK /\ SentOK /\ [Next]_vars => SentOK'
<1> SUFFICES ASSUME TypeOK, SentOK, [Next]_vars PROVE SentOK'
  OBVIOUS
<1>1. cycle \in CycleState /\ delivered \in [Records -> Nat]
  BY DEF TypeOK
<1>2. ASSUME NEW taken \in BOOLEAN, NEW ok \in BOOLEAN, Dispatch(taken, ok)
      PROVE  SentOK'
  <2>1. /\ cycle'.claimed = cycle.claimed /\ cycle'.ok = ok
        /\ Head(cycle.claimed) \in Records /\ record' = record
    <3>1. cycle.claimed \in Seq(Records) /\ cycle.claimed # <<>>
      BY <1>2 DEF Dispatch, TypeOK, CycleState
    <3> QED BY <1>1, <1>2, <3>1, TailOf DEF Dispatch, CycleState
  <2>2. /\ \A r \in Records : delivered'[r] >= delivered[r] /\ delivered[r] \in Nat
        /\ ok => delivered'[Head(cycle.claimed)] = delivered[Head(cycle.claimed)] + 1
    BY <1>1, <1>2, <2>1 DEF Dispatch
  <2>3. \A r \in Records : delivered[r] > 0 => delivered'[r] > 0
    <3>1. \A r \in Records : delivered'[r] \in Nat
      BY <1>1, <1>2, <2>1 DEF Dispatch
    <3> QED BY <2>2, <3>1
  <2>4. SentWasDelivered'
    BY <2>1, <2>3 DEF SentOK, SentWasDelivered
  <2> QED BY <2>1, <2>2, <2>4 DEF SentOK
<1>3. ASSUME NEW lost \in BOOLEAN, Mark(lost) PROVE SentOK'
  <2>1. delivered' = delivered /\ cycle.pc = "answered" /\ cycle.claimed # <<>>
    BY <1>3 DEF Mark, TypeOK
  <2>2. cycle'.pc # "answered"
    BY <1>3, <2>1, NextClaimIsTyped DEF Mark
  <2>3. ASSUME NEW r \in Records, record'[r].status = "sent"
        PROVE  delivered[r] > 0
    <3>1. \/ record[r].status = "sent"
          \/ r = Head(cycle.claimed) /\ Outcome = "sent"
      <4>1. \/ record'[r].status = record[r].status
            \/ record'[r].status \in {"pending", "processing", "none"}
            \/ r = Head(cycle.claimed) /\ record'[r].status = Outcome
        BY RecordSteps
      <4> QED BY <2>3, <4>1
    <3>2. Outcome = "sent" => cycle.ok
      BY DEF Outcome
    <3> QED BY <2>1, <3>1, <3>2 DEF SentOK, SentWasDelivered
  <2> QED BY <2>1, <2>2, <2>3 DEF SentOK, SentWasDelivered
<1>4. CASE ~(\E lost \in BOOLEAN : Mark(lost))
              /\ ~(\E taken, ok \in BOOLEAN : Dispatch(taken, ok))
  <2>1. delivered' = delivered
    BY <1>4 DEF Next, vars, Send, Cycle, StoreRecord, ReadList, WriteList, SenderThrows,
       StartCycle, PassRecord, MissRecord, ClaimRecord, EndScan, CycleThrows,
       FallsDue, Expires, Crash
  <2>2. \/ cycle' = cycle
        \/ cycle'.pc \in {"idle", "scanning", "dispatching"}
        \/ cycle' = [cycle EXCEPT !.ok = FALSE]
    <3>1. CASE Cycle
      <4>1. CASE StartCycle
        BY <4>1 DEF StartCycle, IdleCycle
      <4>2. CASE PassRecord \/ MissRecord \/ \E lost \in BOOLEAN : ClaimRecord(lost)
        <5>1. /\ cycle.pc = "scanning"
              /\ \/ cycle' = Scanned(cycle)
                 \/ \E k : cycle' = [Scanned(cycle) EXCEPT !.keep = k]
                 \/ \E k : cycle' = [Scanned(cycle) EXCEPT !.claimed = k]
          BY <4>2, <1>1 DEF PassRecord, MissRecord, ClaimRecord, Scanning
        <5> QED BY <1>1, <5>1 DEF Scanned, CycleState
      <4>3. CASE \E lost \in BOOLEAN : EndScan(lost)
        <5>1. \/ cycle' = IdleCycle
              \/ cycle' = [cycle EXCEPT !.pc = "dispatching", !.keep = <<>>]
          BY <4>3 DEF EndScan, Dispatching
        <5>2. CASE cycle' = IdleCycle
          BY <5>2 DEF IdleCycle
        <5>3. CASE cycle' = [cycle EXCEPT !.pc = "dispatching", !.keep = <<>>]
          BY <1>1, <5>3 DEF CycleState
        <5> QED BY <5>1, <5>2, <5>3
      <4> QED BY <1>4, <3>1, <4>1, <4>2, <4>3 DEF Cycle
    <3>2. CASE CycleThrows \/ Crash
      <4>1. cycle' = IdleCycle \/ cycle' = [cycle EXCEPT !.ok = FALSE]
        BY <3>2 DEF CycleThrows, Crash
      <4> QED BY <4>1 DEF IdleCycle
    <3>3. CASE UNCHANGED cycle
      BY <3>3
    <3> QED BY <3>1, <3>2, <3>3 DEF Next, vars, Send, StoreRecord, ReadList, WriteList,
        SenderThrows, FallsDue, Expires
  <2>3. cycle'.pc = "answered" /\ cycle'.ok =>
           cycle.pc = "answered" /\ cycle.ok /\ cycle'.claimed = cycle.claimed
    BY <1>1, <2>2 DEF CycleState
  <2> QED BY <1>4, <2>1, <2>3, SentStays
<1> QED BY <1>2, <1>3, <1>4

----------------------------------------------------------------------------
(* Nothing is lost.                                                        *)

LEMMA KeptInit == Init => KeptOK
<1> SUFFICES ASSUME Init PROVE KeptOK
  OBVIOUS
<1>1. 1 .. issued = {} /\ cycle.claimed = <<>>
  BY DEF Init, IdleCycle
<1> QED BY <1>1 DEF KeptOK

LEMMA RiskGrows == [Next]_vars => atRisk \subseteq atRisk'
BY DEF Next, vars, Send, Cycle, StoreRecord, ReadList, WriteList, SenderThrows,
   StartCycle, PassRecord, MissRecord, ClaimRecord, EndScan, Dispatch, Mark,
   CycleThrows, FallsDue, Expires, Crash, Endangers

(* What a step has to show of an id that it puts at no risk and whose      *)
(* status it leaves alone.                                                 *)
LEMMA Carries ==
    ASSUME NEW r, Accounted(r), atRisk \subseteq atRisk', r \notin atRisk',
           record'[r].status = record[r].status,
           InHand(r) => InHand(r)',
           WithSender(r) \/ InAllLists(r) =>
              WithSender(r)' \/ InHand(r)' \/ InAllLists(r)'
    PROVE  Accounted(r)'
<1>1. r \notin atRisk
  OBVIOUS
<1>2. CASE Waiting(r)
  BY <1>2 DEF Accounted, Waiting
<1> QED BY <1>1, <1>2 DEF Accounted

LEMMA StoreKept ==
    ASSUME TypeOK, KeptOK, [Next]_vars, NEW s \in Senders, NEW delay \in Delays,
           NEW lost \in BOOLEAN, StoreRecord(s, delay, lost)
    PROVE  KeptOK'
<1>1. /\ issued \in Nat /\ issued' = issued + 1 /\ issued + 1 \in Records
      /\ UNCHANGED <<pending, cycle>> /\ ~Active(s)
      /\ sender'[s] = [pc |-> "stored", id |-> issued + 1, list |-> <<>>]
      /\ \A t \in Senders \ {s} : sender'[t] = sender[t]
  BY DEF StoreRecord, TypeOK, Records, Active
<1>2. ASSUME NEW r \in 1 .. issued', r \notin atRisk' PROVE Accounted(r)'
  <2>1. CASE r = issued + 1
    <3>1. ~lost
      BY <1>2, <2>1 DEF StoreRecord, Endangers
    <3>2. record'[r].status = "pending"
      BY <1>1, <2>1, <3>1 DEF StoreRecord, TypeOK, Pending
    <3>3. WithSender(r)'
      BY <1>1, <2>1 DEF WithSender, Active
    <3> QED BY <3>2, <3>3 DEF Accounted, Waiting
  <2>2. CASE r # issued + 1
    <3>1. r \in 1 .. issued /\ record'[r] = record[r]
      BY <1>1, <2>2 DEF StoreRecord, TypeOK
    <3>2. WithSender(r) => WithSender(r)'
      BY <1>1 DEF WithSender, Active
    <3>3. InAllLists(r) => InAllLists(r)'
      BY <1>1 DEF InAllLists, Scanning
    <3> QED BY <1>1, <1>2, <3>1, <3>2, <3>3, Carries, RiskGrows DEF KeptOK, InHand
  <2> QED BY <2>1, <2>2
<1> QED BY <1>1, <1>2 DEF KeptOK, Accounted

(* A list that is read has every id that is in all lists.                  *)
LEMMA ReadKept ==
    ASSUME TypeOK, KeptOK, [Next]_vars, NEW s \in Senders, NEW lost \in BOOLEAN,
           ReadList(s, lost)
    PROVE  KeptOK'
<1>1. /\ UNCHANGED <<pending, cycle, record, issued>> /\ Active(s)
      /\ sender'[s].pc = "read" /\ sender'[s].id = sender[s].id
      /\ sender'[s].list = IF lost THEN <<>> ELSE pending
      /\ \A t \in Senders \ {s} : sender'[t] = sender[t]
  BY DEF ReadList, TypeOK, SenderState, Active
<1>2. ASSUME NEW r \in 1 .. issued, r \notin atRisk' PROVE Accounted(r)'
  <2>1. WithSender(r) => WithSender(r)'
    BY <1>1 DEF WithSender, Active
  <2>2. InAllLists(r) => InAllLists(r)'
    <3>1. CASE lost
      BY <1>2, <3>1 DEF ReadList, Endangers, InAllLists
    <3>2. CASE ~lost
      BY <1>1, <3>2 DEF InAllLists, Scanning
    <3> QED BY <3>1, <3>2
  <2> QED BY <1>1, <1>2, <2>1, <2>2, Carries, RiskGrows DEF KeptOK, InHand
<1> QED BY <1>1, <1>2 DEF KeptOK, Accounted

(* What is written has every id that is in all lists, but for what is cut  *)
(* off; the id it adds is in all lists if no other change is under way.    *)
LEMMA WriteKept ==
    ASSUME TypeOK, ListsOK, KeptOK, [Next]_vars, NEW s \in Senders,
           NEW lost \in BOOLEAN, WriteList(s, lost)
    PROVE  KeptOK'
<1> DEFINE id == sender[s].id
           list == sender[s].list
<1>1. /\ UNCHANGED <<cycle, record, issued>> /\ Active(s) /\ sender[s].pc = "read"
      /\ sender'[s] = IdleSender
      /\ \A t \in Senders \ {s} : sender'[t] = sender[t]
      /\ pending' = IF lost THEN pending ELSE Pushed(id, list)
  BY DEF WriteList, TypeOK, Active
<1>2. id \in Records /\ list \in Seq(Records) /\ list \in Lists
  BY <1>1 DEF TypeOK, SenderState, Lists
<1>3. IsInjective(list) /\ id \notin Range(list)
  BY <1>1, <1>2 DEF ListsOK, Somewhere
<1>4. Range(list) \cup {id} \subseteq
         Range(Pushed(id, list)) \cup Beyond(InFront(id, list))
  BY <1>2, <1>3, PushedOnto
<1>5. ASSUME NEW r \in 1 .. issued, r \notin atRisk' PROVE Accounted(r)'
  <2>1. /\ lost => r # id
        /\ ~lost => r \notin Beyond(InFront(id, list))
        /\ ~lost /\ r = id => Changing = {s} /\ ~Scanning
    BY <1>5 DEF WriteList, Endangers, CutOrOverlapped
  <2>2. InAllLists(r) => InAllLists(r)'
    <3> SUFFICES ASSUME InAllLists(r) PROVE InAllLists(r)'
      OBVIOUS
    <3>1. r \in Range(pending')
      <4>1. CASE lost
        BY <1>1, <4>1 DEF InAllLists
      <4>2. CASE ~lost
        <5>1. r \in Range(list)
          BY <1>1 DEF InAllLists
        <5> QED BY <1>1, <1>4, <2>1, <4>2, <5>1
      <4> QED BY <4>1, <4>2
    <3>2. ASSUME NEW t \in Senders, sender'[t].pc = "read"
          PROVE  r \in Range(sender'[t].list)
      <4>1. t # s
        BY <1>1, <3>2 DEF IdleSender
      <4> QED BY <1>1, <3>2, <4>1 DEF InAllLists
    <3> QED BY <1>1, <3>1, <3>2 DEF InAllLists, Scanning
  <2>3. WithSender(r) => WithSender(r)' \/ InAllLists(r)'
    <3>1. CASE r = id
      <4>1. ~lost /\ ~Scanning /\ r \in Range(pending')
        BY <1>1, <1>4, <2>1, <3>1
      <4>2. \A t \in Senders : sender'[t].pc # "read"
        BY <1>1, <2>1, <3>1, <4>1 DEF Changing, IdleSender
      <4> QED BY <1>1, <4>1, <4>2 DEF InAllLists, Scanning
    <3>2. CASE r # id
      BY <1>1, <3>2 DEF WithSender, Active
    <3> QED BY <3>1, <3>2
  <2> QED BY <1>1, <1>5, <2>2, <2>3, Carries, RiskGrows DEF KeptOK, InHand
<1> QED BY <1>1, <1>5 DEF KeptOK, Accounted

(* A sender or the cycle that gives up leaves the lists as they are, and   *)
(* what it had in hand is at risk.                                         *)
LEMMA ThrowsKept ==
    ASSUME TypeOK, KeptOK, [Next]_vars,
           CycleThrows \/ (\E s \in Senders : SenderThrows(s)) \/ Crash
    PROVE  KeptOK'
<1>1. UNCHANGED <<record, pending, issued>>
  BY DEF CycleThrows, SenderThrows, Crash
<1>2. cycle'.pc = "idle" => cycle'.claimed = <<>>
  <2>1. cycle' \in {cycle, IdleCycle} \/ cycle'.pc = "answered"
    <3>1. CASE CycleThrows
      BY <3>1 DEF CycleThrows, TypeOK, CycleState
    <3>2. CASE ~CycleThrows
      BY <3>2 DEF SenderThrows, Crash
    <3> QED BY <3>1, <3>2
  <2> QED BY <2>1 DEF KeptOK, IdleCycle
<1>3. Scanning' => cycle' = cycle
  <2>1. CASE CycleThrows
    <3>1. cycle'.pc # "scanning"
      BY <2>1 DEF CycleThrows, IdleCycle, TypeOK, CycleState
    <3> QED BY <3>1 DEF Scanning
  <2>2. CASE Crash
    <3>1. cycle'.pc # "scanning"
      BY <2>2 DEF Crash, IdleCycle
    <3> QED BY <3>1 DEF Scanning
  <2>3. CASE \E s \in Senders : SenderThrows(s)
    BY <2>3 DEF SenderThrows
  <2> QED BY <2>1, <2>2, <2>3
<1>4. ASSUME NEW t \in Senders, sender'[t].pc = "read" PROVE sender'[t] = sender[t]
  <2>1. ASSUME NEW s \in Senders, SenderThrows(s) PROVE sender'[t] = sender[t]
    <3>1. sender'[s].pc = "idle"
      BY <2>1 DEF SenderThrows, IdleSender, TypeOK
    <3> QED BY <1>4, <2>1, <3>1 DEF SenderThrows, TypeOK
  <2>2. ~Crash
    BY <1>4 DEF Crash, IdleSender
  <2> QED BY <2>1, <2>2 DEF CycleThrows
<1>5. ASSUME NEW r \in 1 .. issued, r \notin atRisk' PROVE Accounted(r)'
  <2>1. r \in Records
    BY DEF TypeOK, Records
  <2>2. InHand(r) => InHand(r)'
    <3>1. CASE CycleThrows
      BY <1>5, <3>1 DEF CycleThrows, Endangers, InHand, TypeOK, CycleState
    <3>2. CASE Crash
      BY <1>5, <3>2 DEF Crash, Endangers, InHand
    <3>3. CASE UNCHANGED cycle
      BY <3>3 DEF InHand
    <3> QED BY <3>1, <3>2, <3>3 DEF SenderThrows
  <2>3. WithSender(r) => WithSender(r)'
    <3> SUFFICES ASSUME NEW t \in Senders, Active(t), sender[t].id = r
                 PROVE  WithSender(r)'
      BY DEF WithSender
    <3>1. ~Crash
      BY <1>5, <2>1 DEF Crash, Endangers, BySender
    <3>2. CASE CycleThrows
      BY <3>2 DEF CycleThrows, WithSender, Active
    <3>3. ASSUME NEW s \in Senders, SenderThrows(s) PROVE WithSender(r)'
      <4>1. s # t
        BY <1>5, <3>3 DEF SenderThrows, Endangers
      <4> QED BY <3>3, <4>1 DEF SenderThrows, WithSender, Active, TypeOK
    <3> QED BY <3>1, <3>2, <3>3
  <2>4. InAllLists(r) => InAllLists(r)'
    BY <1>1, <1>3, <1>4 DEF InAllLists, Scanning
  <2> QED BY <1>1, <1>5, <2>2, <2>3, <2>4, Carries, RiskGrows DEF KeptOK
<1> QED BY <1>1, <1>2, <1>5 DEF KeptOK, Accounted

LEMMA StartKept ==
    ASSUME TypeOK, KeptOK, [Next]_vars, StartCycle
    PROVE  KeptOK'
<1>1. /\ UNCHANGED <<pending, sender, record, issued>> /\ cycle.pc = "idle"
      /\ cycle'.pc = "scanning" /\ cycle'.todo = pending
      /\ cycle.claimed = <<>>
  BY DEF StartCycle, IdleCycle, KeptOK
<1>2. ASSUME NEW r \in 1 .. issued, r \notin atRisk' PROVE Accounted(r)'
  <2>1. WithSender(r) => WithSender(r)'
    BY <1>1 DEF WithSender, Active
  <2>2. InAllLists(r) => InAllLists(r)'
    BY <1>1 DEF InAllLists
  <2>3. ~InHand(r)
    BY <1>1, Empty DEF InHand
  <2> QED BY <1>1, <1>2, <2>1, <2>2, <2>3, Carries, RiskGrows DEF KeptOK
<1> QED BY <1>1, <1>2 DEF KeptOK, Accounted

(* A scan moves the ids it looks at behind it, or into its hand.           *)
LEMMA ScanKept ==
    ASSUME TypeOK, KeptOK, [Next]_vars, NEW lost \in BOOLEAN,
           PassRecord \/ MissRecord \/ ClaimRecord(lost)
    PROVE  KeptOK'
<1> DEFINE h == Head(cycle.todo)
<1>1. /\ cycle \in CycleState /\ cycle.todo \in Seq(Records) /\ cycle.todo # <<>>
      /\ cycle.keep \in Seq(Records) /\ cycle.claimed \in Seq(Records) /\ Scanning
      /\ UNCHANGED <<pending, sender, issued>>
  BY DEF PassRecord, MissRecord, ClaimRecord, TypeOK, CycleState
<1>2. /\ h \in Records /\ Range(cycle.todo) = {h} \cup Range(Tail(cycle.todo))
      /\ Range(Append(cycle.keep, h)) = Range(cycle.keep) \cup {h}
      /\ Range(Append(cycle.claimed, h)) = Range(cycle.claimed) \cup {h}
  BY <1>1, TailOf, AppendTo
<1>3. /\ cycle'.pc = "scanning" /\ cycle'.todo = Tail(cycle.todo)
      /\ cycle'.keep = IF PassRecord /\ StaysListed(h)
                       THEN Append(cycle.keep, h) ELSE cycle.keep
      /\ cycle'.claimed = IF ClaimRecord(lost) /\ ~PassRecord /\ ~MissRecord
                          THEN Append(cycle.claimed, h) ELSE cycle.claimed
  <2>1. CASE PassRecord
    BY <1>1, <2>1 DEF PassRecord, Scanned, CycleState, Scanning
  <2>2. CASE MissRecord /\ ~PassRecord
    BY <1>1, <2>2 DEF MissRecord, Scanned, CycleState, Scanning
  <2>3. CASE ClaimRecord(lost) /\ ~PassRecord /\ ~MissRecord
    BY <1>1, <2>3 DEF ClaimRecord, Scanned, CycleState, Scanning
  <2> QED BY <2>1, <2>2, <2>3
<1>4. \A r \in Records : InHand(r) => InHand(r)'
  BY <1>2, <1>3 DEF InHand
<1>5. ASSUME NEW r \in 1 .. issued, r \notin atRisk' PROVE Accounted(r)'
  <2>1. r \in Records /\ Accounted(r) /\ atRisk \subseteq atRisk'
    BY RiskGrows DEF TypeOK, Records, KeptOK
  <2>2. WithSender(r) => WithSender(r)'
    BY <1>1 DEF WithSender, Active
  <2>3. CASE r # h
    <3>1. record'[r] = record[r]
      BY <1>2, <2>1, <2>3 DEF PassRecord, MissRecord, ClaimRecord, TypeOK
    <3>2. InAllLists(r) => InAllLists(r)'
      BY <1>1, <1>2, <1>3, <2>3 DEF InAllLists, Scanning
    <3> QED BY <1>4, <1>5, <2>1, <2>2, <3>1, <3>2, Carries
  <2>4. CASE r = h /\ ClaimRecord(lost) /\ ~PassRecord /\ ~MissRecord
    <3>1. InHand(r)'
      BY <1>2, <1>3, <2>4 DEF InHand
    <3>2. record'[r].status \in {"pending", "processing"}
      BY <1>2, <2>4 DEF ClaimRecord, Claimable, Processing, TypeOK, Record
    <3> QED BY <3>1, <3>2 DEF Accounted, Waiting
  <2>5. CASE r = h /\ PassRecord
    <3>1. record'[r] = record[r]
      BY <2>5 DEF PassRecord
    <3>2. CASE StaysListed(r)
      <4>1. InAllLists(r) => InAllLists(r)'
        BY <1>1, <1>2, <1>3, <2>5, <3>2 DEF InAllLists, Scanning
      <4> QED BY <1>4, <1>5, <2>1, <2>2, <3>1, <4>1, Carries
    <3>3. CASE ~StaysListed(r)
      BY <1>5, <2>1, <3>1, <3>3 DEF StaysListed, Accounted, Waiting
    <3> QED BY <3>2, <3>3
  <2>6. ~(r = h /\ MissRecord)
    BY <1>5 DEF MissRecord, Endangers
  <2> QED BY <2>3, <2>4, <2>5, <2>6
<1> QED BY <1>1, <1>3, <1>5 DEF KeptOK, Accounted

(* What the cycle writes back has every id that is in all lists.           *)
LEMMA EndKept ==
    ASSUME TypeOK, KeptOK, [Next]_vars, NEW lost \in BOOLEAN, EndScan(lost)
    PROVE  KeptOK'
<1>1. /\ UNCHANGED <<sender, record, issued>> /\ Scanning /\ cycle.todo = <<>>
      /\ pending' = IF lost THEN pending ELSE cycle.keep
      /\ cycle' = Dispatching(cycle) /\ cycle \in CycleState
  BY DEF EndScan, TypeOK
<1>2. /\ ~Scanning' /\ cycle'.claimed = cycle.claimed
      /\ cycle'.pc = "idle" => cycle'.claimed = <<>>
  <2>1. CASE cycle.claimed = <<>>
    BY <1>1, <2>1 DEF Dispatching, IdleCycle, Scanning
  <2>2. CASE cycle.claimed # <<>>
    <3>1. cycle' = [cycle EXCEPT !.pc = "dispatching", !.keep = <<>>]
      BY <1>1, <2>2 DEF Dispatching
    <3> QED BY <1>1, <3>1 DEF CycleState, Scanning
  <2> QED BY <2>1, <2>2
<1>3. ASSUME NEW r \in 1 .. issued, r \notin atRisk' PROVE Accounted(r)'
  <2>1. WithSender(r) => WithSender(r)'
    BY <1>1 DEF WithSender, Active
  <2>2. InAllLists(r) => InAllLists(r)'
    <3> SUFFICES ASSUME InAllLists(r) PROVE InAllLists(r)'
      OBVIOUS
    <3>1. r \in Range(pending) /\ r \in Range(cycle.keep)
      BY <1>1, Empty DEF InAllLists
    <3>2. r \in Range(pending')
      BY <1>1, <3>1
    <3> QED BY <1>1, <1>2, <3>2 DEF InAllLists
  <2> QED BY <1>1, <1>2, <1>3, <2>1, <2>2, Carries, RiskGrows DEF KeptOK, InHand
<1> QED BY <1>1, <1>2, <1>3 DEF KeptOK, Accounted

(* What is marked has ended, or is at risk.                                *)
LEMMA MarkKept ==
    ASSUME TypeOK, KeptOK, [Next]_vars, NEW lost \in BOOLEAN, Mark(lost)
    PROVE  KeptOK'
<1>1. /\ UNCHANGED <<sender, pending, issued>> /\ cycle.pc = "answered"
      /\ cycle.claimed # <<>> /\ cycle.claimed \in Seq(Records)
      /\ cycle' = NextClaim(cycle)
  BY DEF Mark, TypeOK, CycleState
<1>2. /\ cycle'.claimed = Tail(cycle.claimed) /\ cycle'.pc \in {"idle", "dispatching"}
      /\ cycle'.pc = "idle" => cycle'.claimed = <<>>
  <2>1. cycle'.pc = "idle" => cycle' = IdleCycle
    BY <1>1 DEF NextClaim, TypeOK, CycleState
  <2> QED BY <1>1, <2>1, NextClaimIsTyped DEF IdleCycle
<1>3. /\ Head(cycle.claimed) \in Records
      /\ Range(cycle.claimed) = {Head(cycle.claimed)} \cup Range(cycle'.claimed)
  BY <1>1, <1>2, TailOf
<1>4. ASSUME NEW r \in 1 .. issued, r \notin atRisk' PROVE Accounted(r)'
  <2>1. r \in Records /\ Accounted(r) /\ atRisk \subseteq atRisk'
    BY RiskGrows DEF TypeOK, Records, KeptOK
  <2>2. CASE r = Head(cycle.claimed)
    <3>1. ~lost
      BY <1>4, <2>2 DEF Mark, Endangers
    <3>2. record[r].status # "none"
      BY <1>4, <2>1 DEF Accounted, Waiting
    <3>3. record'[r].status \in {"sent", "failed"}
      BY <1>3, <2>2, <3>1, <3>2 DEF Mark, Outcome, TypeOK, Record
    <3> QED BY <3>3 DEF Accounted
  <2>3. CASE r # Head(cycle.claimed)
    <3>1. record'[r] = record[r]
      BY <1>3, <2>1, <2>3 DEF Mark, TypeOK
    <3>2. InHand(r) => InHand(r)'
      BY <1>3, <2>3 DEF InHand
    <3>3. WithSender(r) => WithSender(r)'
      BY <1>1 DEF WithSender, Active
    <3>4. InAllLists(r) => InAllLists(r)'
      BY <1>1, <1>2 DEF InAllLists, Scanning
    <3> QED BY <1>4, <2>1, <3>1, <3>2, <3>3, <3>4, Carries
  <2> QED BY <2>2, <2>3
<1> QED BY <1>1, <1>2, <1>4 DEF KeptOK, Accounted

LEMMA QuietKept ==
    ASSUME TypeOK, KeptOK, [Next]_vars,
           \/ \E taken, ok \in BOOLEAN : Dispatch(taken, ok)
           \/ \E q \in Records : FallsDue(q) \/ Expires(q)
           \/ UNCHANGED vars
    PROVE  KeptOK'
<1>1. /\ UNCHANGED <<sender, pending, issued>> /\ cycle'.claimed = cycle.claimed
      /\ cycle'.todo = cycle.todo /\ cycle'.keep = cycle.keep
      /\ cycle'.pc = cycle.pc \/ cycle'.pc = "answered"
  BY DEF Dispatch, FallsDue, Expires, vars, TypeOK, CycleState
<1>2. ASSUME NEW r \in 1 .. issued, r \notin atRisk' PROVE Accounted(r)'
  <2>1. r \in Records
    BY DEF TypeOK, Records
  <2>2. record'[r].status = record[r].status
    <3>1. ASSUME NEW q \in Records, FallsDue(q) PROVE record'[r].status = record[r].status
      BY <2>1, <3>1 DEF FallsDue, TypeOK, Record
    <3>2. ASSUME NEW q \in Records, Expires(q) PROVE record'[r].status = record[r].status
      <4>1. q # r
        BY <1>2, <3>2 DEF Expires, Endangers
      <4> QED BY <2>1, <3>2, <4>1 DEF Expires, TypeOK
    <3>3. CASE UNCHANGED record
      BY <3>3
    <3> QED BY <3>1, <3>2, <3>3 DEF Dispatch, vars
  <2>3. /\ WithSender(r) => WithSender(r)'
        /\ InAllLists(r) => InAllLists(r)'
        /\ InHand(r) => InHand(r)'
    BY <1>1 DEF WithSender, Active, InAllLists, Scanning, InHand
  <2> QED BY <1>1, <1>2, <2>2, <2>3, Carries, RiskGrows DEF KeptOK
<1> QED BY <1>1, <1>2 DEF KeptOK, Accounted

LEMMA KeptStep == TypeOK /\ ListsOK /\ KeptOK /\ [Next]_vars => KeptOK'
<1> SUFFICES ASSUME TypeOK, ListsOK, KeptOK, [Next]_vars PROVE KeptOK'
  OBVIOUS
<1>1. CASE \E s \in Senders : \/ Send(s)
                             \/ \E delay \in Delays, lost \in BOOLEAN :
                                   StoreRecord(s, delay, lost)
  BY <1>1, StoreKept, ReadKept, WriteKept DEF Send
<1>2. CASE Cycle
  <2>1. CASE StartCycle
    BY <2>1, StartKept
  <2>2. CASE PassRecord \/ MissRecord \/ \E lost \in BOOLEAN : ClaimRecord(lost)
    BY <2>2, ScanKept
  <2>3. CASE \E lost \in BOOLEAN : EndScan(lost) \/ Mark(lost)
    BY <2>3, EndKept, MarkKept
  <2>4. CASE \E taken, ok \in BOOLEAN : Dispatch(taken, ok)
    BY <2>4, QuietKept
  <2> QED BY <1>2, <2>1, <2>2, <2>3, <2>4 DEF Cycle
<1>3. CASE CycleThrows \/ (\E s \in Senders : SenderThrows(s)) \/ Crash
  BY <1>3, ThrowsKept
<1>4. CASE UNCHANGED vars \/ \E q \in Records : FallsDue(q) \/ Expires(q)
  BY <1>4, QuietKept
<1> QED BY <1>1, <1>2, <1>3, <1>4 DEF Next

----------------------------------------------------------------------------
(* The theorems.                                                           *)

(* The invariant holds in every reachable state: where every id is, and    *)
(* what its deliveries and marks rest on (persistence.ts, notifications.ts *)
(* of the automation service).                                             *)
THEOREM Inductive == Spec => []IInv
<1>1. Init => IInv
  <2>1. Init => RecordsOK
    BY DEF Init, RecordsOK, NoRecord
  <2> QED BY <2>1, TypeInit, ListsInit, DeliveryInit, SentInit, KeptInit DEF IInv
<1>2. IInv /\ [Next]_vars => IInv'
  BY TypeStep, ListsStep, RecordsStep, DeliveryStep, SentStep, KeptStep DEF IInv
<1> QED BY <1>1, <1>2, PTL DEF Spec

(* Records, lists, senders and the cycle keep their form.                  *)
THEOREM TypeCorrect == Spec => []TypeOK
<1>1. IInv => TypeOK
  BY DEF IInv
<1> QED BY <1>1, Inductive, PTL

(* A notification is delivered once, and again only for a Redis call that  *)
(* failed, however claims, list changes and restarts interleave.           *)
THEOREM OneDelivery == Spec => []DeliveredOnce
<1>1. IInv => DeliveredOnce
  <2> SUFFICES ASSUME IInv, NEW r \in Records PROVE delivered[r] <= 1 + faults
    BY DEF DeliveredOnce
  <2>1. delivered[r] + (IF r \in Undispatched THEN 1 ELSE 0) <= Base(r) + faults
    BY DEF IInv, DeliveryOK, Base
  <2>2. delivered[r] \in Nat /\ faults \in Nat /\ Base(r) \in {0, 1}
    BY DEF IInv, TypeOK, Base
  <2> QED BY <2>1, <2>2
<1> QED BY <1>1, Inductive, PTL

(* The mark "sent" of flushDueScheduled is never false.                    *)
THEOREM SentDelivered == Spec => []SentWasDelivered
<1>1. IInv => SentWasDelivered
  BY DEF IInv, SentOK
<1> QED BY <1>1, Inductive, PTL

(* No notification that no accident was about is lost: it waits on a list  *)
(* or in somebody's hand, is being dispatched, or has ended                *)
(* (persistence.ts and index.ts of the automation service), whatever the   *)
(* batch size, the limit of the list and the number of senders.            *)
THEOREM NoneLost == Spec => []NothingIsLost
<1>1. IInv => NothingIsLost
  <2> SUFFICES ASSUME IInv, NEW r \in 1 .. issued, r \notin atRisk
               PROVE  \/ record[r].status = "pending" /\ (Listed(r) \/ InHand(r))
                      \/ record[r].status = "processing" /\ InHand(r)
                      \/ record[r].status \in {"sent", "failed"}
    BY DEF NothingIsLost
  <2>1. WithSender(r) \/ InAllLists(r) => Listed(r)
    BY DEF WithSender, InAllLists, Listed, BySender
  <2> QED BY <2>1 DEF IInv, KeptOK, Accounted, Waiting
<1> QED BY <1>1, Inductive, PTL

----------------------------------------------------------------------------
(* The scheduler implements Delivery.                                      *)

(* A claimed notification has its record, which is due and so is kept.     *)
ClaimedOK ==
    \A r \in Range(cycle.claimed) : record[r].status # "none" /\ record[r].due

(* A record that is due is never given up.                                 *)
LEMMA DueStays ==
    ASSUME TypeOK, RecordsOK, [Next]_vars, NEW r \in Records,
           record[r].status # "none", record[r].due
    PROVE  record'[r].status # "none" /\ record'[r].due
<1>1. record \in [Records -> Record]
  BY DEF TypeOK
<1>2. CASE UNCHANGED record
  BY <1>2
<1>3. ASSUME NEW s \in Senders, NEW delay \in Delays, NEW lost \in BOOLEAN,
             StoreRecord(s, delay, lost)
      PROVE  record'[r] = record[r]
  <2>1. r # issued + 1
    BY IssuedGrows DEF RecordsOK
  <2> QED BY <1>1, <1>3, <2>1 DEF StoreRecord
<1>4. ASSUME NEW lost \in BOOLEAN, ClaimRecord(lost)
      PROVE  record'[r].status # "none" /\ record'[r].due
  BY <1>1, <1>4 DEF ClaimRecord, Processing, Record
<1>5. ASSUME NEW lost \in BOOLEAN, Mark(lost)
      PROVE  record'[r].status # "none" /\ record'[r].due
  BY <1>1, <1>5 DEF Mark, Record, Outcome
<1>6. ASSUME NEW q \in Records, FallsDue(q)
      PROVE  record'[r].status # "none" /\ record'[r].due
  BY <1>1, <1>6 DEF FallsDue, Record
<1>7. ASSUME NEW q \in Records, Expires(q)
      PROVE  record'[r] = record[r]
  BY <1>1, <1>7 DEF Expires
<1>8. CASE \/ \E s \in Senders : Send(s) \/ SenderThrows(s)
           \/ StartCycle \/ PassRecord \/ MissRecord \/ CycleThrows \/ Crash
           \/ \E lost \in BOOLEAN : EndScan(lost)
           \/ \E taken, ok \in BOOLEAN : Dispatch(taken, ok)
  BY <1>2, <1>8 DEF Send, ReadList, WriteList, SenderThrows, StartCycle, PassRecord,
     MissRecord, CycleThrows, Crash, EndScan, Dispatch
<1>9. CASE UNCHANGED vars
  BY <1>2, <1>9 DEF vars
<1> QED BY <1>3, <1>4, <1>5, <1>6, <1>7, <1>8, <1>9 DEF Next, Cycle

(* A cycle's claims grow only by a claim.                                  *)
LEMMA ClaimsShrink ==
    ASSUME TypeOK, [Next]_vars, ~(\E lost \in BOOLEAN : ClaimRecord(lost))
    PROVE  Range(cycle'.claimed) \subseteq Range(cycle.claimed)
<1>1. cycle \in CycleState
  BY DEF TypeOK
<1>2. CASE cycle'.claimed \in {cycle.claimed, <<>>}
  BY <1>2, Empty
<1>3. CASE UNCHANGED cycle
  BY <1>2, <1>3
<1>4. CASE StartCycle \/ Crash \/ CycleThrows
  <2>1. \/ cycle' = IdleCycle
        \/ cycle' = [IdleCycle EXCEPT !.pc = "scanning", !.todo = pending]
        \/ cycle' = [cycle EXCEPT !.ok = FALSE]
    BY <1>4 DEF StartCycle, Crash, CycleThrows
  <2>2. /\ IdleCycle.claimed = <<>>
        /\ [IdleCycle EXCEPT !.pc = "scanning", !.todo = pending].claimed = <<>>
    BY DEF IdleCycle
  <2>3. [cycle EXCEPT !.ok = FALSE].claimed = cycle.claimed
    BY <1>1 DEF CycleState
  <2> QED BY <1>2, <2>1, <2>2, <2>3
<1>5. CASE PassRecord \/ MissRecord
  <2>1. \/ cycle' = Scanned(cycle)
        \/ cycle' = [Scanned(cycle) EXCEPT !.keep = Append(@, Head(cycle.todo))]
    BY <1>5 DEF PassRecord, MissRecord
  <2> QED BY <1>1, <1>2, <2>1 DEF Scanned, CycleState
<1>6. CASE \E lost \in BOOLEAN : EndScan(lost)
  <2>1. \/ cycle' = IdleCycle
        \/ cycle' = [cycle EXCEPT !.pc = "dispatching", !.keep = <<>>]
    BY <1>6 DEF EndScan, Dispatching
  <2>2. IdleCycle.claimed = <<>>
    BY DEF IdleCycle
  <2>3. [cycle EXCEPT !.pc = "dispatching", !.keep = <<>>].claimed = cycle.claimed
    BY <1>1 DEF CycleState
  <2> QED BY <1>2, <2>1, <2>2, <2>3
<1>7. CASE \E taken, ok \in BOOLEAN : Dispatch(taken, ok)
  <2>1. PICK ok : cycle' = [cycle EXCEPT !.pc = "answered", !.ok = ok]
    BY <1>7 DEF Dispatch
  <2> QED BY <1>1, <1>2, <2>1 DEF CycleState
<1>8. CASE \E lost \in BOOLEAN : Mark(lost)
  <2>1. /\ cycle.claimed \in Seq(Records) /\ cycle.claimed # <<>>
        /\ cycle'.claimed = Tail(cycle.claimed)
    BY <1>1, <1>8, NextClaimIsTyped DEF Mark, TypeOK, CycleState
  <2> QED BY <2>1, TailOf
<1> QED BY <1>3, <1>4, <1>5, <1>6, <1>7, <1>8 DEF Next, vars, Cycle, Send,
       StoreRecord, ReadList, WriteList, SenderThrows, FallsDue, Expires

LEMMA ClaimedStep ==
    TypeOK /\ RecordsOK /\ ClaimedOK /\ [Next]_vars => ClaimedOK'
<1> SUFFICES ASSUME TypeOK, RecordsOK, ClaimedOK, [Next]_vars,
                    NEW r \in Range(cycle'.claimed)
             PROVE  record'[r].status # "none" /\ record'[r].due
  BY DEF ClaimedOK
<1>1. cycle.claimed \in Seq(Records) /\ Range(cycle.claimed) \subseteq Records
  BY ListsAreTyped DEF TypeOK, CycleState, Lists
<1>2. CASE r \in Range(cycle.claimed)
  BY <1>1, <1>2, DueStays DEF ClaimedOK
<1>3. CASE r \notin Range(cycle.claimed)
  <2>1. PICK lost \in BOOLEAN : ClaimRecord(lost)
    BY <1>3, ClaimsShrink
  <2>2. /\ Head(cycle.todo) \in Records
        /\ cycle'.claimed = Append(cycle.claimed, Head(cycle.todo))
    BY <2>1, TailOf DEF ClaimRecord, Scanned, TypeOK, CycleState
  <2>3. r = Head(cycle.todo)
    BY <1>1, <1>3, <2>2, AppendTo
  <2>4. record[r].status # "none" /\ record[r].due
    BY <2>1, <2>3 DEF ClaimRecord, Claimable
  <2> QED BY <2>2, <2>3, <2>4, DueStays
<1> QED BY <1>2, <1>3

LEMMA ClaimedInit == Init => ClaimedOK
BY Empty DEF Init, ClaimedOK, IdleCycle

(* What an observer of the promise sees of the scheduler.                  *)
Seen == <<StatusOf, delivered, faults>>

LEMMA SameStatus ==
    ASSUME \A r \in Records : record'[r].status = record[r].status
    PROVE  StatusOf' = StatusOf
BY DEF StatusOf

(* A record that waits, and one that ended.                                *)
LEMMA Shows ==
    ASSUME TypeOK, NEW r \in Records
    PROVE  /\ StatusOf[r] = "NONE" <=> record[r].status = "none"
           /\ record[r].status = "pending" => StatusOf[r] = "QUEUED"
           /\ record[r].status = "processing" => StatusOf[r] = "QUEUED"
           /\ record[r].status = "sent" => StatusOf[r] = "SENT"
           /\ record[r].status = "failed" => StatusOf[r] = "FAILED"
<1>1. record[r].status \in Statuses
  BY DEF TypeOK, Record
<1> QED BY <1>1 DEF StatusOf, Statuses

(* A step on one record changes one status.                                *)
LEMMA OneStatus ==
    ASSUME NEW r \in Records, NEW s, StatusOf'[r] = s,
           \A q \in Records \ {r} : record'[q] = record[q]
    PROVE  StatusOf' = [StatusOf EXCEPT ![r] = s]
<1>1. /\ StatusOf = [q \in Records |-> StatusOf[q]]
      /\ StatusOf' = [q \in Records |-> StatusOf'[q]]
  BY DEF StatusOf
<1>2. \A q \in Records \ {r} : StatusOf'[q] = StatusOf[q]
  BY DEF StatusOf
<1> QED BY <1>1, <1>2

(* The first claim of a cycle that has answers to get or to record.        *)
LEMMA FirstClaim ==
    ASSUME IInv, ClaimedOK, cycle.pc \in {"dispatching", "answered"}
    PROVE  /\ Head(cycle.claimed) \in Range(cycle.claimed)
           /\ Head(cycle.claimed) \in Records
           /\ record[Head(cycle.claimed)].status # "none"
<1>1. cycle.claimed \in Seq(Records) /\ cycle.claimed # <<>>
  BY DEF IInv, TypeOK, CycleState
<1> QED BY <1>1, TailOf DEF ClaimedOK

(* A dispatch delivers, within what the calls that failed allow, or is not *)
(* seen.                                                                   *)
LEMMA DispatchPromised ==
    ASSUME IInv, ClaimedOK, NEW taken \in BOOLEAN, NEW ok \in BOOLEAN,
           Dispatch(taken, ok)
    PROVE  Promised!Next \/ UNCHANGED Seen
<1> DEFINE h == Head(cycle.claimed)
<1>1. h \in Range(cycle.claimed) /\ h \in Records /\ record[h].status # "none"
  BY FirstClaim DEF Dispatch
<1>2. record' = record /\ faults' = faults /\ StatusOf' = StatusOf
  BY SameStatus DEF Dispatch
<1>3. CASE taken
  <2>1. h \in Undispatched
    BY <1>1 DEF Dispatch, Undispatched
  <2>2. delivered[h] + 1 <= Base(h) + faults
    BY <1>1, <2>1 DEF IInv, DeliveryOK, Base
  <2>3. delivered[h] \in Nat /\ faults \in Nat /\ Base(h) \in {0, 1}
    BY <1>1 DEF IInv, TypeOK, Base
  <2>4. delivered[h] < 1 * (0 + 1) + faults
    BY <2>2, <2>3
  <2>5. StatusOf[h] # "NONE"
    BY <1>1, Shows DEF IInv
  <2>6. delivered' = [delivered EXCEPT ![h] = @ + 1]
    BY <1>3 DEF Dispatch
  <2>7. Promised!Deliver(h)
    BY <1>2, <2>4, <2>5, <2>6 DEF Promised!Deliver, Promised!Accepted
  <2> QED BY <1>1, <2>7 DEF Promised!Next
<1>4. CASE ~taken
  BY <1>2, <1>4 DEF Dispatch, Seen
<1> QED BY <1>3, <1>4

(* A mark concludes, for a reason when it says sent.                       *)
LEMMA MarkPromised ==
    ASSUME IInv, IInv', ClaimedOK, Mark(FALSE)
    PROVE  Promised!Next
<1> DEFINE h == Head(cycle.claimed)
<1>1. h \in Records /\ record[h].status # "none"
  BY FirstClaim DEF Mark
<1>2. record' = [record EXCEPT ![h].status = Outcome]
  BY <1>1 DEF Mark
<1>3. /\ record'[h].status = Outcome
      /\ \A q \in Records \ {h} : record'[q] = record[q]
  BY <1>1, <1>2 DEF IInv, TypeOK, Record
<1>4. UNCHANGED <<delivered, faults>>
  BY DEF Mark, Works
<1>5. StatusOf[h] # "NONE"
  BY <1>1, Shows DEF IInv
<1>6. StatusOf' = [StatusOf EXCEPT ![h] = IF cycle.ok THEN "SENT" ELSE "FAILED"]
  <2>1. StatusOf'[h] = IF cycle.ok THEN "SENT" ELSE "FAILED"
    BY <1>1, <1>3 DEF Outcome, StatusOf
  <2> QED BY <1>1, <1>3, <2>1, OneStatus
<1>7. cycle.ok => delivered[h] > 0
  BY DEF IInv, SentOK, Mark
<1>8. Promised!Conclude(h, IF cycle.ok THEN "SENT" ELSE "FAILED")
  BY <1>4, <1>5, <1>6, <1>7
     DEF Promised!Conclude, Promised!Accepted, Promised!Reached
<1> QED BY <1>1, <1>8 DEF Promised!Next

(* A call that Redis failed is seen as no more than that.                  *)
LEMMA FaultPromised ==
    ASSUME \A r \in Records : record'[r].status = record[r].status,
           delivered' = delivered, faults' \in {faults, faults + 1}
    PROVE  Promised!Next \/ UNCHANGED Seen
<1>1. StatusOf' = StatusOf
  BY SameStatus
<1>2. CASE faults' = faults + 1
  BY <1>1, <1>2 DEF Promised!Next, Promised!Cut
<1>3. CASE faults' = faults
  BY <1>1, <1>3 DEF Seen
<1> QED BY <1>2, <1>3

LEMMA PromisedStep ==
    IInv /\ IInv' /\ ClaimedOK /\ [Next]_vars
        => [Promised!Next]_(Promised!vars)
<1> SUFFICES ASSUME IInv, IInv', ClaimedOK, [Next]_vars
             PROVE  Promised!Next \/ UNCHANGED Seen
  BY DEF Promised!vars, Seen
<1>1. record \in [Records -> Record] /\ faults \in Nat
  BY DEF IInv, TypeOK
<1>2. ASSUME NEW s \in Senders, NEW delay \in Delays, NEW lost \in BOOLEAN,
             StoreRecord(s, delay, lost)
      PROVE  Promised!Next \/ UNCHANGED Seen
  <2>1. CASE lost
    BY <1>2, <2>1, FaultPromised DEF StoreRecord, Works
  <2>2. CASE ~lost
    <3>1. PICK r \in Records : r = issued + 1
      BY <1>2 DEF StoreRecord, Records, IInv, TypeOK
    <3>2. record[r].status = "none"
      BY <3>1 DEF IInv, RecordsOK, TypeOK
    <3>3. /\ record'[r].status = "pending"
          /\ \A q \in Records \ {r} : record'[q] = record[q]
          /\ UNCHANGED <<delivered, faults>>
      BY <1>1, <1>2, <2>2, <3>1 DEF StoreRecord, Pending, Works
    <3>4. StatusOf[r] = "NONE" /\ StatusOf'[r] = "QUEUED"
      BY <3>2, <3>3 DEF StatusOf
    <3>5. StatusOf' = [StatusOf EXCEPT ![r] = "QUEUED"]
      BY <3>3, <3>4, OneStatus
    <3>6. Promised!Accept(r, FALSE)
      BY <3>3, <3>4, <3>5 DEF Promised!Accept, Promised!Accepted
    <3> QED BY <3>6 DEF Promised!Next
  <2> QED BY <2>1, <2>2
<1>3. ASSUME NEW lost \in BOOLEAN, ClaimRecord(lost)
      PROVE  Promised!Next \/ UNCHANGED Seen
  <2>1. CASE lost
    BY <1>3, <2>1, FaultPromised DEF ClaimRecord, Works
  <2>2. CASE ~lost
    <3>1. PICK r : r = Head(cycle.todo)
      OBVIOUS
    <3>2. /\ r \in Records /\ record[r].status = "pending"
          /\ record' = [record EXCEPT ![r] = Processing(@)]
      BY <1>3, <2>2, <3>1, TailOf DEF ClaimRecord, Claimable, IInv, TypeOK,
         CycleState
    <3>3. /\ record'[r].status = "processing"
          /\ \A q \in Records \ {r} : record'[q] = record[q]
      BY <1>1, <3>2 DEF Processing, Record
    <3>4. StatusOf' = StatusOf
      BY <3>2, <3>3 DEF StatusOf
    <3> QED BY <1>3, <2>2, <3>4 DEF ClaimRecord, Works, Seen
  <2> QED BY <2>1, <2>2
<1>4. ASSUME NEW lost \in BOOLEAN, Mark(lost)
      PROVE  Promised!Next \/ UNCHANGED Seen
  <2>1. CASE lost
    BY <1>4, <2>1, FaultPromised DEF Mark, Works
  <2>2. CASE ~lost
    <3>1. Mark(FALSE)
      BY <1>4, <2>2
    <3> QED BY <3>1, MarkPromised
  <2> QED BY <2>1, <2>2
<1>5. ASSUME NEW r \in Records, Expires(r) PROVE Promised!Next
  <2>1. record[r].status = "pending" /\ UNCHANGED <<delivered, faults>>
    BY <1>5 DEF Expires
  <2>2. /\ record'[r].status = "none"
        /\ \A q \in Records \ {r} : record'[q] = record[q]
    BY <1>1, <1>5 DEF Expires, NoRecord
  <2>3. StatusOf[r] = "QUEUED" /\ StatusOf'[r] = "NONE"
    BY <2>1, <2>2 DEF StatusOf
  <2>4. StatusOf' = [StatusOf EXCEPT ![r] = "NONE"]
    BY <2>2, <2>3, OneStatus
  <2>5. Promised!Perish(r)
    BY <2>1, <2>3, <2>4 DEF Promised!Perish
  <2> QED BY <2>5 DEF Promised!Next
<1>6. ASSUME NEW r \in Records, FallsDue(r) PROVE UNCHANGED Seen
  <2>1. \A q \in Records : record'[q].status = record[q].status
    BY <1>1, <1>6 DEF FallsDue, Record
  <2> QED BY <1>6, <2>1, SameStatus DEF FallsDue, Seen
<1>7. ASSUME NEW s \in Senders, NEW lost \in BOOLEAN,
             ReadList(s, lost) \/ WriteList(s, lost)
      PROVE  Promised!Next \/ UNCHANGED Seen
  BY <1>7, FaultPromised DEF ReadList, WriteList, Works
<1>8. ASSUME NEW s \in Senders, SenderThrows(s)
      PROVE  Promised!Next \/ UNCHANGED Seen
  BY <1>8, FaultPromised DEF SenderThrows
<1>9. ASSUME NEW lost \in BOOLEAN,
             StartCycle \/ PassRecord \/ MissRecord \/ EndScan(lost) \/ CycleThrows
      PROVE  Promised!Next \/ UNCHANGED Seen
  <2>1. UNCHANGED <<record, delivered>>
    BY <1>9 DEF StartCycle, PassRecord, MissRecord, EndScan, CycleThrows
  <2>2. faults' \in {faults, faults + 1}
    BY <1>9 DEF StartCycle, PassRecord, MissRecord, EndScan, CycleThrows, Works
  <2> QED BY <2>1, <2>2, FaultPromised
<1>10. CASE Crash \/ UNCHANGED vars
  BY <1>10, SameStatus DEF Crash, vars, Seen
<1> QED BY <1>2, <1>3, <1>4, <1>5, <1>6, <1>7, <1>8, <1>9, <1>10,
           DispatchPromised DEF Next, Send, Cycle

LEMMA PromisedInit == Init => Promised!Init
BY DEF Init, NoRecord, StatusOf, Promised!Init

(* The scheduler keeps the promise of Delivery: every interleaving of      *)
(* senders and worker cycles, with the calls that Redis fails and the      *)
(* restarts, is seen as notifications accepted, delivered within bounds    *)
(* and concluded with a reason (persistence.ts, flushDueScheduled).        *)
THEOREM SchedulerDelivers == Spec => SchedulesAsPromised
<1>1. Init => ClaimedOK
  BY ClaimedInit
<1>2. IInv /\ ClaimedOK /\ [Next]_vars => ClaimedOK'
  BY ClaimedStep DEF IInv
<1>3. IInv /\ IInv' /\ ClaimedOK /\ [Next]_vars
         => [Promised!Next]_(Promised!vars)
  BY PromisedStep
<1>4. Init => Promised!Init
  BY PromisedInit
<1> QED BY <1>1, <1>2, <1>3, <1>4, Inductive, PTL
        DEF Spec, Promised!Spec, SchedulesAsPromised
=============================================================================
