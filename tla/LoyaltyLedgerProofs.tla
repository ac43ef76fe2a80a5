------------------------- MODULE LoyaltyLedgerProofs -------------------------
(* Proofs about LoyaltyLedger for any number of clients, requests, amounts *)
(* and transactions.                                                       *)
EXTENDS LoyaltyLedger, TLAPS

USE LedgerAssumption

----------------------------------------------------------------------------
(* Types.                                                                  *)

(* A request that has read an account, or committed, is a write.           *)
LEMMA Writes ==
    ASSUME NEW s, LocalState(s), s.pc \in {"read", "committed", "clearing"}
    PROVE  s \in Write
BY DEF LocalState, Idle, Missed, Queried

(* The local state of a request takes a new value of its type.             *)
LEMMA Becomes ==
    ASSUME TypeOK, NEW r \in Requests, NEW s, LocalState(s), Become(r, s)
    PROVE  /\ DOMAIN request' = Requests
           /\ \A q \in Requests : LocalState(request'[q])
           /\ request'[r] = s
           /\ \A q \in Requests \ {r} : request'[q] = request[q]
<1>1. /\ DOMAIN request' = Requests
      /\ request'[r] = s
      /\ \A q \in Requests \ {r} : request'[q] = request[q]
  BY DEF TypeOK, Become
<1>2. \A q \in Requests : LocalState(request[q])
  BY DEF TypeOK
<1> QED BY <1>1, <1>2

LEMMA IdleState == LocalState(Idle) /\ Idle.pc = "idle"
BY DEF LocalState, Idle

(* A write that starts holds what the account has.                         *)
LEMMA Writers ==
    ASSUME TypeOK, NEW c \in Clients, NEW kind \in AllKinds, NEW p \in Points
    PROVE  LET w == Writer(c, kind, p, account[c])
           IN  /\ w \in Write /\ w.pc = "read" /\ w.client = c
               /\ w.kind = kind /\ w.points = p
               /\ w.balance = account[c].balance
               /\ w.earned = account[c].earned
BY DEF TypeOK, Account, Writer, Write

(* The balance and the points earned that a write computes.                *)
LEMMA NewValues ==
    ASSUME NEW w \in Write
    PROVE  /\ NewBalance(w) \in Nat /\ NewEarned(w) \in Nat
           /\ w.balance \in Nat /\ w.earned \in Nat /\ w.points \in Nat
           /\ w.client \in Clients
           /\ w.kind = "REDEEMED" =>
                /\ NewBalance(w) <= w.balance
                /\ NewEarned(w) = w.earned
                /\ w.points <= w.balance =>
                      NewBalance(w) = w.balance - w.points
           /\ w.kind # "REDEEMED" =>
                /\ NewBalance(w) = w.balance + w.points
                /\ NewEarned(w) <= w.earned + w.points
<1>1. /\ w.balance \in Nat /\ w.earned \in Nat /\ w.points \in Nat
      /\ w.points > 0 /\ w.client \in Clients
  <2>1. w.points \in Points /\ w.client \in Clients
    BY DEF Write
  <2>2. w.balance \in Nat /\ w.earned \in Nat
    BY DEF Write
  <2>3. w.points \in Nat /\ w.points # 0
    BY <2>1
  <2> QED BY <2>1, <2>2, <2>3
<1> QED BY <1>1 DEF NewBalance, NewEarned

LEMMA TypeInit == Init => TypeOK
BY IdleState DEF Init, TypeOK, NoAccount, Account, Keys

(* Every step keeps the accounts, the cache and the requests well formed.  *)
LEMMA TypeStep == TypeOK /\ [Next]_vars => TypeOK'
<1> SUFFICES ASSUME TypeOK, [Next]_vars PROVE TypeOK'
  OBVIOUS
<1>1. ASSUME NEW r \in Requests, NEW c \in Clients, NEW p \in Points,
             Redeem(r, c, p)
      PROVE  TypeOK'
  <2>1. PICK s : s = Writer(c, "REDEEMED", p, account[c])
    OBVIOUS
  <2>2. LocalState(s)
    BY <2>1, Writers DEF LocalState, AllKinds
  <2>3. /\ DOMAIN request' = Requests
        /\ \A q \in Requests : LocalState(request'[q])
    BY <1>1, <2>1, <2>2, Becomes DEF Redeem
  <2> QED BY <1>1, <2>3 DEF Redeem, TypeOK
<1>2. ASSUME NEW r \in Requests, NEW c \in Clients, NEW kind \in AllKinds,
             NEW p \in Points, Issue(r, c, kind, p)
      PROVE  TypeOK'
  <2>1. PICK s : s = Writer(c, kind, p, account[c])
    OBVIOUS
  <2>2. LocalState(s)
    BY <2>1, Writers DEF LocalState
  <2>3. /\ DOMAIN request' = Requests
        /\ \A q \in Requests : LocalState(request'[q])
    BY <1>2, <2>1, <2>2, Becomes DEF Issue
  <2>4. account' \in [Clients -> Account]
    BY <1>2 DEF Issue, TypeOK, Account
  <2>5. overdrawn' \subseteq Clients
    BY <1>2 DEF Issue, TypeOK
  <2> QED BY <1>2, <2>3, <2>4, <2>5 DEF Issue, TypeOK
<1>3. ASSUME NEW r \in Requests, Commit(r) PROVE TypeOK'
  <2>1. PICK w : w = request[r]
    OBVIOUS
  <2>2. w \in Write /\ w.pc = "read"
    BY <1>3, <2>1, Writes DEF Commit, At, TypeOK
  <2>3. PICK s : s = [w EXCEPT !.pc = "committed"]
    OBVIOUS
  <2>4. LocalState(s)
    BY <2>2, <2>3 DEF LocalState, Write
  <2>5. /\ DOMAIN request' = Requests
        /\ \A q \in Requests : LocalState(request'[q])
    BY <1>3, <2>1, <2>3, <2>4, Becomes DEF Commit
  <2>6. /\ NewBalance(w) \in Nat /\ NewEarned(w) \in Nat
        /\ w.points \in Nat /\ w.client \in Clients
    BY <2>2, NewValues
  <2>7. account' \in [Clients -> Account]
    <3>1. account' = [account EXCEPT ![w.client] =
                        [account[w.client] EXCEPT !.balance = NewBalance(w),
                                                  !.earned = NewEarned(w)]]
      BY <1>3, <2>1, <2>6 DEF Commit, TypeOK, Account
    <3>2. [account[w.client] EXCEPT !.balance = NewBalance(w),
                                    !.earned = NewEarned(w)] \in Account
      BY <2>6 DEF TypeOK, Account
    <3> QED BY <2>6, <3>1, <3>2 DEF TypeOK
  <2>8. /\ commits' \in [Clients -> Nat]
        /\ credited' \in [Clients -> Nat] /\ redeemed' \in [Clients -> Nat]
    BY <1>3, <2>1, <2>6 DEF Commit, TypeOK
  <2>9. overlapped' \subseteq Clients
    BY <1>3, <2>1, <2>6 DEF Commit, TypeOK
  <2> QED BY <1>3, <2>5, <2>7, <2>8, <2>9 DEF Commit, TypeOK
<1>4. ASSUME NEW r \in Requests, CommitFails(r) PROVE TypeOK'
  BY <1>4, Becomes, IdleState DEF CommitFails, TypeOK
<1>5. ASSUME NEW r \in Requests, Clear(r) PROVE TypeOK'
  <2>1. request[r] \in Write
    BY <1>5, Writes DEF Clear, TypeOK
  <2>2. LocalState([request[r] EXCEPT !.pc = "clearing"])
    BY <2>1 DEF LocalState, Write
  <2>3. /\ DOMAIN request' = Requests
        /\ \A q \in Requests : LocalState(request'[q])
    BY <1>5, <2>2, Becomes, IdleState DEF Clear
  <2>4. faults' \in 0 .. MaxFaults
    BY <1>5 DEF Clear, NotConnected, TypeOK
  <2> QED BY <1>5, <2>3, <2>4 DEF Clear, TypeOK
<1>6. ASSUME NEW r \in Requests, NEW k \in Keys, Get(r, k) PROVE TypeOK'
  <2>1. LocalState([pc |-> "missed", key |-> k])
    BY DEF LocalState, Missed
  <2>2. /\ DOMAIN request' = Requests
        /\ \A q \in Requests : LocalState(request'[q])
    BY <1>6, <2>1, Becomes DEF Get
  <2>3. faults' \in 0 .. MaxFaults
    BY <1>6 DEF Get, NotConnected, TypeOK
  <2> QED BY <1>6, <2>2, <2>3 DEF Get, TypeOK
<1>7. ASSUME NEW r \in Requests, Query(r) PROVE TypeOK'
  <2>1. LocalState(request[r]) /\ request[r].pc = "missed"
    BY <1>7 DEF Query, At, TypeOK
  <2>2. request[r].key \in Keys
    BY <2>1 DEF LocalState, Idle, Write, Missed, Queried
  <2>3. PICK k : k = request[r].key
    OBVIOUS
  <2>4. View(k) \in [Shown(k) -> Nat]
    BY <2>2, <2>3 DEF View, Shown, Keys, TypeOK
  <2>5. LocalState([pc |-> "queried", key |-> k, view |-> View(k)])
    BY <2>2, <2>3, <2>4 DEF LocalState, Queried
  <2>6. \/ Become(r, [pc |-> "queried", key |-> k, view |-> View(k)])
        \/ Become(r, Idle)
    BY <1>7, <2>3 DEF Query
  <2>7. /\ DOMAIN request' = Requests
        /\ \A q \in Requests : LocalState(request'[q])
    BY <2>5, <2>6, Becomes, IdleState
  <2> QED BY <1>7, <2>7 DEF Query, TypeOK
<1>8. ASSUME NEW r \in Requests, Fill(r) PROVE TypeOK'
  <2>1. LocalState(request[r]) /\ request[r].pc = "queried"
    BY <1>8 DEF Fill, At, TypeOK
  <2>2. Queried(request[r])
    BY <2>1 DEF LocalState, Idle, Write, Missed
  <2>3. /\ DOMAIN request' = Requests
        /\ \A q \in Requests : LocalState(request'[q])
    BY <1>8, Becomes, IdleState DEF Fill
  <2>4. /\ DOMAIN cache' = Keys
        /\ \A k \in Keys : cache'[k] \in [Shown(k) -> Nat] \cup {NoView}
    BY <1>8, <2>2 DEF Fill, Queried, TypeOK
  <2>5. faults' \in 0 .. MaxFaults
    BY <1>8 DEF Fill, NotConnected, TypeOK
  <2> QED BY <1>8, <2>3, <2>4, <2>5 DEF Fill, TypeOK
<1>9. ASSUME NEW k \in Keys, Expires(k) PROVE TypeOK'
  <2>1. /\ DOMAIN cache' = Keys
        /\ \A j \in Keys : cache'[j] \in [Shown(j) -> Nat] \cup {NoView}
    BY <1>9 DEF Expires, TypeOK
  <2> QED BY <1>9, <2>1 DEF Expires, TypeOK
<1>10. ASSUME Crash PROVE TypeOK'
  BY <1>10, IdleState DEF Crash, TypeOK
<1>11. ASSUME UNCHANGED vars PROVE TypeOK'
  BY <1>11 DEF vars, TypeOK
<1> QED
  BY <1>1, <1>2, <1>3, <1>4, <1>5, <1>6, <1>7, <1>8, <1>9, <1>10, <1>11
     DEF Next, Proceed

(* Every behaviour of the loyalty routes keeps the accounts, the cache and *)
(* the requests well formed; a balance is never negative (loyalty.ts).     *)
THEOREM TypeCorrect == Spec => []TypeOK
BY TypeInit, TypeStep, PTL DEF Spec

----------------------------------------------------------------------------
(* The inductive invariant.                                                *)

(* What the invariant says of one request, and of one account.             *)
WriteOK(r) ==
    At(r, "read") =>
        LET w == request[r]
            c == w.client
        IN  /\ w.balance <= credited[c] /\ w.earned <= credited[c]
            /\ c \notin overlapped => w.balance = account[c].balance
            /\ w.kind = "REDEEMED" /\ c \notin overdrawn
                  => w.points <= w.balance

AccountOK(c) ==
    /\ account[c].balance <= credited[c] /\ account[c].earned <= credited[c]
    /\ c \notin overlapped \cup overdrawn =>
          account[c].balance = credited[c] - redeemed[c]

LEMMA Parts ==
    WriteInv /\ BalanceWithinCredits /\ BalanceExplained
        <=> (\A r \in Requests : WriteOK(r)) /\ (\A c \in Clients : AccountOK(c))
BY DEF WriteInv, WriteOK, AccountOK, BalanceWithinCredits, BalanceExplained

(* A request that stays as it is, while its account does, keeps its part.  *)
LEMMA RequestKept ==
    ASSUME NEW q \in Requests, WriteOK(q), request'[q] = request[q],
           UNCHANGED <<account, credited, overlapped>>,
           overdrawn \subseteq overdrawn'
    PROVE  WriteOK(q)'
BY DEF WriteOK, At

LEMMA InvInit == Init => IInv
<1> SUFFICES ASSUME Init PROVE IInv
  OBVIOUS
<1>1. \A r \in Requests : WriteOK(r)
  BY IdleState DEF Init, WriteOK, At
<1>2. ASSUME NEW c \in Clients PROVE AccountOK(c)
  <2>1. /\ account[c].balance = 0 /\ account[c].earned = 0
        /\ credited[c] = 0 /\ redeemed[c] = 0
    BY DEF Init, NoAccount
  <2> QED BY <2>1 DEF AccountOK
<1> QED BY <1>1, <1>2, TypeInit, Parts DEF IInv

(* A step that leaves the accounts and their rows alone, and every request *)
(* but one which is then no write about to commit, keeps the invariant.    *)
LEMMA Harmless ==
    ASSUME \A r \in Requests : WriteOK(r), \A c \in Clients : AccountOK(c),
           UNCHANGED <<account, credited, redeemed, overlapped, overdrawn>>,
           \A q \in Requests : request'[q] = request[q] \/ ~At(q, "read")'
    PROVE  /\ \A r \in Requests : WriteOK(r)'
           /\ \A c \in Clients : AccountOK(c)'
<1>1. ASSUME NEW q \in Requests PROVE WriteOK(q)'
  <2>1. CASE request'[q] = request[q]
    BY <2>1, RequestKept
  <2>2. CASE ~At(q, "read")'
    BY <2>2 DEF WriteOK
  <2> QED BY <2>1, <2>2
<1>2. ASSUME NEW c \in Clients PROVE AccountOK(c)'
  BY DEF AccountOK
<1> QED BY <1>1, <1>2

(* A write that starts has read what the account holds.                    *)
LEMMA StartStep ==
    ASSUME TypeOK, \A r \in Requests : WriteOK(r),
           \A c \in Clients : AccountOK(c),
           NEW r \in Requests, NEW c \in Clients, NEW p \in Points,
           NEW kind \in AllKinds, Become(r, Writer(c, kind, p, account[c])),
           \A d \in Clients : /\ account'[d].balance = account[d].balance
                               /\ account'[d].earned = account[d].earned,
           overdrawn \subseteq overdrawn',
           kind = "REDEEMED" /\ c \notin overdrawn' => p <= account[c].balance,
           UNCHANGED <<credited, redeemed, overlapped>>
    PROVE  /\ \A q \in Requests : WriteOK(q)'
           /\ \A d \in Clients : AccountOK(d)'
<1>1. PICK w : w = Writer(c, kind, p, account[c])
  OBVIOUS
<1>2. /\ w \in Write /\ w.pc = "read" /\ w.client = c
      /\ w.kind = kind /\ w.points = p
      /\ w.balance = account[c].balance /\ w.earned = account[c].earned
  BY <1>1, Writers
<1>3. LocalState(w)
  BY <1>2 DEF LocalState
<1>4. request'[r] = w /\ \A q \in Requests \ {r} : request'[q] = request[q]
  BY <1>1, <1>3, Becomes
<1>5. WriteOK(r)'
  <2>1. AccountOK(c)
    OBVIOUS
  <2> QED BY <1>2, <1>4, <2>1 DEF WriteOK, AccountOK
<1>6. ASSUME NEW q \in Requests \ {r} PROVE WriteOK(q)'
  <2>1. WriteOK(q) /\ request'[q] = request[q]
    BY <1>4, <1>6
  <2>2. At(q, "read") => request[q].client \in Clients
    <3>1. LocalState(request[q])
      BY DEF TypeOK
    <3> QED BY <3>1, Writes DEF At, Write
  <2> QED BY <2>1, <2>2 DEF WriteOK, At
<1>7. ASSUME NEW d \in Clients PROVE AccountOK(d)'
  <2>1. AccountOK(d)
    OBVIOUS
  <2> QED BY <2>1 DEF AccountOK
<1> QED BY <1>5, <1>6, <1>7

(* A write that commits is explained by its row; a write of the same       *)
(* account that is still in progress has overlapped with it.               *)
LEMMA CommitStep ==
    ASSUME TypeOK, \A r \in Requests : WriteOK(r),
           \A c \in Clients : AccountOK(c),
           NEW r \in Requests, Commit(r)
    PROVE  /\ \A q \in Requests : WriteOK(q)'
           /\ \A d \in Clients : AccountOK(d)'
<1>1. PICK w : w = request[r]
  OBVIOUS
<1>2. w \in Write /\ w.pc = "read"
  BY <1>1, Writes DEF Commit, At, TypeOK
<1>3. PICK c \in Clients : c = w.client
  BY <1>2 DEF Write
<1>4. /\ NewBalance(w) \in Nat /\ NewEarned(w) \in Nat
      /\ w.balance \in Nat /\ w.earned \in Nat /\ w.points \in Nat
  BY <1>2, NewValues
<1>5. /\ account[c].balance \in Nat /\ account[c].earned \in Nat
      /\ credited[c] \in Nat /\ redeemed[c] \in Nat
  BY DEF TypeOK, Account
<1>6. /\ account'[c].balance = NewBalance(w)
      /\ account'[c].earned = NewEarned(w)
      /\ \A d \in Clients \ {c} : account'[d] = account[d]
  BY <1>1, <1>3 DEF Commit, TypeOK, Account
<1>7. /\ \A d \in Clients \ {c} : /\ credited'[d] = credited[d]
                                   /\ redeemed'[d] = redeemed[d]
      /\ \/ /\ w.kind = "REDEEMED"
            /\ credited'[c] = credited[c]
            /\ redeemed'[c] = redeemed[c] + w.points
         \/ /\ w.kind # "REDEEMED"
            /\ credited'[c] = credited[c] + w.points
            /\ redeemed'[c] = redeemed[c]
  BY <1>1, <1>3 DEF Commit, TypeOK
<1>8. /\ overdrawn' = overdrawn
      /\ overlapped \subseteq overlapped'
      /\ Writing(c) # {r} => c \in overlapped'
      /\ \A d \in Clients \ {c} : d \in overlapped' <=> d \in overlapped
  BY <1>1, <1>3 DEF Commit
<1>9. /\ w.balance <= credited[c] /\ w.earned <= credited[c]
      /\ c \notin overlapped => w.balance = account[c].balance
      /\ w.kind = "REDEEMED" /\ c \notin overdrawn => w.points <= w.balance
  BY <1>1, <1>2, <1>3 DEF WriteOK, At
<1>10. ASSUME NEW d \in Clients PROVE AccountOK(d)'
  <2>1. AccountOK(d)
    OBVIOUS
  <2>2. CASE d # c
    BY <1>6, <1>7, <1>8, <2>1, <2>2 DEF AccountOK
  <2>3. CASE d = c
    <3>1. NewBalance(w) <= credited'[c] /\ NewEarned(w) <= credited'[c]
      BY <1>2, <1>4, <1>5, <1>7, <1>9, NewValues
    <3>2. ASSUME c \notin overlapped' \cup overdrawn'
          PROVE  NewBalance(w) = credited'[c] - redeemed'[c]
      <4>1. w.balance = credited[c] - redeemed[c]
        BY <1>8, <1>9, <2>1, <2>3, <3>2 DEF AccountOK
      <4>2. w.kind = "REDEEMED" => w.points <= w.balance
        BY <1>8, <1>9, <3>2
      <4>3. NewBalance(w) = IF w.kind = "REDEEMED" THEN w.balance - w.points
                            ELSE w.balance + w.points
        BY <1>2, <4>2, NewValues
      <4> QED BY <1>4, <1>5, <1>7, <4>1, <4>3
    <3> QED BY <1>6, <2>3, <3>1, <3>2 DEF AccountOK
  <2> QED BY <2>2, <2>3
<1>11. /\ request'[r].pc = "committed"
       /\ \A q \in Requests \ {r} : request'[q] = request[q]
  <2>1. PICK s : s = [w EXCEPT !.pc = "committed"]
    OBVIOUS
  <2>2. LocalState(s) /\ s.pc = "committed"
    BY <1>2, <2>1 DEF LocalState, Write
  <2>3. Become(r, s)
    BY <1>1, <2>1 DEF Commit
  <2> QED BY <2>2, <2>3, Becomes
<1>12. ASSUME NEW q \in Requests PROVE WriteOK(q)'
  <2>1. CASE q = r
    BY <1>11, <2>1 DEF WriteOK, At
  <2>2. CASE q # r /\ At(q, "read")
    <3>1. request'[q] = request[q] /\ WriteOK(q)
      BY <1>11, <2>2
    <3>2. PICK v : v = request[q]
      OBVIOUS
    <3>3. v \in Write /\ v.pc = "read"
      BY <2>2, <3>2, Writes DEF At, TypeOK
    <3>4. /\ v.client \in Clients /\ v.balance \in Nat /\ v.earned \in Nat
      BY <3>3 DEF Write
    <3>5. /\ v.balance <= credited[v.client] /\ v.earned <= credited[v.client]
          /\ v.client \notin overlapped => v.balance = account[v.client].balance
          /\ v.kind = "REDEEMED" /\ v.client \notin overdrawn
                => v.points <= v.balance
      BY <2>2, <3>1, <3>2 DEF WriteOK
    <3>6. CASE v.client = c
      <4>1. q \in Writing(c)
        BY <2>2, <3>2, <3>6 DEF Writing
      <4>2. c \in overlapped'
        BY <1>8, <2>2, <4>1
      <4>3. v.balance <= credited'[c] /\ v.earned <= credited'[c]
        BY <1>4, <1>5, <1>7, <3>4, <3>5, <3>6
      <4> QED BY <1>8, <3>1, <3>2, <3>5, <3>6, <4>2, <4>3 DEF WriteOK
    <3>7. CASE v.client # c
      <4>1. /\ credited'[v.client] = credited[v.client]
            /\ account'[v.client] = account[v.client]
            /\ v.client \in overlapped' <=> v.client \in overlapped
        BY <1>6, <1>7, <1>8, <3>4, <3>7
      <4> QED BY <1>8, <3>1, <3>2, <3>5, <4>1 DEF WriteOK
    <3> QED BY <3>6, <3>7
  <2>3. CASE q # r /\ ~At(q, "read")
    BY <1>11, <2>3 DEF WriteOK, At
  <2> QED BY <2>1, <2>2, <2>3
<1> QED BY <1>10, <1>12

(* Every step keeps the invariant.                                         *)
LEMMA InvStep == IInv /\ [Next]_vars => IInv'
<1> SUFFICES ASSUME IInv, [Next]_vars PROVE IInv'
  OBVIOUS
<1> DEFINE Goal == /\ \A q \in Requests : WriteOK(q)'
                   /\ \A d \in Clients : AccountOK(d)'
<1>0. /\ TypeOK
      /\ \A r \in Requests : WriteOK(r)
      /\ \A c \in Clients : AccountOK(c)
  BY Parts DEF IInv
<1>1. ASSUME NEW r \in Requests, NEW c \in Clients, NEW p \in Points,
             Redeem(r, c, p)
      PROVE  Goal
  <2>1. "REDEEMED" \in AllKinds
    BY DEF AllKinds
  <2>2. p <= account[c].balance
    <3>1. account[c].balance \in Nat /\ p \in Nat
      BY <1>0 DEF TypeOK, Account
    <3> QED BY <1>1, <3>1 DEF Redeem, Sufficient
  <2> QED BY <1>0, <1>1, <2>1, <2>2, StartStep DEF Redeem
<1>2. ASSUME NEW r \in Requests, NEW c \in Clients, NEW kind \in AllKinds,
             NEW p \in Points, Issue(r, c, kind, p)
      PROVE  Goal
  <2>1. account[c].balance \in Nat /\ p \in Nat
    BY <1>0 DEF TypeOK, Account
  <2>2. \A d \in Clients : /\ account'[d].balance = account[d].balance
                            /\ account'[d].earned = account[d].earned
    BY <1>0, <1>2 DEF Issue, TypeOK, Account
  <2>3. /\ overdrawn \subseteq overdrawn'
        /\ kind = "REDEEMED" /\ c \notin overdrawn' => p <= account[c].balance
    BY <1>2, <2>1 DEF Issue
  <2>4. /\ Become(r, Writer(c, kind, p, account[c]))
        /\ UNCHANGED <<credited, redeemed, overlapped>>
    BY <1>2 DEF Issue
  <2> QED BY <1>0, <2>2, <2>3, <2>4, StartStep
<1>3. ASSUME NEW r \in Requests, Commit(r) PROVE Goal
  BY <1>0, <1>3, CommitStep
<1>4. ASSUME UNCHANGED <<account, credited, redeemed, overlapped, overdrawn>>,
             \A q \in Requests : request'[q] = request[q] \/ ~At(q, "read")'
      PROVE  Goal
  BY <1>0, <1>4, Harmless
<1>5. ASSUME NEW r \in Requests, NEW s, LocalState(s), s.pc # "read",
             Become(r, s)
      PROVE  \A q \in Requests : request'[q] = request[q] \/ ~At(q, "read")'
  BY <1>0, <1>5, Becomes DEF At
<1>6. ASSUME NEW r \in Requests, CommitFails(r) PROVE Goal
  BY <1>4, <1>5, <1>6, IdleState DEF CommitFails
<1>7. ASSUME NEW r \in Requests, Clear(r) PROVE Goal
  <2>1. PICK s : s = [request[r] EXCEPT !.pc = "clearing"]
    OBVIOUS
  <2>2. request[r] \in Write
    BY <1>0, <1>7, Writes DEF Clear, TypeOK
  <2>3. LocalState(s) /\ s.pc = "clearing"
    BY <2>1, <2>2 DEF LocalState, Write
  <2>4. Become(r, Idle) \/ Become(r, s)
    BY <1>7, <2>1 DEF Clear
  <2>5. UNCHANGED <<account, credited, redeemed, overlapped, overdrawn>>
    BY <1>7 DEF Clear
  <2> QED BY <1>4, <1>5, <2>3, <2>4, <2>5, IdleState
<1>8. ASSUME NEW r \in Requests, NEW k \in Keys, Get(r, k) PROVE Goal
  <2>1. PICK s : s = [pc |-> "missed", key |-> k]
    OBVIOUS
  <2>2. LocalState(s) /\ s.pc = "missed"
    BY <2>1 DEF LocalState, Missed
  <2> QED BY <1>4, <1>5, <1>8, <2>1, <2>2 DEF Get
<1>9. ASSUME NEW r \in Requests, Query(r) PROVE Goal
  <2>1. UNCHANGED <<account, credited, redeemed, overlapped, overdrawn>>
    BY <1>9 DEF Query
  <2>2. \A q \in Requests : request'[q] = request[q] \/ ~At(q, "read")'
    <3>1. PICK k, seen : /\ k = request[r].key
                         /\ seen = [pc |-> "queried", key |-> k,
                                    view |-> View(k)]
      OBVIOUS
    <3>2. Become(r, seen) \/ Become(r, Idle)
      BY <1>9, <3>1 DEF Query
    <3>3. seen.pc = "queried" /\ Idle.pc = "idle"
      BY <3>1 DEF Idle
    <3>4. DOMAIN request = Requests
      BY <1>0 DEF TypeOK
    <3> HIDE DEF Idle
    <3> QED BY <3>2, <3>3, <3>4 DEF At, Become
  <2> QED BY <1>4, <2>1, <2>2
<1>10. ASSUME NEW r \in Requests, Fill(r) PROVE Goal
  BY <1>4, <1>5, <1>10, IdleState DEF Fill
<1>11. ASSUME NEW k \in Keys, Expires(k) PROVE Goal
  BY <1>4, <1>11 DEF Expires
<1>12. ASSUME Crash PROVE Goal
  <2>1. \A q \in Requests : ~At(q, "read")'
    BY <1>12, IdleState DEF Crash, At
  <2> QED BY <1>4, <1>12, <2>1 DEF Crash
<1>13. ASSUME UNCHANGED vars PROVE Goal
  BY <1>4, <1>13 DEF vars
<1>14. Goal
  BY <1>1, <1>2, <1>3, <1>6, <1>7, <1>8, <1>9, <1>10, <1>11, <1>12, <1>13
     DEF Next, Proceed
<1>15. TypeOK'
  BY <1>0, TypeStep
<1>16. (WriteInv /\ BalanceWithinCredits /\ BalanceExplained)'
  BY <1>14 DEF WriteInv, WriteOK, AccountOK, BalanceWithinCredits,
               BalanceExplained
<1> QED BY <1>15, <1>16 DEF IInv

(* The invariant: what a write in progress holds of its account, and how   *)
(* the account follows from its transactions (the write routes of          *)
(* loyalty.ts).                                                            *)
THEOREM Inductive == Spec => []IInv
BY InvInit, InvStep, PTL DEF Spec

(* No interleaving of requests, lost update or failed transaction makes a  *)
(* balance that was never credited (redeem and issue in loyalty.ts).       *)
THEOREM WithinCredits == Spec => []BalanceWithinCredits
<1>1. IInv => BalanceWithinCredits
  BY DEF IInv
<1> QED BY <1>1, Inductive, PTL

(* While the writes of an account do not overlap, and no admin redeems     *)
(* more than there is, its transactions explain its balance (loyalty.ts).  *)
THEOREM Explained == Spec => []BalanceExplained
<1>1. IInv => BalanceExplained
  BY DEF IInv
<1> QED BY <1>1, Inductive, PTL

----------------------------------------------------------------------------
(* The routes implement Ledger.                                            *)

(* What an observer of the ledger sees.                                    *)
Balances == [c \in Clients |-> account[c].balance]
Loose == overlapped \cup overdrawn
Seen == <<Balances, credited, redeemed, Loose>>

(* A step that leaves the balances, the rows and the loose accounts alone  *)
(* is not seen.                                                            *)
LEMMA Unseen ==
    ASSUME \A c \in Clients : account'[c].balance = account[c].balance,
           UNCHANGED <<credited, redeemed, overlapped, overdrawn>>
    PROVE  UNCHANGED Seen
BY DEF Seen, Balances, Loose

LEMMA StartsExact == Init => Posted!Init
BY DEF Init, NoAccount, Posted!Init

(* A commit posts its row, exactly while the account is not loose.         *)
LEMMA CommitPosts ==
    ASSUME IInv, IInv', NEW r \in Requests, Commit(r)
    PROVE  \E c \in Clients, p \in Points :
              Posted!Credit(c, p) \/ Posted!Redeem(c, p)
<1>1. PICK w : w = request[r]
  OBVIOUS
<1>2. w \in Write /\ w.pc = "read"
  BY <1>1, Writes DEF Commit, At, IInv, TypeOK
<1>3. PICK c \in Clients, p \in Points : c = w.client /\ p = w.points
  BY <1>2 DEF Write
<1>4. WriteOK(r) /\ AccountOK(c)'
  BY <1>2, Parts DEF IInv, WriteOK, AccountOK, BalanceWithinCredits,
                     BalanceExplained
<1>5. /\ NewBalance(w) \in Nat /\ w.balance \in Nat /\ p \in Nat
      /\ account[c].balance \in Nat /\ credited'[c] \in Nat
  BY <1>2, <1>3, NewValues DEF IInv, TypeOK, Account
<1>6. /\ account'[c].balance = NewBalance(w)
      /\ \A d \in Clients \ {c} : account'[d].balance = account[d].balance
  BY <1>1, <1>3 DEF Commit, IInv, TypeOK, Account
<1>7. NewBalance(w) \in 0 .. credited'[c]
  BY <1>4, <1>5, <1>6 DEF AccountOK
<1>8. Balances' = [Balances EXCEPT ![c] = NewBalance(w)]
  BY <1>6 DEF Balances
<1>9. Loose' \in {Loose, Loose \cup {c}}
  BY <1>1, <1>3 DEF Commit, Loose
<1>10. c \notin Loose =>
          NewBalance(w) = Balances[c] + (IF w.kind = "REDEEMED" THEN -p ELSE p)
  <2>1. SUFFICES ASSUME c \notin Loose
                 PROVE  NewBalance(w) = account[c].balance
                           + (IF w.kind = "REDEEMED" THEN -p ELSE p)
    BY DEF Balances
  <2>2. /\ w.balance = account[c].balance
        /\ w.kind = "REDEEMED" => p <= w.balance
    BY <1>1, <1>2, <1>3, <1>4, <2>1 DEF WriteOK, At, Loose
  <2> QED BY <1>2, <1>3, <1>5, <2>2, NewValues
<1>11. CASE w.kind = "REDEEMED"
  <2>1. /\ credited' = credited
        /\ redeemed' = [redeemed EXCEPT ![c] = @ + p]
    BY <1>1, <1>3, <1>11 DEF Commit
  <2>2. Posted!Shows(c, -p)
    BY <1>7, <1>8, <1>10, <1>11 DEF Posted!Shows, Balances, Loose
  <2>3. Posted!Redeem(c, p)
    BY <1>9, <2>1, <2>2 DEF Posted!Redeem, Posted!Post, Loose
  <2> QED BY <2>3
<1>12. CASE w.kind # "REDEEMED"
  <2>1. /\ redeemed' = redeemed
        /\ credited' = [credited EXCEPT ![c] = @ + p]
    BY <1>1, <1>3, <1>12 DEF Commit
  <2>2. Posted!Shows(c, p)
    BY <1>7, <1>8, <1>10, <1>12 DEF Posted!Shows, Balances, Loose
  <2>3. Posted!Credit(c, p)
    BY <1>9, <2>1, <2>2 DEF Posted!Credit, Posted!Post, Loose
  <2> QED BY <2>3
<1> QED BY <1>11, <1>12

(* An admin's redemption that is not covered makes its account loose; any  *)
(* other start of a write is not seen.                                     *)
LEMMA IssueOverdraws ==
    ASSUME IInv, NEW r \in Requests, NEW c \in Clients, NEW kind \in Kinds,
           NEW p \in Points, Issue(r, c, kind, p)
    PROVE  Posted!Overdraw(c) \/ UNCHANGED Seen
<1>1. \A d \in Clients : account'[d].balance = account[d].balance
  BY DEF Issue, IInv, TypeOK, Account
<1>2. UNCHANGED <<credited, redeemed, overlapped>>
  BY DEF Issue
<1>3. CASE overdrawn' = overdrawn
  BY <1>1, <1>2, <1>3, Unseen
<1>4. CASE overdrawn' = overdrawn \cup {c}
  BY <1>1, <1>2, <1>4 DEF Posted!Overdraw
<1> QED BY <1>3, <1>4 DEF Issue

LEMMA PostsStep ==
    IInv /\ IInv' /\ [Next]_vars => [Posted!Next]_(Posted!vars)
<1> SUFFICES ASSUME IInv, IInv', [Next]_vars
             PROVE  Posted!Next \/ UNCHANGED Seen
  BY DEF Posted!vars, Seen, Balances, Loose
<1>1. ASSUME NEW r \in Requests, NEW c \in Clients, NEW kind \in Kinds,
             NEW p \in Points, Issue(r, c, kind, p)
      PROVE  Posted!Next \/ UNCHANGED Seen
  BY <1>1, IssueOverdraws DEF Posted!Next
<1>2. ASSUME NEW r \in Requests, Commit(r) PROVE Posted!Next
  BY <1>2, CommitPosts DEF Posted!Next
<1>3. ASSUME NEW r \in Requests, NEW c \in Clients, NEW p \in Points,
             Redeem(r, c, p)
      PROVE  UNCHANGED Seen
  BY <1>3, Unseen DEF Redeem
<1>4. ASSUME NEW r \in Requests,
             CommitFails(r) \/ Clear(r) \/ Query(r) \/ Fill(r)
      PROVE  UNCHANGED Seen
  BY <1>4, Unseen DEF CommitFails, Clear, Query, Fill
<1>5. ASSUME NEW r \in Requests, NEW k \in Keys, Get(r, k)
      PROVE  UNCHANGED Seen
  BY <1>5, Unseen DEF Get
<1>6. ASSUME NEW k \in Keys, Expires(k) PROVE UNCHANGED Seen
  BY <1>6, Unseen DEF Expires
<1>7. CASE Crash
  BY <1>7, Unseen DEF Crash
<1>8. CASE UNCHANGED vars
  BY <1>8, Unseen DEF vars
<1> QED BY <1>1, <1>2, <1>3, <1>4, <1>5, <1>6, <1>7, <1>8 DEF Next, Proceed

(* The loyalty routes behave as a ledger of atomic writes: what is posted  *)
(* is shown on the balance that was there, until two writes of an account  *)
(* overlap or an admin overdraws it (redeem and issue in loyalty.ts).      *)
THEOREM LedgerImplemented == Spec => PostsAsLedger
<1>1. Spec => Posted!Init
  BY StartsExact DEF Spec
<1>2. IInv /\ [Next]_vars => [Posted!Next]_(Posted!vars)
  BY InvStep, PostsStep
<1> QED BY <1>1, <1>2, Inductive, PTL DEF Spec, Posted!Spec, PostsAsLedger
=============================================================================
