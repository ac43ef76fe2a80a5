---------------------------- MODULE LoyaltyLedger ----------------------------
(***************************************************************************)
(* The loyalty credits of the billing service                              *)
(* (services/billing/src/routes/loyalty.ts): an account per client with a  *)
(* balance, the credit transactions that explain it, and the Redis entries *)
(* that cache the account and the list of all accounts.                    *)
(*                                                                         *)
(* A request is a process: it reads the account, then commits a            *)
(* transaction that writes the balance computed from what it has read, and *)
(* then resets the cache entries.  Any two requests interleave.  A cached  *)
(* account is the number of transactions it shows: what else it holds      *)
(* follows from that.  Requests that are refused change nothing and are    *)
(* not steps of the model.                                                 *)
(***************************************************************************)
EXTENDS Integers

CONSTANTS
    Clients,       \* clients, each with one account at the most
    All,           \* the cache key of the list of all accounts
    NoView,        \* what Redis holds for a key without an entry
    Requests,      \* requests in progress at the same time
    Points,        \* amounts that are redeemed or issued
    Kinds,         \* types of the transactions that admins issue
    MaxCommits,    \* transactions of an account (bounds the model)
    MaxFaults,     \* calls made while Redis is not connected (bound)
    MaxCrashes     \* restarts of the service (bounds the model)

AllKinds == {"EARNED", "ADJUSTED", "REDEEMED"}

ASSUME LedgerAssumption ==
    /\ All \notin Clients
    /\ NoView \notin [Clients -> Nat]
    /\ \A c \in Clients : NoView \notin [{c} -> Nat]
    /\ Points \subseteq Nat \ {0}
    /\ Kinds \subseteq AllKinds
    /\ MaxCommits \in Nat /\ MaxFaults \in Nat /\ MaxCrashes \in Nat

VARIABLES
    account,      \* the LoyaltyAccount row of each client
    credited,     \* points of each account's EARNED and ADJUSTED rows
    redeemed,     \* points of its REDEEMED rows
    commits,      \* its transactions
    cache,        \* what Redis holds for each key
    request,      \* the local state of each request
    overlapped,   \* clients with two writes that overlapped
    overdrawn,    \* clients from whom an admin redeemed more than they had
    faults,       \* calls made while Redis was not connected
    crashes       \* restarts

vars == <<account, credited, redeemed, commits, cache, request, overlapped,
          overdrawn, faults, crashes>>

----------------------------------------------------------------------------
Keys == Clients \cup {All}
Shown(k) == IF k = All THEN Clients ELSE {k}

Account == [exists : BOOLEAN, balance : Nat, earned : Nat]
NoAccount == [exists |-> FALSE, balance |-> 0, earned |-> 0]

(* What the routes answer from the database for a key.                     *)
View(k) == [c \in Shown(k) |-> commits[c]]

Idle == [pc |-> "idle"]

(* A write in progress, with what it has read of the account.              *)
Write == [pc : {"read", "committed", "clearing"}, client : Clients,
          kind : AllKinds, points : Points, balance : Nat, earned : Nat]

(* A read in progress, before and after its query.                         *)
Missed == [pc : {"missed"}, key : Keys]
Queried(s) ==
    s.pc = "queried" /\ s.key \in Keys /\ s.view \in [Shown(s.key) -> Nat]

LocalState(s) == s = Idle \/ s \in Write \/ s \in Missed \/ Queried(s)

TypeOK ==
    /\ account \in [Clients -> Account]
    /\ credited \in [Clients -> Nat] /\ redeemed \in [Clients -> Nat]
    /\ commits \in [Clients -> Nat]
    /\ DOMAIN cache = Keys
    /\ \A k \in Keys : cache[k] \in [Shown(k) -> Nat] \cup {NoView}
    /\ DOMAIN request = Requests
    /\ \A r \in Requests : LocalState(request[r])
    /\ overlapped \subseteq Clients /\ overdrawn \subseteq Clients
    /\ faults \in 0 .. MaxFaults /\ crashes \in 0 .. MaxCrashes

Init ==
    /\ account = [c \in Clients |-> NoAccount]
    /\ credited = [c \in Clients |-> 0] /\ redeemed = [c \in Clients |-> 0]
    /\ commits = [c \in Clients |-> 0]
    /\ cache = [k \in Keys |-> NoView]
    /\ request = [r \in Requests |-> Idle]
    /\ overlapped = {} /\ overdrawn = {}
    /\ faults = 0 /\ crashes = 0

----------------------------------------------------------------------------
At(r, pc) == request[r].pc = pc
Become(r, state) == request' = [request EXCEPT ![r] = state]

(* A call made while Redis is not connected: a read answers null, and a    *)
(* write does nothing.                                                     *)
NotConnected == faults < MaxFaults /\ faults' = faults + 1

(* Writes that have read the account of a client and not committed yet.    *)
Writing(c) == {r \in Requests : At(r, "read") /\ request[r].client = c}

----------------------------------------------------------------------------
(* POST /loyalty/redeem and POST /loyalty/:clientId/transactions.          *)

Writer(c, kind, p, a) ==
    [pc |-> "read", client |-> c, kind |-> kind, points |-> p,
     balance |-> a.balance, earned |-> a.earned]

(* Mutant: an account is enough, whatever its balance.                     *)
AnyBalance(c, p) == TRUE

Sufficient(c, p) == account[c].balance >= p

Redeem(r, c, p) ==
    /\ At(r, "idle")
    /\ account[c].exists /\ Sufficient(c, p)
    /\ Become(r, Writer(c, "REDEEMED", p, account[c]))
    /\ UNCHANGED <<account, credited, redeemed, commits, cache, overlapped,
                   overdrawn, faults, crashes>>

(* The account is made if there is none.                                   *)
Issue(r, c, kind, p) ==
    /\ At(r, "idle")
    /\ account' = [account EXCEPT ![c].exists = TRUE]
    /\ Become(r, Writer(c, kind, p, account[c]))
    /\ overdrawn' = IF kind = "REDEEMED" /\ account[c].balance < p
                    THEN overdrawn \cup {c} ELSE overdrawn
    /\ UNCHANGED <<credited, redeemed, commits, cache, overlapped, faults,
                   crashes>>

(* Mutants: the sign of a redemption is lost; the balance may go below 0.  *)
AddedBalance(w) == w.balance + w.points
UncutBalance(w) ==
    IF w.kind = "REDEEMED" THEN w.balance - w.points ELSE w.balance + w.points

NewBalance(w) ==
    LET delta == IF w.kind = "REDEEMED" THEN -w.points ELSE w.points
    IN  IF w.balance + delta > 0 THEN w.balance + delta ELSE 0

NewEarned(w) == IF w.kind = "EARNED" THEN w.earned + w.points ELSE w.earned

(* The transaction: the row that explains the change and the balance.      *)
Commit(r) ==
    /\ At(r, "read")
    /\ LET w == request[r]
           c == w.client
       IN  /\ commits[c] < MaxCommits
           /\ commits' = [commits EXCEPT ![c] = @ + 1]
           /\ account' = [account EXCEPT ![c].balance = NewBalance(w),
                                         ![c].earned = NewEarned(w)]
           /\ IF w.kind = "REDEEMED"
              THEN /\ redeemed' = [redeemed EXCEPT ![c] = @ + w.points]
                   /\ UNCHANGED credited
              ELSE /\ credited' = [credited EXCEPT ![c] = @ + w.points]
                   /\ UNCHANGED redeemed
           /\ overlapped' = IF Writing(c) = {r} THEN overlapped
                            ELSE overlapped \cup {c}
           /\ Become(r, [w EXCEPT !.pc = "committed"])
    /\ UNCHANGED <<cache, overdrawn, faults, crashes>>

(* Mutant: without the transaction, the balance stays when the row fails.  *)
HalfCommit(r) ==
    /\ At(r, "read")
    /\ account' = [account EXCEPT ![request[r].client].balance =
                      NewBalance(request[r])]
    /\ Become(r, Idle)
    /\ UNCHANGED <<credited, redeemed, commits, cache, overlapped, overdrawn,
                   faults, crashes>>

(* The database refuses the transaction, and none of it is done.           *)
CommitFails(r) ==
    /\ At(r, "read")
    /\ Become(r, Idle)
    /\ UNCHANGED <<account, credited, redeemed, commits, cache, overlapped,
                   overdrawn, faults, crashes>>

(* The two entries are set to null with a time to live of 0, which Redis   *)
(* refuses: the request fails at the first one.  Where Redis is not        *)
(* connected nothing is set and the request goes on.                       *)
Clear(r) ==
    /\ request[r].pc \in {"committed", "clearing"}
    /\ \/ Become(r, Idle) /\ UNCHANGED faults
       \/ /\ NotConnected
          /\ Become(r, IF At(r, "committed")
                       THEN [request[r] EXCEPT !.pc = "clearing"] ELSE Idle)
    /\ UNCHANGED <<account, credited, redeemed, commits, cache, overlapped,
                   overdrawn, crashes>>

----------------------------------------------------------------------------
(* GET /loyalty and GET /loyalty/:clientId.  A hit is answered at once.    *)

Get(r, k) ==
    /\ At(r, "idle")
    /\ \/ cache[k] = NoView /\ UNCHANGED faults
       \/ cache[k] # NoView /\ NotConnected
    /\ Become(r, [pc |-> "missed", key |-> k])
    /\ UNCHANGED <<account, credited, redeemed, commits, cache, overlapped,
                   overdrawn, crashes>>

(* A client without an account is answered null, which is not cached.      *)
Query(r) ==
    /\ At(r, "missed")
    /\ LET k == request[r].key IN
         Become(r, IF k = All \/ account[k].exists
                   THEN [pc |-> "queried", key |-> k, view |-> View(k)]
                   ELSE Idle)
    /\ UNCHANGED <<account, credited, redeemed, commits, cache, overlapped,
                   overdrawn, faults, crashes>>

Fill(r) ==
    /\ At(r, "queried")
    /\ \/ /\ cache' = [cache EXCEPT ![request[r].key] = request[r].view]
          /\ UNCHANGED faults
       \/ NotConnected /\ UNCHANGED cache
    /\ Become(r, Idle)
    /\ UNCHANGED <<account, credited, redeemed, commits, overlapped,
                   overdrawn, crashes>>

(* Mutant: an entry without a time to live.                                *)
NeverExpires(k) == FALSE

(* An entry lives for sixty seconds.                                       *)
Expires(k) ==
    /\ cache[k] # NoView
    /\ cache' = [cache EXCEPT ![k] = NoView]
    /\ UNCHANGED <<account, credited, redeemed, commits, request, overlapped,
                   overdrawn, faults, crashes>>

(* The service stops and starts again: what is committed stays.            *)
Crash ==
    /\ crashes < MaxCrashes
    /\ crashes' = crashes + 1
    /\ request' = [r \in Requests |-> Idle]
    /\ UNCHANGED <<account, credited, redeemed, commits, cache, overlapped,
                   overdrawn, faults>>

----------------------------------------------------------------------------
Proceed(r) == Commit(r) \/ CommitFails(r) \/ Clear(r) \/ Query(r) \/ Fill(r)

Next ==
    \/ \E r \in Requests, c \in Clients, p \in Points : Redeem(r, c, p)
    \/ \E r \in Requests, c \in Clients, kind \in Kinds, p \in Points :
          Issue(r, c, kind, p)
    \/ \E r \in Requests, k \in Keys : Get(r, k)
    \/ \E r \in Requests : Proceed(r)
    \/ \E k \in Keys : Expires(k)
    \/ Crash

Spec == Init /\ [][Next]_vars

(* A request goes on to its end, and Redis removes an entry that nobody    *)
(* writes again.                                                           *)
FairSpec ==
    /\ Spec
    /\ \A r \in Requests : WF_vars(Proceed(r))
    /\ \A k \in Keys : WF_vars(Expires(k))

----------------------------------------------------------------------------
(* Safety.                                                                 *)

(* However requests interleave, lose each other's updates or are cut       *)
(* short, an account never shows more points than were ever credited to    *)
(* it, as a balance or as earned.                                          *)
BalanceWithinCredits ==
    \A c \in Clients : /\ account[c].balance <= credited[c]
                       /\ account[c].earned <= credited[c]

(* The transactions of an account explain its balance, unless two of its   *)
(* writes overlapped or an admin redeemed more than there was.             *)
BalanceExplained ==
    \A c \in Clients \ (overlapped \cup overdrawn) :
        account[c].balance = credited[c] - redeemed[c]

(* Liveness: when the writes have ended the cache comes to show what they  *)
(* wrote, whichever reader filled it last.                                 *)
CacheSettles ==
    <>[](\A k \in Keys : cache[k] \in {NoView, View(k)})

(* The head comment of loyalty.ts: a write invalidates the cache.          *)
InvalidatedOnWrite ==
    (\A r \in Requests : At(r, "idle")) =>
        \A k \in Keys : cache[k] \in {NoView, View(k)}

(* The comment on POST /loyalty/redeem: a client redeems their own credits.*)
OwnCredits == \A c \in Clients : redeemed[c] <= credited[c]

----------------------------------------------------------------------------
(* The abstract specification.                                             *)

Posted == INSTANCE Ledger WITH
    balance <- [c \in Clients |-> account[c].balance],
    loose   <- overlapped \cup overdrawn

(* A request reads, computes and commits in separate steps, yet as long as *)
(* no two writes of an account overlap every write is posted onto the      *)
(* balance that the last one left, as in a ledger of atomic writes; a lost *)
(* update shows on that account only, and in bounds.                       *)
PostsAsLedger == Posted!Spec

----------------------------------------------------------------------------
(* The inductive strengthening of the safety properties.                   *)

(* A write holds no more than the account had; and what it holds is still  *)
(* the account's, unless writes overlapped.                                *)
WriteInv ==
    \A r \in Requests : At(r, "read") =>
        LET w == request[r]
            c == w.client
        IN  /\ w.balance <= credited[c] /\ w.earned <= credited[c]
            /\ c \notin overlapped => w.balance = account[c].balance
            /\ w.kind = "REDEEMED" /\ c \notin overdrawn
                  => w.points <= w.balance

IInv == TypeOK /\ WriteInv /\ BalanceWithinCredits /\ BalanceExplained
=============================================================================
