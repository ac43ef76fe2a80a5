------------------------------- MODULE Ledger -------------------------------
(***************************************************************************)
(* What the loyalty routes promise of an account, without requests, reads  *)
(* and caches: credits and redemptions are posted one at a time, each onto *)
(* the balance that the last one left.  An account becomes loose when two  *)
(* of its writes overlap, or an admin redeems more than it has; from then  *)
(* on only the bounds of its balance are kept.  LoyaltyLedger implements   *)
(* it.                                                                     *)
(***************************************************************************)
EXTENDS Integers

CONSTANTS
    Clients,    \* those who have an account
    Points      \* amounts that are posted

VARIABLES
    balance,    \* what an account shows
    credited,   \* the points credited to it
    redeemed,   \* the points redeemed from it
    loose       \* the accounts that are no longer exact

vars == <<balance, credited, redeemed, loose>>

Init ==
    /\ balance = [c \in Clients |-> 0]
    /\ credited = [c \in Clients |-> 0]
    /\ redeemed = [c \in Clients |-> 0]
    /\ loose = {}

(* No account shows less than nothing or more than was credited to it, and *)
(* an exact one shows the change that was posted.                          *)
Shows(c, change) ==
    \E b \in 0 .. credited'[c] :
        /\ c \notin loose => b = balance[c] + change
        /\ balance' = [balance EXCEPT ![c] = b]

(* The write is posted; another one that has read the same balance is      *)
(* still to come, or not.                                                  *)
Post(c, change) ==
    /\ Shows(c, change)
    /\ loose' \in {loose, loose \cup {c}}

Credit(c, p) ==
    /\ credited' = [credited EXCEPT ![c] = @ + p]
    /\ Post(c, p)
    /\ UNCHANGED redeemed

Redeem(c, p) ==
    /\ redeemed' = [redeemed EXCEPT ![c] = @ + p]
    /\ UNCHANGED credited
    /\ Post(c, -p)

(* An admin sets out to redeem more than there is.                         *)
Overdraw(c) ==
    /\ loose' = loose \cup {c}
    /\ UNCHANGED <<balance, credited, redeemed>>

Next ==
    \E c \in Clients :
        \/ \E p \in Points : Credit(c, p) \/ Redeem(c, p)
        \/ Overdraw(c)

Spec == Init /\ [][Next]_vars
=============================================================================
