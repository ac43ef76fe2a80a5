---------------------------- MODULE LoginSessions ----------------------------
(***************************************************************************)
(* What a login is to the account it belongs to, without the tokens behind *)
(* it: no rotation, no expiry, no requests in progress.  A session is open *)
(* from its login until it is signed out; the end of a password change     *)
(* closes every session of the account; and a session that is open against *)
(* either rule is known to rest on something a request had read before.    *)
(* AuthSessions implements it.                                             *)
(***************************************************************************)
EXTENDS Naturals

CONSTANTS
    Users,      \* accounts
    Sessions,   \* the logins that may happen
    Nobody      \* the user of a login that has not happened

VARIABLES
    login,      \* each login: its user, and the password it used
    open,       \* the sessions that are open
    password,   \* which of its passwords an account has
    settled,    \* the last password whose change has closed the sessions
    stale       \* the sessions that rest on what is no longer so

vars == <<login, open, password, settled, stale>>

NoLogin == [user |-> Nobody, password |-> 0]

Init ==
    /\ login = [s \in Sessions |-> NoLogin]
    /\ open = {} /\ stale = {}
    /\ password = [u \in Users |-> 0]
    /\ settled = [u \in Users |-> 0]

SessionsOf(u) == {s \in Sessions : login[s].user = u}

Open(s, u, pw) ==
    /\ login[s] = NoLogin
    /\ login' = [login EXCEPT ![s] = [user |-> u, password |-> pw]]
    /\ open' = open \cup {s}
    /\ stale' = IF pw < password[u] THEN stale \cup {s} ELSE stale
    /\ UNCHANGED <<password, settled>>

SignOut(S) ==
    /\ open' = open \ S
    /\ UNCHANGED <<login, password, settled, stale>>

(* The user has changed the password to pw, some time ago perhaps.         *)
Settle(u, pw) ==
    /\ open' = open \ SessionsOf(u)
    /\ settled' = [settled EXCEPT ![u] = IF pw > @ THEN pw ELSE @]
    /\ UNCHANGED <<login, password, stale>>

(* A session goes on although it was signed out.                           *)
Resume(s) ==
    /\ login[s] # NoLogin
    /\ open' = open \cup {s}
    /\ stale' = stale \cup {s}
    /\ UNCHANGED <<login, password, settled>>

NewPassword(u) ==
    /\ password' = [password EXCEPT ![u] = @ + 1]
    /\ UNCHANGED <<login, open, settled, stale>>

Next ==
    \/ \E s \in Sessions : SignOut({s}) \/ Resume(s)
    \/ \E u \in Users :
          \/ NewPassword(u)
          \/ SignOut(SessionsOf(u))
          \/ \E pw \in 0 .. password[u] :
                Settle(u, pw) \/ \E s \in Sessions : Open(s, u, pw)
    \/ SignOut(Sessions)

Spec == Init /\ [][Next]_vars
=============================================================================
