---------------------------- MODULE AuthSessions ----------------------------
(***************************************************************************)
(* Sessions of the auth service (services/auth/src/routes/auth.ts): the    *)
(* RefreshToken rows and the columns of User that the handlers of login,   *)
(* refresh, logout, sign-out and password routes read and write.           *)
(*                                                                         *)
(* A request that reads before it writes takes two steps, so requests      *)
(* interleave between the two; updateMany and $transaction are one step.   *)
(* Tokens are numbered as they are created.  The tokens that rotation      *)
(* derives from one login form a session, named after its first token.     *)
(***************************************************************************)
EXTENDS Naturals

CONSTANTS
    Users,          \* accounts
    AdminEmails,    \* those whose address may register as an admin's
    Slots,          \* requests handled at once
    MaxTokens,      \* refresh tokens created in a behaviour (bounds the model)
    MaxPasswords,   \* passwords an account has in turn (bounds the model)
    Nobody          \* the user and the token of an idle slot

Tokens == 1 .. MaxTokens

ASSUME SessionAssumption ==
    /\ AdminEmails \subseteq Users
    /\ MaxTokens \in Nat
    /\ MaxPasswords \in Nat
    /\ Nobody \notin Users
    /\ Nobody \notin Tokens

VARIABLES
    role,        \* User.role
    active,      \* User.isActive
    password,    \* which of its passwords an account has
    issued,      \* how many refresh tokens there are
    token,       \* the RefreshToken table
    request,     \* the request each slot handles
    ended,       \* sessions that were signed out or timed out
    raced,       \* sessions a request continued or opened on a stale read
    settled      \* the last password whose change signed the account out

vars == <<role, active, password, issued, token, request, ended, raced, settled>>

account == <<role, active, password>>
Roles == {"ADMIN", "STAFF", "CLIENT"}

----------------------------------------------------------------------------
TokenRow == [user : Users \cup {Nobody},
             session : Tokens \cup {Nobody},  \* the first token of its login
             revoked : BOOLEAN,               \* revokedAt is not null
             age : {"fresh", "idle", "expired"}, \* lastUsedAt and expiresAt
             password : Nat]          \* the account's when its login read it

NoToken == [user |-> Nobody, session |-> Nobody, revoked |-> TRUE,
            age |-> "fresh", password |-> 0]

RequestState == [op : {"idle", "login", "rotate", "timeout", "change"},
                 user : Users \cup {Nobody},
                 token : Tokens \cup {Nobody},
                 live : BOOLEAN,      \* the token was not revoked when read
                 password : Nat]      \* the password read, or written

IdleRequest == [op |-> "idle", user |-> Nobody, token |-> Nobody,
                live |-> FALSE, password |-> 0]

Issued == 1 .. issued

TypeOK ==
    /\ role \in [Users -> Roles]
    /\ active \in [Users -> BOOLEAN]
    /\ password \in [Users -> 0 .. MaxPasswords]
    /\ issued \in 0 .. MaxTokens
    /\ token \in [Tokens -> TokenRow]
    /\ \A t \in Issued : token[t].user \in Users /\ token[t].session \in Issued
    /\ request \in [Slots -> RequestState]
    /\ \A r \in Slots :
          /\ request[r].op # "idle" => request[r].user \in Users
          /\ request[r].op \in {"rotate", "timeout"} =>
                /\ request[r].token \in Issued
                /\ request[r].user = token[request[r].token].user
    /\ ended \subseteq Tokens
    /\ raced \subseteq Tokens
    /\ settled \in [Users -> 0 .. MaxPasswords]

Init ==
    /\ role \in [Users -> Roles]
    /\ active = [u \in Users |-> TRUE]
    /\ password = [u \in Users |-> 0]
    /\ issued = 0
    /\ token = [t \in Tokens |-> NoToken]
    /\ request = [r \in Slots |-> IdleRequest]
    /\ ended = {}
    /\ raced = {}
    /\ settled = [u \in Users |-> 0]

Live(t) == ~token[t].revoked
TokensOf(u) == {t \in Issued : token[t].user = u}
SessionsOf(S) == {token[t].session : t \in S}

Idle(r) == request[r].op = "idle"
Free(r) == request' = [request EXCEPT ![r] = IdleRequest]

----------------------------------------------------------------------------
(* What is written to the token table.                                     *)

(* Mutant: a token that belongs to nobody.                                 *)
OrphanToken(u, session, pw) ==
    [user |-> Nobody, session |-> session, revoked |-> FALSE,
     age |-> "fresh", password |-> pw]

NewToken(u, session, pw) ==
    [user |-> u, session |-> session, revoked |-> FALSE, age |-> "fresh",
     password |-> pw]

(* Mutant: the newest token is taken for the caller's own and spared.      *)
SparedRevoking(S) ==
    [t \in Tokens |-> IF t \in S /\ t # issued
                      THEN [token[t] EXCEPT !.revoked = TRUE] ELSE token[t]]

Revoking(S) ==
    [t \in Tokens |-> IF t \in S THEN [token[t] EXCEPT !.revoked = TRUE]
                                 ELSE token[t]]

SignOut(S) ==
    /\ token' = Revoking(S)
    /\ ended' = ended \cup SessionsOf({t \in S : Live(t)})

(* Mutant: rotation that leaves the token it replaces.                     *)
RotatedOnto(t, new) ==
    [token EXCEPT ![new] = NewToken(token[t].user, token[t].session,
                                    token[t].password)]

(* The $transaction of a refresh: revoke by id, whatever the row says by   *)
(* now, and create the successor.                                          *)
Rotated(t, new) ==
    [token EXCEPT ![t].revoked = TRUE,
                  ![new] = NewToken(token[t].user, token[t].session,
                                    token[t].password)]

----------------------------------------------------------------------------
(* POST /auth/login and /auth/google/exchange: the user is read and        *)
(* checked, then the token is created.  With a second factor the first     *)
(* request reads the password and /auth/2fa/login, which looks at the      *)
(* account again, creates the token: one slot stands for both.             *)

LoginReads(r, u) ==
    /\ Idle(r)
    /\ active[u]
    /\ request' = [request EXCEPT ![r] =
         [op |-> "login", user |-> u, token |-> Nobody, live |-> FALSE,
          password |-> password[u]]]
    /\ UNCHANGED <<account, issued, token, ended, raced, settled>>

LoginCreates(r) ==
    /\ request[r].op = "login"
    /\ issued < MaxTokens
    /\ LET u == request[r].user
           pw == request[r].password
           new == issued + 1
       IN /\ token' = [token EXCEPT ![new] = NewToken(u, new, pw)]
          /\ raced' = IF pw # password[u] THEN raced \cup {new} ELSE raced
    /\ issued' = issued + 1
    /\ Free(r)
    /\ UNCHANGED <<account, ended, settled>>

----------------------------------------------------------------------------
(* POST /auth/refresh.                                                     *)

(* Mutant: revokedAt is not looked at.                                     *)
UnexpiredOnly(t) == token[t].age # "expired"

Acceptable(t) == Live(t) /\ token[t].age # "expired"

(* The token is read and checked; what follows depends on its age.         *)
RefreshReads(r, t) ==
    /\ Idle(r)
    /\ Acceptable(t)
    /\ active[token[t].user]
    /\ request' = [request EXCEPT ![r] =
         [op |-> IF token[t].age = "idle" THEN "timeout" ELSE "rotate",
          user |-> token[t].user, token |-> t, live |-> Live(t),
          password |-> 0]]
    /\ UNCHANGED <<account, issued, token, ended, raced, settled>>

RefreshRotates(r) ==
    /\ request[r].op = "rotate"
    /\ issued < MaxTokens
    /\ LET t == request[r].token IN
         /\ token' = Rotated(t, issued + 1)
         /\ raced' = IF request[r].live /\ ~Live(t)
                     THEN raced \cup {token[t].session} ELSE raced
    /\ issued' = issued + 1
    /\ Free(r)
    /\ UNCHANGED <<account, ended, settled>>

RefreshTimesOut(r) ==
    /\ request[r].op = "timeout"
    /\ SignOut({request[r].token})
    /\ Free(r)
    /\ UNCHANGED <<account, issued, raced, settled>>

----------------------------------------------------------------------------
(* Sign-outs in one statement: logout with a token, "sign out all devices" *)
(* (two routes), the lockdown of the platform, the end of a staff access.  *)

Logout(t) ==
    /\ SignOut({t})
    /\ UNCHANGED <<account, issued, request, raced, settled>>

RevokeAllSessions(u) ==
    /\ SignOut(TokensOf(u))
    /\ UNCHANGED <<account, issued, request, raced, settled>>

Lockdown ==
    /\ SignOut(Issued)
    /\ UNCHANGED <<account, issued, request, raced, settled>>

RevokeStaff(u) ==
    /\ role[u] = "STAFF"
    /\ active' = [active EXCEPT ![u] = FALSE]
    /\ SignOut(TokensOf(u))
    /\ UNCHANGED <<role, password, issued, request, raced, settled>>

----------------------------------------------------------------------------
(* POST /auth/password-change: the old password is verified when the user  *)
(* is read; the new one is written, then the tokens are revoked.           *)

NewPassword(u) == password' = [password EXCEPT ![u] = @ + 1]

ChangeReads(r, u) ==
    /\ Idle(r)
    /\ request' = [request EXCEPT ![r] =
         [op |-> "change", user |-> u, token |-> Nobody, live |-> FALSE,
          password |-> 0]]
    /\ UNCHANGED <<account, issued, token, ended, raced, settled>>

ChangeWrites(r) ==
    /\ request[r].op = "change" /\ request[r].password = 0
    /\ password[request[r].user] < MaxPasswords
    /\ NewPassword(request[r].user)
    /\ request' = [request EXCEPT ![r].password = password[request[r].user] + 1]
    /\ UNCHANGED <<role, active, issued, token, ended, raced, settled>>

ChangeRevokes(r) ==
    /\ request[r].op = "change" /\ request[r].password > 0
    /\ LET u == request[r].user IN
         /\ SignOut(TokensOf(u))
         /\ settled' = [settled EXCEPT ![u] =
                          IF request[r].password > @ THEN request[r].password
                                                     ELSE @]
    /\ Free(r)
    /\ UNCHANGED <<account, issued, raced>>

----------------------------------------------------------------------------
(* Passwords written without a sign-out: /auth/password-reset/confirm, and *)
(* /auth/admin/register, which also puts the account to rest until its     *)
(* code is verified.                                                       *)

ResetPassword(u) ==
    /\ password[u] < MaxPasswords
    /\ NewPassword(u)
    /\ UNCHANGED <<role, active, issued, token, request, ended, raced, settled>>

RegisterAdmin(u) ==
    /\ u \in AdminEmails
    /\ password[u] < MaxPasswords
    /\ NewPassword(u)
    /\ role' = [role EXCEPT ![u] = "ADMIN"]
    /\ active' = [active EXCEPT ![u] = FALSE]
    /\ UNCHANGED <<issued, token, request, ended, raced, settled>>

(* The ways to be active again: the code of an admin, the PIN of a staff   *)
(* request (which brings a password), the provision of a client (which     *)
(* drops it), a Google account found by its address.                       *)
Activate(u, newRole, changed) ==
    /\ active' = [active EXCEPT ![u] = TRUE]
    /\ role' = [role EXCEPT ![u] = newRole]
    /\ IF changed THEN password[u] < MaxPasswords /\ NewPassword(u)
                  ELSE UNCHANGED password
    /\ UNCHANGED <<issued, token, request, ended, raced, settled>>

VerifyAdmin(u) == role[u] = "ADMIN" /\ Activate(u, "ADMIN", FALSE)
VerifyStaff(u) == \E changed \in BOOLEAN : Activate(u, "STAFF", changed)
ProvisionClient(u) == role[u] = "CLIENT" /\ Activate(u, "CLIENT", TRUE)
LinkGoogle(u) == Activate(u, role[u], FALSE)

(* Time passes: a token is not used for the idle timeout, or expires.  The *)
(* age of a revoked token decides nothing.                                 *)
Ages(t, age) ==
    /\ Live(t)
    /\ <<token[t].age, age>> \in {<<"fresh", "idle">>, <<"fresh", "expired">>,
                                  <<"idle", "expired">>}
    /\ token' = [token EXCEPT ![t].age = age]
    /\ UNCHANGED <<account, issued, request, ended, raced, settled>>

(* A query rejects, or the process dies.                                   *)
Abort(r) ==
    /\ ~Idle(r)
    /\ Free(r)
    /\ UNCHANGED <<account, issued, token, ended, raced, settled>>

----------------------------------------------------------------------------
Login(r) == (\E u \in Users : LoginReads(r, u)) \/ LoginCreates(r)

Refresh(r) ==
    \/ \E t \in Issued : RefreshReads(r, t)
    \/ RefreshRotates(r)
    \/ RefreshTimesOut(r)

ChangePassword(r) ==
    \/ \E u \in Users : ChangeReads(r, u)
    \/ ChangeWrites(r)
    \/ ChangeRevokes(r)

Next ==
    \/ \E r \in Slots : Login(r) \/ Refresh(r) \/ ChangePassword(r) \/ Abort(r)
    \/ \E t \in Issued : Logout(t)
    \/ \E u \in Users : RevokeAllSessions(u) \/ RevokeStaff(u)
    \/ Lockdown
    \/ \E u \in Users : ResetPassword(u) \/ RegisterAdmin(u)
    \/ \E u \in Users : VerifyAdmin(u) \/ VerifyStaff(u)
                         \/ ProvisionClient(u) \/ LinkGoogle(u)
    \/ \E t \in Issued, age \in {"idle", "expired"} : Ages(t, age)

Spec == Init /\ [][Next]_vars

----------------------------------------------------------------------------
(* Safety.                                                                 *)

(* However refreshes, logouts and timeouts interleave, one login has one   *)
(* live token at a time, unless a refresh continued it on a token that was *)
(* revoked between its read and its write.                                 *)
OneTokenPerLogin ==
    \A s, t \in Issued :
        /\ Live(s) /\ Live(t)
        /\ token[s].session = token[t].session
        => s = t \/ token[t].session \in raced

(* A session that was logged out, timed out or ended with the others of    *)
(* its account never has a live token again, again unless a refresh was    *)
(* already past its read.                                                  *)
SignedOutStaysOut ==
    \A t \in Issued :
        Live(t) /\ token[t].session \in ended => token[t].session \in raced

(* Once a password change has answered, no session opened under an earlier *)
(* password lives on: the sign-out follows the write of the password, and  *)
(* only a login or a refresh that had already read can outlast it.         *)
OldPasswordSessionsEnd ==
    \A t \in Issued :
        Live(t) /\ token[t].password < settled[token[t].user]
            => token[t].session \in raced

----------------------------------------------------------------------------
(* The tokens as sessions.                                                 *)

(* A login is known by its first token, and its session is open while one  *)
(* of its tokens is live.                                                  *)
LoginOf(s) ==
    IF s \in Issued /\ token[s].session = s
    THEN [user |-> token[s].user, password |-> token[s].password]
    ELSE [user |-> Nobody, password |-> 0]

Logins == INSTANCE LoginSessions WITH
    Sessions <- Tokens,
    login    <- [s \in Tokens |-> LoginOf(s)],
    open     <- SessionsOf({t \in Issued : Live(t)}),
    stale    <- raced

(* To the account, rotation is not there: a login is one session, which    *)
(* opens once, stays open until a sign-out and, when the account has ended *)
(* its sessions, ends with all the others; it goes on after that only as   *)
(* one that a request continued on a stale read.                           *)
TokensActAsSessions == Logins!Spec

----------------------------------------------------------------------------
(* The inductive invariant.                                                *)

(* Only sessions that exist have ended; a sign-out by password change and  *)
(* the passwords that requests and tokens carry are not ahead of the       *)
(* account's; a token that is to be created is no live one.                *)
BookkeepingInv ==
    /\ ended \subseteq Issued
    /\ \A u \in Users : settled[u] <= password[u]
    /\ \A t \in Tokens \ Issued : ~Live(t)
    /\ \A r \in Slots :
          /\ request[r].op = "login" =>
                request[r].password <= password[request[r].user]
          /\ request[r].op = "change" =>
                request[r].password <= password[request[r].user]
          /\ request[r].op = "rotate" => request[r].live

IInv ==
    /\ TypeOK
    /\ BookkeepingInv
    /\ OneTokenPerLogin
    /\ SignedOutStaysOut
    /\ OldPasswordSessionsEnd
=============================================================================
