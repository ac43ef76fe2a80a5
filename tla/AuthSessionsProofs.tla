------------------------- MODULE AuthSessionsProofs -------------------------
(* Proofs about AuthSessions.  The inductive invariant adds to the safety  *)
(* properties what requests in progress know: the passwords they carry are *)
(* not ahead of the account's, and a rotation has read a live token.       *)
EXTENDS AuthSessions, TLAPS

USE SessionAssumption DEF Tokens

----------------------------------------------------------------------------
(* Parts of the invariant.                                                 *)

(* The token table and what is said of its tokens.                         *)
TokensWellFormed ==
    /\ issued \in 0 .. MaxTokens
    /\ token \in [Tokens -> TokenRow]
    /\ \A t \in Issued : token[t].user \in Users /\ token[t].session \in Issued
    /\ \A t \in Tokens \ Issued : ~Live(t)
    /\ ended \subseteq Issued
    /\ raced \subseteq Tokens

AccountsWellFormed ==
    /\ role \in [Users -> Roles]
    /\ active \in [Users -> BOOLEAN]
    /\ password \in [Users -> 0 .. MaxPasswords]
    /\ settled \in [Users -> 0 .. MaxPasswords]
    /\ \A u \in Users : settled[u] <= password[u]

(* What is known of a request.                                             *)
RequestOK(r) ==
    /\ request[r] \in RequestState
    /\ request[r].op # "idle" => request[r].user \in Users
    /\ request[r].op \in {"rotate", "timeout"} =>
          /\ request[r].token \in Issued
          /\ request[r].user = token[request[r].token].user
    /\ request[r].op \in {"login", "change"} =>
          request[r].password <= password[request[r].user]
    /\ request[r].op = "rotate" => request[r].live

Safe == OneTokenPerLogin /\ SignedOutStaysOut /\ OldPasswordSessionsEnd

LEMMA Parts ==
    IInv <=> /\ TokensWellFormed
             /\ AccountsWellFormed
             /\ request \in [Slots -> RequestState]
             /\ \A r \in Slots : RequestOK(r)
             /\ Safe
<1>1. ASSUME issued \in 0 .. MaxTokens
      PROVE  Issued \subseteq Tokens
  BY <1>1 DEF Issued
<1>2. ASSUME IInv
      PROVE  /\ TokensWellFormed
             /\ AccountsWellFormed
             /\ request \in [Slots -> RequestState]
             /\ \A r \in Slots : RequestOK(r)
             /\ Safe
  BY <1>2 DEF IInv, TypeOK, BookkeepingInv, TokensWellFormed,
              AccountsWellFormed, RequestOK, Safe
<1>3. ASSUME TokensWellFormed, AccountsWellFormed, Safe,
             request \in [Slots -> RequestState],
             \A r \in Slots : RequestOK(r)
      PROVE  IInv
  <2>1. TypeOK
    BY <1>1, <1>3 DEF TypeOK, TokensWellFormed, AccountsWellFormed, RequestOK
  <2>2. BookkeepingInv
    BY <1>3 DEF BookkeepingInv, TokensWellFormed, AccountsWellFormed, RequestOK
  <2> QED
    BY <1>3, <2>1, <2>2 DEF IInv, Safe
<1> QED
  BY <1>2, <1>3

(* The same about the next state.                                          *)
LEMMA PartsNext ==
    ASSUME TokensWellFormed', AccountsWellFormed', Safe',
           (request \in [Slots -> RequestState])',
           \A r \in Slots : RequestOK(r)'
    PROVE  IInv'
<1>1. issued' \in 0 .. MaxTokens => Issued' \subseteq Tokens
  BY DEF Issued
<1>2. TypeOK'
  BY <1>1 DEF TypeOK, TokensWellFormed, AccountsWellFormed, RequestOK
<1>3. BookkeepingInv'
  BY DEF BookkeepingInv, TokensWellFormed, AccountsWellFormed, RequestOK
<1> QED
  BY <1>2, <1>3 DEF IInv, Safe

LEMMA IssuedAreTokens ==
    ASSUME TokensWellFormed
    PROVE  Issued \subseteq Tokens
BY DEF TokensWellFormed, Issued

----------------------------------------------------------------------------
(* The three things that happen to the token table: nothing, a sign-out,   *)
(* or a new token.                                                         *)

(* Steps that touch neither the table nor what is said about it.           *)
LEMMA TableKept ==
    ASSUME TokensWellFormed, Safe,
           UNCHANGED <<issued, token, ended, raced, settled>>
    PROVE  TokensWellFormed' /\ Safe'
BY DEF TokensWellFormed, Safe, OneTokenPerLogin, SignedOutStaysOut,
       OldPasswordSessionsEnd, Issued, Live

(* What a sign-out does to a token.                                        *)
LEMMA SignOutRows ==
    ASSUME TokensWellFormed, NEW S \in SUBSET Issued, SignOut(S)
    PROVE  /\ token' \in [Tokens -> TokenRow]
           /\ \A t \in Tokens :
                 /\ token'[t].user = token[t].user
                 /\ token'[t].session = token[t].session
                 /\ token'[t].password = token[t].password
                 /\ Live(t)' => Live(t) /\ t \notin S
<1>1. token \in [Tokens -> TokenRow] /\ token' = Revoking(S)
  BY DEF TokensWellFormed, SignOut
<1>2. \A t \in Tokens :
         token'[t] = IF t \in S THEN [token[t] EXCEPT !.revoked = TRUE]
                                ELSE token[t]
  BY <1>1 DEF Revoking
<1>3. \A t \in Tokens : token'[t] \in TokenRow
  BY <1>1, <1>2 DEF TokenRow
<1>4. token' \in [Tokens -> TokenRow]
  BY <1>1, <1>3 DEF Revoking
<1>5. \A t \in Tokens : /\ token'[t].user = token[t].user
                        /\ token'[t].session = token[t].session
                        /\ token'[t].password = token[t].password
                        /\ token'[t].revoked = (token[t].revoked \/ t \in S)
  BY <1>1, <1>2 DEF TokenRow
<1> QED
  BY <1>4, <1>5 DEF Live

(* The sessions a sign-out ends were those of a live token, and the tokens *)
(* that live on were live before: if one belongs to a session that ends,   *)
(* that session had two live tokens and a stale read behind it.            *)
LEMMA SignOutSafe ==
    ASSUME TokensWellFormed, Safe, NEW S \in SUBSET Issued, SignOut(S),
           UNCHANGED <<issued, raced>>,
           \A t \in Issued \ S : settled'[token[t].user] = settled[token[t].user]
    PROVE  TokensWellFormed' /\ Safe'
<1>1. Issued' = Issued /\ Issued \subseteq Tokens
  BY IssuedAreTokens DEF Issued
<1>2. \A t \in Tokens :
         /\ token'[t].user = token[t].user
         /\ token'[t].session = token[t].session
         /\ token'[t].password = token[t].password
         /\ Live(t)' => Live(t) /\ t \notin S
  BY SignOutRows
<1>3. ended' = ended \cup SessionsOf({t \in S : Live(t)})
  BY DEF SignOut
<1>4. TokensWellFormed'
  <2>1. ended' \subseteq Issued
    BY <1>3 DEF SessionsOf, TokensWellFormed
  <2> QED
    BY <1>1, <1>2, <2>1, SignOutRows DEF TokensWellFormed
<1>5. OneTokenPerLogin'
  <2> SUFFICES ASSUME NEW s \in Issued, NEW t \in Issued, Live(s)', Live(t)',
                      token'[s].session = token'[t].session
               PROVE  s = t \/ token'[t].session \in raced
    BY <1>1 DEF OneTokenPerLogin
  <2> QED
    BY <1>1, <1>2 DEF Safe, OneTokenPerLogin
<1>6. SignedOutStaysOut'
  <2> SUFFICES ASSUME NEW t \in Issued, Live(t)', token'[t].session \in ended'
               PROVE  token'[t].session \in raced
    BY <1>1 DEF SignedOutStaysOut
  <2>1. Live(t) /\ t \notin S /\ token'[t].session = token[t].session
    BY <1>1, <1>2
  <2>2. CASE token[t].session \in ended
    BY <2>1, <2>2 DEF Safe, SignedOutStaysOut
  <2>3. CASE token[t].session \in SessionsOf({s \in S : Live(s)})
    <3>1. PICK s \in S : Live(s) /\ token[s].session = token[t].session
      BY <2>3 DEF SessionsOf
    <3> QED
      BY <2>1, <3>1 DEF Safe, OneTokenPerLogin
  <2> QED
    BY <1>3, <2>1, <2>2, <2>3
<1>7. OldPasswordSessionsEnd'
  BY <1>1, <1>2 DEF Safe, OldPasswordSessionsEnd
<1> QED
  BY <1>4, <1>5, <1>6, <1>7 DEF Safe

(* A token is added that may inherit a session.                            *)
LEMMA NewTokenRow ==
    ASSUME NEW u \in Users, NEW s \in Tokens, NEW pw \in Nat
    PROVE  NewToken(u, s, pw) \in TokenRow
BY DEF NewToken, TokenRow
----------------------------------------------------------------------------
(* The requests that a step leaves alone.                                  *)

LEMMA OthersKept ==
    ASSUME TokensWellFormed, \A q \in Slots : RequestOK(q),
           request \in [Slots -> RequestState],
           Issued \subseteq Issued',
           \A t \in Issued : token'[t].user = token[t].user,
           \A u \in Users : password[u] <= password'[u],
           AccountsWellFormed, AccountsWellFormed',
           NEW q \in Slots, request'[q] = request[q]
    PROVE  RequestOK(q)'
<1>1. RequestOK(q)
  OBVIOUS
<1>2. request[q].op \in {"login", "change"} =>
        request'[q].password <= password'[request'[q].user]
  <2> SUFFICES ASSUME request[q].op \in {"login", "change"}
               PROVE  request[q].password <= password'[request[q].user]
    OBVIOUS
  <2> DEFINE u == request[q].user
  <2>1. u \in Users /\ request[q].password \in Nat
    BY <1>1 DEF RequestOK, RequestState
  <2>2. password[u] \in Nat /\ password'[u] \in Nat
    BY <2>1 DEF AccountsWellFormed
  <2>3. request[q].password <= password[u] /\ password[u] <= password'[u]
    BY <1>1, <2>1 DEF RequestOK
  <2> QED
    BY <2>1, <2>2, <2>3
<1> QED
  BY <1>1, <1>2 DEF RequestOK

(* A step that changes at most the request of one slot.                    *)
LEMMA RequestsKept ==
    ASSUME TokensWellFormed, \A q \in Slots : RequestOK(q),
           request \in [Slots -> RequestState],
           Issued \subseteq Issued',
           \A t \in Issued : token'[t].user = token[t].user,
           \A u \in Users : password[u] <= password'[u],
           AccountsWellFormed, AccountsWellFormed',
           NEW r \in Slots, NEW new \in RequestState,
           request' = [request EXCEPT ![r] = new],
           RequestOK(r)'
    PROVE  /\ (request \in [Slots -> RequestState])'
           /\ \A q \in Slots : RequestOK(q)'
<1>1. (request \in [Slots -> RequestState])'
  OBVIOUS
<1>2. ASSUME NEW q \in Slots
      PROVE  RequestOK(q)'
  <2>1. CASE q = r
    BY <2>1
  <2>2. CASE q # r
    <3>1. request'[q] = request[q]
      BY <2>2
    <3> QED
      BY <3>1, OthersKept
  <2> QED
    BY <2>1, <2>2
<1> QED
  BY <1>1, <1>2

LEMMA IdleIsOK ==
    ASSUME NEW r \in Slots, request \in [Slots -> RequestState], Free(r)
    PROVE  IdleRequest \in RequestState /\ RequestOK(r)'
<1>1. IdleRequest \in RequestState
  BY DEF IdleRequest, RequestState
<1>2. request'[r] = IdleRequest
  BY DEF Free
<1> QED
  BY <1>1, <1>2 DEF RequestOK, IdleRequest
----------------------------------------------------------------------------
(* Steps that change a request and nothing else.                           *)

LEMMA RequestStep ==
    ASSUME IInv, NEW r \in Slots, NEW new \in RequestState,
           request' = [request EXCEPT ![r] = new],
           RequestOK(r)',
           UNCHANGED <<account, issued, token, ended, raced, settled>>
    PROVE  IInv'
<1>1. /\ TokensWellFormed /\ AccountsWellFormed /\ Safe
      /\ request \in [Slots -> RequestState]
      /\ \A q \in Slots : RequestOK(q)
  BY Parts
<1>2. AccountsWellFormed'
  BY <1>1 DEF AccountsWellFormed, account
<1>3. Issued \subseteq Issued' /\ \A t \in Issued : token'[t].user = token[t].user
  BY DEF Issued
<1>4. \A u \in Users : password[u] <= password'[u]
  BY <1>1 DEF AccountsWellFormed, account
<1>5. TokensWellFormed' /\ Safe'
  BY <1>1, TableKept
<1>6. (request \in [Slots -> RequestState])' /\ \A q \in Slots : RequestOK(q)'
  BY <1>1, <1>2, <1>3, <1>4, RequestsKept
<1> QED
  BY <1>2, <1>5, <1>6, PartsNext

LEMMA ReadSteps ==
    ASSUME IInv, NEW r \in Slots
    PROVE  /\ \A u \in Users : LoginReads(r, u) => IInv'
           /\ \A u \in Users : ChangeReads(r, u) => IInv'
           /\ \A t \in Issued : RefreshReads(r, t) => IInv'
           /\ Abort(r) => IInv'
<1>1. /\ TokensWellFormed /\ AccountsWellFormed
      /\ request \in [Slots -> RequestState]
  BY Parts
<1>2. ASSUME NEW u \in Users, LoginReads(r, u)
      PROVE  IInv'
  <2> DEFINE new == [op |-> "login", user |-> u, token |-> Nobody,
                     live |-> FALSE, password |-> password[u]]
  <2>1. password[u] \in Nat /\ password' = password
    BY <1>1, <1>2 DEF AccountsWellFormed, LoginReads, account
  <2>2. new \in RequestState
    BY <2>1 DEF RequestState
  <2>3. request' = [request EXCEPT ![r] = new] /\ request'[r] = new
    BY <1>1, <1>2 DEF LoginReads
  <2>4. RequestOK(r)'
    BY <2>1, <2>2, <2>3 DEF RequestOK
  <2> HIDE DEF new
  <2> QED
    BY <1>2, <2>2, <2>3, <2>4, RequestStep DEF LoginReads
<1>3. ASSUME NEW u \in Users, ChangeReads(r, u)
      PROVE  IInv'
  <2> DEFINE new == [op |-> "change", user |-> u, token |-> Nobody,
                     live |-> FALSE, password |-> 0]
  <2>1. password[u] \in Nat /\ password' = password
    BY <1>1, <1>3 DEF AccountsWellFormed, ChangeReads, account
  <2>2. new \in RequestState
    BY DEF RequestState
  <2>3. request' = [request EXCEPT ![r] = new] /\ request'[r] = new
    BY <1>1, <1>3 DEF ChangeReads
  <2>4. RequestOK(r)'
    BY <2>1, <2>2, <2>3 DEF RequestOK
  <2> HIDE DEF new
  <2> QED
    BY <1>3, <2>2, <2>3, <2>4, RequestStep DEF ChangeReads
<1>4. ASSUME NEW t \in Issued, RefreshReads(r, t)
      PROVE  IInv'
  <2> DEFINE new == [op |-> IF token[t].age = "idle" THEN "timeout"
                                                     ELSE "rotate",
                     user |-> token[t].user, token |-> t, live |-> Live(t),
                     password |-> 0]
  <2>1. t \in Tokens /\ token[t] \in TokenRow /\ token[t].user \in Users
    BY <1>1, IssuedAreTokens DEF TokensWellFormed
  <2>2. Live(t)
    BY <1>4 DEF RefreshReads, Acceptable
  <2>3. new \in RequestState
    BY <2>1, <2>2 DEF RequestState
  <2>4. request' = [request EXCEPT ![r] = new] /\ request'[r] = new
    BY <1>1, <1>4 DEF RefreshReads
  <2>5. token' = token /\ Issued' = Issued
    BY <1>4 DEF RefreshReads, Issued
  <2>6. RequestOK(r)'
    BY <2>1, <2>2, <2>3, <2>4, <2>5 DEF RequestOK
  <2> HIDE DEF new
  <2> QED
    BY <1>4, <2>3, <2>4, <2>6, RequestStep DEF RefreshReads
<1>5. ASSUME Abort(r)
      PROVE  IInv'
  <2>1. IdleRequest \in RequestState /\ RequestOK(r)'
    BY <1>1, <1>5, IdleIsOK DEF Abort
  <2> QED
    BY <1>5, <2>1, RequestStep DEF Abort, Free
<1> QED
  BY <1>2, <1>3, <1>4, <1>5

----------------------------------------------------------------------------
(* Steps that sign out and may change accounts.                            *)

LEMMA SignOutStep ==
    ASSUME IInv, NEW S \in SUBSET Issued, SignOut(S),
           UNCHANGED <<password, issued, raced>>,
           AccountsWellFormed',
           \A t \in Issued \ S : settled'[token[t].user] = settled[token[t].user],
           request' = request \/ \E r \in Slots : Free(r)
    PROVE  IInv'
<1>1. /\ TokensWellFormed /\ AccountsWellFormed /\ Safe
      /\ request \in [Slots -> RequestState]
      /\ \A q \in Slots : RequestOK(q)
  BY Parts
<1>2. TokensWellFormed' /\ Safe'
  BY <1>1, SignOutSafe
<1>3. Issued' = Issued /\ Issued \subseteq Tokens
  BY <1>1, IssuedAreTokens DEF Issued
<1>4. \A t \in Issued : token'[t].user = token[t].user
  BY <1>1, <1>3, SignOutRows
<1>5. \A u \in Users : password[u] <= password'[u]
  BY <1>1 DEF AccountsWellFormed
<1>6. CASE request' = request
  <2>1. \A q \in Slots : RequestOK(q)'
    BY <1>1, <1>3, <1>4, <1>5, <1>6, OthersKept
  <2> QED
    BY <1>1, <1>2, <1>6, <2>1, PartsNext
<1>7. CASE \E r \in Slots : Free(r)
  <2>1. PICK r \in Slots : Free(r)
    BY <1>7
  <2>2. IdleRequest \in RequestState /\ RequestOK(r)'
    BY <1>1, <2>1, IdleIsOK
  <2>3. /\ (request \in [Slots -> RequestState])'
        /\ \A q \in Slots : RequestOK(q)'
    BY <1>1, <1>3, <1>4, <1>5, <2>1, <2>2, RequestsKept DEF Free
  <2> QED
    BY <1>2, <2>3, PartsNext
<1> QED
  BY <1>6, <1>7

LEMMA SignOutSteps ==
    ASSUME IInv
    PROVE  /\ \A t \in Issued : Logout(t) => IInv'
           /\ \A u \in Users : RevokeAllSessions(u) => IInv'
           /\ Lockdown => IInv'
           /\ \A u \in Users : RevokeStaff(u) => IInv'
           /\ \A r \in Slots : RefreshTimesOut(r) => IInv'
<1>1. /\ AccountsWellFormed
      /\ \A q \in Slots : RequestOK(q)
  BY Parts
<1>2. \A u \in Users : TokensOf(u) \in SUBSET Issued
  BY DEF TokensOf
<1>3. ASSUME UNCHANGED <<account, settled>>
      PROVE  AccountsWellFormed'
  BY <1>1, <1>3 DEF AccountsWellFormed, account
<1>4. ASSUME NEW t \in Issued, Logout(t)
      PROVE  IInv'
  BY <1>3, <1>4, SignOutStep, {t} \in SUBSET Issued DEF Logout, account
<1>5. ASSUME NEW u \in Users, RevokeAllSessions(u)
      PROVE  IInv'
  BY <1>2, <1>3, <1>5, SignOutStep DEF RevokeAllSessions, account
<1>6. ASSUME Lockdown
      PROVE  IInv'
  BY <1>3, <1>6, SignOutStep, Issued \in SUBSET Issued DEF Lockdown, account
<1>7. ASSUME NEW u \in Users, RevokeStaff(u)
      PROVE  IInv'
  <2>1. AccountsWellFormed'
    BY <1>1, <1>7 DEF AccountsWellFormed, RevokeStaff
  <2> QED
    BY <1>2, <1>7, <2>1, SignOutStep DEF RevokeStaff
<1>8. ASSUME NEW r \in Slots, RefreshTimesOut(r)
      PROVE  IInv'
  <2>1. {request[r].token} \in SUBSET Issued
    BY <1>1, <1>8 DEF RequestOK, RefreshTimesOut
  <2> QED
    BY <1>3, <1>8, <2>1, SignOutStep DEF RefreshTimesOut, account
<1> QED
  BY <1>4, <1>5, <1>6, <1>7, <1>8

(* The sign-out of a password change covers every token of the account, so *)
(* the passwords it outdates are those of revoked tokens.                  *)
LEMMA ChangeRevokesStep ==
    ASSUME IInv, NEW r \in Slots, ChangeRevokes(r)
    PROVE  IInv'
<1> DEFINE u == request[r].user
<1>1. /\ TokensWellFormed /\ AccountsWellFormed
      /\ request \in [Slots -> RequestState]
      /\ RequestOK(r)
  BY Parts
<1>2. /\ SignOut(TokensOf(u)) /\ Free(r)
      /\ settled' = [settled EXCEPT ![u] =
                       IF request[r].password > @ THEN request[r].password
                                                  ELSE @]
      /\ UNCHANGED <<account, issued, raced>>
  BY DEF ChangeRevokes
<1>3. u \in Users /\ request[r].password \in Nat /\ request[r].password <= password[u]
  BY <1>1 DEF ChangeRevokes, RequestOK, RequestState
<1>4. TokensOf(u) \in SUBSET Issued
  BY DEF TokensOf
<1>5. AccountsWellFormed'
  <2>1. password[u] \in 0 .. MaxPasswords /\ settled[u] \in 0 .. MaxPasswords
    BY <1>1, <1>3 DEF AccountsWellFormed
  <2>2. request[r].password \in 0 .. MaxPasswords
    BY <1>3, <2>1
  <2>3. settled' \in [Users -> 0 .. MaxPasswords]
    BY <1>1, <1>2, <1>3, <2>2 DEF AccountsWellFormed
  <2>4. \A v \in Users : settled'[v] <= password[v]
    BY <1>1, <1>2, <1>3 DEF AccountsWellFormed
  <2> QED
    BY <1>1, <1>2, <2>3, <2>4 DEF AccountsWellFormed, account
<1>6. \A t \in Issued \ TokensOf(u) :
        settled'[token[t].user] = settled[token[t].user]
  BY <1>1, <1>2 DEF TokensOf, TokensWellFormed, AccountsWellFormed
<1>7. UNCHANGED <<password, issued, raced>>
  BY <1>2 DEF account
<1> QED
  BY <1>2, <1>4, <1>5, <1>6, <1>7, SignOutStep
----------------------------------------------------------------------------
(* Steps that write the account: a password only moves on.                 *)

LEMMA PasswordMoves ==
    ASSUME AccountsWellFormed, NEW u \in Users,
           UNCHANGED password \/ (password[u] < MaxPasswords /\ NewPassword(u))
    PROVE  /\ password' \in [Users -> 0 .. MaxPasswords]
           /\ \A v \in Users : password[v] <= password'[v]
<1>1. password \in [Users -> 0 .. MaxPasswords]
  BY DEF AccountsWellFormed
<1>2. CASE UNCHANGED password
  BY <1>1, <1>2
<1>3. CASE password[u] < MaxPasswords /\ NewPassword(u)
  <2>1. /\ password' = [password EXCEPT ![u] = password[u] + 1]
        /\ password[u] + 1 \in 0 .. MaxPasswords
    BY <1>1, <1>3 DEF NewPassword
  <2> QED
    BY <1>1, <2>1
<1> QED
  BY <1>2, <1>3

(* A step that writes the account and, it may be, the request that does so.*)
LEMMA AccountStep ==
    ASSUME IInv, NEW u \in Users,
           UNCHANGED password \/ (password[u] < MaxPasswords /\ NewPassword(u)),
           role' \in [Users -> Roles], active' \in [Users -> BOOLEAN],
           UNCHANGED <<issued, token, ended, raced, settled>>,
           \/ request' = request
           \/ \E r \in Slots, new \in RequestState :
                  /\ request' = [request EXCEPT ![r] = new]
                  /\ RequestOK(r)'
    PROVE  IInv'
<1>1. /\ TokensWellFormed /\ AccountsWellFormed /\ Safe
      /\ request \in [Slots -> RequestState]
      /\ \A q \in Slots : RequestOK(q)
  BY Parts
<1>2. /\ password' \in [Users -> 0 .. MaxPasswords]
      /\ \A v \in Users : password[v] <= password'[v]
  BY <1>1, PasswordMoves
<1>3. \A v \in Users : settled'[v] <= password'[v]
  BY <1>1, <1>2 DEF AccountsWellFormed
<1>4. AccountsWellFormed'
  BY <1>1, <1>2, <1>3 DEF AccountsWellFormed
<1>5. TokensWellFormed' /\ Safe'
  BY <1>1, TableKept
<1>6. Issued \subseteq Issued' /\ \A t \in Issued : token'[t].user = token[t].user
  BY DEF Issued
<1>7. CASE request' = request
  <2>1. \A q \in Slots : RequestOK(q)'
    BY <1>1, <1>2, <1>4, <1>6, <1>7, OthersKept
  <2> QED
    BY <1>1, <1>4, <1>5, <1>7, <2>1, PartsNext
<1>8. CASE \E r \in Slots, new \in RequestState :
              /\ request' = [request EXCEPT ![r] = new]
              /\ RequestOK(r)'
  <2>1. PICK r \in Slots, new \in RequestState :
              /\ request' = [request EXCEPT ![r] = new]
              /\ RequestOK(r)'
    BY <1>8
  <2>2. /\ (request \in [Slots -> RequestState])'
        /\ \A q \in Slots : RequestOK(q)'
    BY <1>1, <1>2, <1>4, <1>6, <2>1, RequestsKept
  <2> QED
    BY <1>4, <1>5, <2>2, PartsNext
<1> QED
  BY <1>7, <1>8

LEMMA AccountSteps ==
    ASSUME IInv, NEW u \in Users
    PROVE  /\ ResetPassword(u) => IInv'
           /\ RegisterAdmin(u) => IInv'
           /\ VerifyAdmin(u) => IInv'
           /\ VerifyStaff(u) => IInv'
           /\ ProvisionClient(u) => IInv'
           /\ LinkGoogle(u) => IInv'
<1>1. role \in [Users -> Roles] /\ active \in [Users -> BOOLEAN]
  BY Parts DEF AccountsWellFormed
<1>2. "ADMIN" \in Roles /\ "STAFF" \in Roles /\ "CLIENT" \in Roles
  BY DEF Roles
<1>3. ASSUME NEW newRole \in Roles, NEW changed \in BOOLEAN,
             Activate(u, newRole, changed)
      PROVE  IInv'
  <2>1. /\ role' \in [Users -> Roles] /\ active' \in [Users -> BOOLEAN]
        /\ UNCHANGED <<issued, token, ended, raced, settled>>
        /\ request' = request
    BY <1>1, <1>3 DEF Activate
  <2>2. UNCHANGED password \/ (password[u] < MaxPasswords /\ NewPassword(u))
    BY <1>3 DEF Activate
  <2> QED
    BY <2>1, <2>2, AccountStep
<1>4. ResetPassword(u) => IInv'
  BY <1>1, AccountStep DEF ResetPassword
<1>5. ASSUME RegisterAdmin(u)
      PROVE  IInv'
  <2>1. role' \in [Users -> Roles] /\ active' \in [Users -> BOOLEAN]
    BY <1>1, <1>2, <1>5 DEF RegisterAdmin
  <2> QED
    BY <1>5, <2>1, AccountStep DEF RegisterAdmin
<1>6. VerifyAdmin(u) => IInv'
  BY <1>2, <1>3 DEF VerifyAdmin
<1>7. VerifyStaff(u) => IInv'
  BY <1>2, <1>3 DEF VerifyStaff
<1>8. ProvisionClient(u) => IInv'
  BY <1>2, <1>3 DEF ProvisionClient
<1>9. role[u] \in Roles
  BY <1>1
<1>10. LinkGoogle(u) => IInv'
  BY <1>3, <1>9 DEF LinkGoogle
<1> QED
  BY <1>4, <1>5, <1>6, <1>7, <1>8, <1>10

LEMMA ChangeWritesStep ==
    ASSUME IInv, NEW r \in Slots, ChangeWrites(r)
    PROVE  IInv'
<1> DEFINE u == request[r].user
           new == [request[r] EXCEPT !.password = password[u] + 1]
<1>1. /\ AccountsWellFormed /\ RequestOK(r)
      /\ request \in [Slots -> RequestState]
  BY Parts
<1>2. /\ request[r].op = "change" /\ password[u] < MaxPasswords /\ NewPassword(u)
      /\ request' = [request EXCEPT ![r].password = password[u] + 1]
      /\ UNCHANGED <<role, active, issued, token, ended, raced, settled>>
  BY DEF ChangeWrites
<1>3. request[r] \in RequestState /\ u \in Users
  BY <1>1, <1>2 DEF RequestOK
<1>4. password[u] \in Nat /\ password'[u] = password[u] + 1
  BY <1>1, <1>2, <1>3 DEF AccountsWellFormed, NewPassword
<1>5. new \in RequestState
  BY <1>3, <1>4 DEF RequestState
<1>6. request' = [request EXCEPT ![r] = new] /\ request'[r] = new
  BY <1>1, <1>2
<1>7. /\ new.op = "change" /\ new.user = u /\ new.password = password[u] + 1
  BY <1>2, <1>3 DEF RequestState
<1> HIDE DEF new
<1>8. RequestOK(r)'
  <2>1. request'[r].password <= password'[request'[r].user]
    BY <1>4, <1>6, <1>7
  <2> QED
    BY <1>3, <1>5, <1>6, <1>7, <2>1 DEF RequestOK
<1>9. role' \in [Users -> Roles] /\ active' \in [Users -> BOOLEAN]
  BY <1>1, <1>2 DEF AccountsWellFormed
<1>10. \E q \in Slots, n \in RequestState :
          request' = [request EXCEPT ![q] = n] /\ RequestOK(q)'
  BY <1>5, <1>6, <1>8
<1> QED
  BY <1>2, <1>3, <1>9, <1>10, AccountStep

----------------------------------------------------------------------------
(* Time passes for a token.                                                *)

LEMMA AgesStep ==
    ASSUME IInv, NEW t \in Issued, NEW age \in {"idle", "expired"}, Ages(t, age)
    PROVE  IInv'
<1>1. /\ TokensWellFormed /\ AccountsWellFormed /\ Safe
      /\ request \in [Slots -> RequestState]
      /\ \A q \in Slots : RequestOK(q)
  BY Parts
<1>2. /\ token' = [token EXCEPT ![t].age = age]
      /\ UNCHANGED <<account, issued, request, ended, raced, settled>>
  BY DEF Ages
<1>3. token \in [Tokens -> TokenRow] /\ t \in Tokens
  BY <1>1, IssuedAreTokens DEF TokensWellFormed
<1>4. token' \in [Tokens -> TokenRow]
  BY <1>2, <1>3 DEF TokenRow
<1>5. \A s \in Tokens : /\ token'[s].user = token[s].user
                        /\ token'[s].session = token[s].session
                        /\ token'[s].password = token[s].password
                        /\ Live(s)' = Live(s)
  BY <1>2, <1>3 DEF TokenRow, Live
<1>6. Issued' = Issued /\ Issued \subseteq Tokens
  BY <1>1, <1>2, IssuedAreTokens DEF Issued
<1>7. TokensWellFormed'
  BY <1>1, <1>2, <1>4, <1>5, <1>6 DEF TokensWellFormed
<1>8. Safe'
  <2>1. OneTokenPerLogin'
    <3> SUFFICES ASSUME NEW s \in Issued, NEW q \in Issued, Live(s)', Live(q)',
                        token'[s].session = token'[q].session
                 PROVE  s = q \/ token'[q].session \in raced
      BY <1>2, <1>6 DEF OneTokenPerLogin
    <3> QED
      BY <1>1, <1>5, <1>6 DEF Safe, OneTokenPerLogin
  <2>2. SignedOutStaysOut'
    BY <1>1, <1>2, <1>5, <1>6 DEF Safe, SignedOutStaysOut
  <2>3. OldPasswordSessionsEnd'
    BY <1>1, <1>2, <1>5, <1>6 DEF Safe, OldPasswordSessionsEnd
  <2> QED
    BY <2>1, <2>2, <2>3 DEF Safe
<1>9. AccountsWellFormed'
  BY <1>1, <1>2 DEF AccountsWellFormed, account
<1>10. \A q \in Slots : RequestOK(q)'
  BY <1>1, <1>2, <1>5, <1>6 DEF RequestOK, account
<1> QED
  BY <1>1, <1>2, <1>7, <1>8, <1>9, <1>10, PartsNext
----------------------------------------------------------------------------
(* Steps that create a token: it is the next one, for a user, and belongs  *)
(* to a session of its own or to that of the token it replaces.            *)

LEMMA CreateStep ==
    ASSUME IInv, NEW r \in Slots, Free(r),
           issued < MaxTokens, issued' = issued + 1,
           NEW row \in TokenRow, row.user \in Users,
           NEW revoked \in SUBSET Issued,
           row.session \in Issued \cup {issued + 1},
           token' \in [Tokens -> TokenRow],
           \A t \in Tokens \ {issued + 1} :
              /\ token'[t].user = token[t].user
              /\ token'[t].session = token[t].session
              /\ token'[t].password = token[t].password
              /\ Live(t)' => Live(t) /\ t \notin revoked,
           token'[issued + 1] = row,
           UNCHANGED <<account, ended, settled>>,
           raced \subseteq raced', raced' \subseteq raced \cup {row.session},
           \/ row.session \in raced'
           \/ /\ \A t \in Issued \ revoked :
                    ~(Live(t) /\ token[t].session = row.session)
              /\ row.session \notin ended
              /\ row.password >= settled[row.user]
    PROVE  IInv'
<1> DEFINE new == issued + 1
<1>1. /\ TokensWellFormed /\ AccountsWellFormed /\ Safe
      /\ request \in [Slots -> RequestState]
      /\ \A q \in Slots : RequestOK(q)
  BY Parts
<1>2. /\ issued \in Nat /\ new \in Tokens /\ new \notin Issued
      /\ Issued' = Issued \cup {new} /\ Issued \subseteq Tokens
  BY <1>1, IssuedAreTokens DEF TokensWellFormed, Issued
<1>3. AccountsWellFormed'
  BY <1>1 DEF AccountsWellFormed, account
<1>4. TokensWellFormed'
  <2>1. \A t \in Issued' : token'[t].user \in Users /\ token'[t].session \in Issued'
    BY <1>1, <1>2 DEF TokensWellFormed
  <2>2. \A t \in Tokens \ Issued' : ~Live(t)'
    BY <1>1, <1>2 DEF TokensWellFormed
  <2>3. ended' \subseteq Issued' /\ raced' \subseteq Tokens
    BY <1>1, <1>2 DEF TokensWellFormed
  <2>4. issued' \in 0 .. MaxTokens
    BY <1>2
  <2> QED
    BY <2>1, <2>2, <2>3, <2>4 DEF TokensWellFormed
<1>5. \A t \in Issued : /\ Live(t)' => Live(t) /\ t \notin revoked
                        /\ token'[t].user = token[t].user
                        /\ token'[t].session = token[t].session
                        /\ token'[t].password = token[t].password
  BY <1>2
<1>6. \A t \in Issued : Live(t)' /\ token'[t].session = row.session
                           => row.session \in raced'
  BY <1>5
<1>7. OneTokenPerLogin'
  <2> SUFFICES ASSUME NEW s \in Issued', NEW t \in Issued', Live(s)', Live(t)',
                      token'[s].session = token'[t].session
               PROVE  s = t \/ token'[t].session \in raced'
    BY DEF OneTokenPerLogin
  <2>1. CASE s \in Issued /\ t \in Issued
    BY <1>1, <1>5, <2>1 DEF Safe, OneTokenPerLogin
  <2>2. CASE s = new \/ t = new
    BY <1>2, <1>6, <2>2
  <2> QED
    BY <1>2, <2>1, <2>2
<1>8. SignedOutStaysOut'
  <2> SUFFICES ASSUME NEW t \in Issued', Live(t)', token'[t].session \in ended
               PROVE  token'[t].session \in raced'
    BY DEF SignedOutStaysOut
  <2>1. CASE t \in Issued
    BY <1>1, <1>5, <2>1 DEF Safe, SignedOutStaysOut
  <2>2. CASE t = new
    BY <2>2
  <2> QED
    BY <1>2, <2>1, <2>2
<1>9. OldPasswordSessionsEnd'
  <2> SUFFICES ASSUME NEW t \in Issued', Live(t)',
                      token'[t].password < settled[token'[t].user]
               PROVE  token'[t].session \in raced'
    BY DEF OldPasswordSessionsEnd
  <2>1. CASE t \in Issued
    BY <1>1, <1>5, <2>1 DEF Safe, OldPasswordSessionsEnd
  <2>2. CASE t = new
    <3>1. row.password \in Nat /\ settled[row.user] \in Nat
      BY <1>1 DEF TokenRow, AccountsWellFormed
    <3> QED
      BY <2>2, <3>1
  <2> QED
    BY <1>2, <2>1, <2>2
<1>10. IdleRequest \in RequestState /\ RequestOK(r)'
  BY <1>1, IdleIsOK
<1>11. \A u \in Users : password[u] <= password'[u]
  BY <1>1 DEF AccountsWellFormed, account
<1>12. /\ (request \in [Slots -> RequestState])'
       /\ \A q \in Slots : RequestOK(q)'
  BY <1>1, <1>2, <1>3, <1>5, <1>10, <1>11, RequestsKept DEF Free
<1> QED
  BY <1>3, <1>4, <1>7, <1>8, <1>9, <1>12, PartsNext DEF Safe

LEMMA LoginCreatesStep ==
    ASSUME IInv, NEW r \in Slots, LoginCreates(r)
    PROVE  IInv'
<1> DEFINE u == request[r].user
           pw == request[r].password
           new == issued + 1
           row == NewToken(u, new, pw)
<1>1. /\ TokensWellFormed /\ AccountsWellFormed /\ RequestOK(r)
  BY Parts
<1>2. /\ request[r].op = "login" /\ issued < MaxTokens /\ issued' = issued + 1
      /\ token' = [token EXCEPT ![new] = row]
      /\ raced' = IF pw # password[u] THEN raced \cup {new} ELSE raced
      /\ Free(r) /\ UNCHANGED <<account, ended, settled>>
  BY DEF LoginCreates
<1>3. /\ issued \in Nat /\ new \in Tokens /\ new \notin Issued
      /\ Issued \subseteq Tokens
  BY <1>1, <1>2, IssuedAreTokens DEF TokensWellFormed, Issued
<1>4. u \in Users /\ pw \in Nat
  BY <1>1, <1>2 DEF RequestOK, RequestState
<1>5. /\ row \in TokenRow
      /\ row.user = u /\ row.session = new /\ row.password = pw
  BY <1>3, <1>4 DEF TokenRow, NewToken
<1>6. /\ token' \in [Tokens -> TokenRow] /\ token'[new] = row
      /\ \A t \in Tokens \ {new} : token'[t] = token[t]
  BY <1>1, <1>2, <1>3, <1>5 DEF TokensWellFormed
<1>7. \A t \in Tokens \ {new} : Live(t)' = Live(t)
  BY <1>6 DEF Live
<1>8. /\ \A t \in Issued : token[t].session # new
      /\ new \notin ended
  BY <1>1, <1>3 DEF TokensWellFormed
<1>9. pw = password[u] => pw >= settled[u]
  BY <1>1, <1>4 DEF AccountsWellFormed
<1> HIDE DEF row
<1> QED
  BY <1>2, <1>3, <1>4, <1>5, <1>6, <1>7, <1>8, <1>9, CreateStep,
     {} \in SUBSET Issued

(* If the token that is replaced is live, it was the one live token of its *)
(* session and its successor takes over what holds of it; if not, it was   *)
(* revoked after the request had read it.                                  *)
LEMMA RefreshRotatesStep ==
    ASSUME IInv, NEW r \in Slots, RefreshRotates(r)
    PROVE  IInv'
<1> DEFINE old == request[r].token
           new == issued + 1
           row == NewToken(token[old].user, token[old].session,
                           token[old].password)
<1>1. /\ TokensWellFormed /\ AccountsWellFormed /\ RequestOK(r) /\ Safe
  BY Parts
<1>2. /\ request[r].op = "rotate" /\ issued < MaxTokens /\ issued' = issued + 1
      /\ token' = [token EXCEPT ![old].revoked = TRUE, ![new] = row]
      /\ raced' = IF request[r].live /\ ~Live(old)
                  THEN raced \cup {token[old].session} ELSE raced
      /\ Free(r) /\ UNCHANGED <<account, ended, settled>>
  BY DEF RefreshRotates, Rotated
<1>3. /\ issued \in Nat /\ new \in Tokens /\ new \notin Issued
      /\ Issued \subseteq Tokens
  BY <1>1, <1>2, IssuedAreTokens DEF TokensWellFormed, Issued
<1>4. old \in Issued /\ old \in Tokens /\ old # new /\ request[r].live
  BY <1>1, <1>2, <1>3 DEF RequestOK
<1>5. /\ token[old] \in TokenRow /\ token[old].user \in Users
      /\ token[old].session \in Issued /\ token[old].password \in Nat
  BY <1>1, <1>4 DEF TokensWellFormed, TokenRow
<1>6. /\ row \in TokenRow /\ row.user = token[old].user
      /\ row.session = token[old].session
      /\ row.password = token[old].password
  BY <1>3, <1>5 DEF TokenRow, NewToken
<1> HIDE DEF row
<1>7. /\ token' \in [Tokens -> TokenRow] /\ token'[new] = row
      /\ token'[old] = [token[old] EXCEPT !.revoked = TRUE]
      /\ \A t \in Tokens \ {new, old} : token'[t] = token[t]
  <2>1. token \in [Tokens -> TokenRow]
    BY <1>1 DEF TokensWellFormed
  <2>2. [token[old] EXCEPT !.revoked = TRUE] \in TokenRow
    BY <1>5 DEF TokenRow
  <2> QED
    BY <1>2, <1>3, <1>4, <1>6, <2>1, <2>2
<1>8. \A t \in Tokens \ {new} :
        /\ token'[t].user = token[t].user
        /\ token'[t].session = token[t].session
        /\ token'[t].password = token[t].password
        /\ Live(t)' => Live(t) /\ t \notin {old}
  BY <1>5, <1>7 DEF Live, TokenRow
<1>9. CASE Live(old)
  <2>1. raced' = raced
    BY <1>2, <1>9
  <2>2. CASE token[old].session \in raced
    BY <1>2, <1>3, <1>4, <1>5, <1>6, <1>7, <1>8, <2>1, <2>2, CreateStep,
       {old} \in SUBSET Issued
  <2>3. CASE token[old].session \notin raced
    <3>1. \A t \in Issued \ {old} :
             ~(Live(t) /\ token[t].session = token[old].session)
      BY <1>1, <1>4, <1>9, <2>3 DEF Safe, OneTokenPerLogin
    <3>2. token[old].session \notin ended
      BY <1>1, <1>4, <1>9, <2>3 DEF Safe, SignedOutStaysOut
    <3>3. token[old].password >= settled[token[old].user]
      <4>1. ~(token[old].password < settled[token[old].user])
        BY <1>1, <1>4, <1>9, <2>3 DEF Safe, OldPasswordSessionsEnd
      <4>2. settled[token[old].user] \in Nat
        BY <1>1, <1>5 DEF AccountsWellFormed
      <4> QED
        BY <1>5, <4>1, <4>2
    <3>4. /\ \A t \in Issued \ {old} :
                ~(Live(t) /\ token[t].session = row.session)
          /\ row.session \notin ended
          /\ row.password >= settled[row.user]
      BY <1>6, <3>1, <3>2, <3>3
    <3>5. /\ raced \subseteq raced' /\ raced' \subseteq raced \cup {row.session}
          /\ row.user \in Users /\ row.session \in Issued \cup {new}
          /\ {old} \in SUBSET Issued
      BY <1>4, <1>5, <1>6, <2>1
    <3> QED
      BY <1>2, <1>6, <1>7, <1>8, <3>4, <3>5, CreateStep
  <2> QED
    BY <2>2, <2>3
<1>10. CASE ~Live(old)
  <2>1. raced' = raced \cup {token[old].session}
    BY <1>2, <1>4, <1>10
  <2> QED
    BY <1>2, <1>3, <1>4, <1>5, <1>6, <1>7, <1>8, <2>1, CreateStep,
       {old} \in SUBSET Issued
<1> QED
  BY <1>9, <1>10

----------------------------------------------------------------------------
(* The theorems.                                                           *)

(* Whatever requests interleave, what they carry is never ahead of the     *)
(* account and every live token is accounted for (auth.ts, all routes that *)
(* write refresh tokens or passwords).                                     *)
THEOREM Inductive == Spec => []IInv
<1>1. Init => IInv
  <2> SUFFICES ASSUME Init PROVE IInv
    OBVIOUS
  <2>1. Issued = {}
    BY DEF Init, Issued
  <2>2. NoToken \in TokenRow /\ IdleRequest \in RequestState
    BY DEF NoToken, TokenRow, IdleRequest, RequestState
  <2>3. TypeOK
    BY <2>1, <2>2 DEF Init, TypeOK, IdleRequest
  <2>4. BookkeepingInv
    BY <2>1 DEF Init, BookkeepingInv, Live, NoToken, IdleRequest
  <2>5. OneTokenPerLogin /\ SignedOutStaysOut /\ OldPasswordSessionsEnd
    BY <2>1 DEF OneTokenPerLogin, SignedOutStaysOut, OldPasswordSessionsEnd
  <2> QED
    BY <2>3, <2>4, <2>5 DEF IInv
<1>2. IInv /\ [Next]_vars => IInv'
  <2> SUFFICES ASSUME IInv, [Next]_vars
               PROVE  IInv'
    OBVIOUS
  <2>1. ASSUME NEW r \in Slots, Login(r)
        PROVE  IInv'
    BY <2>1, ReadSteps, LoginCreatesStep DEF Login
  <2>2. ASSUME NEW r \in Slots, Refresh(r)
        PROVE  IInv'
    BY <2>2, ReadSteps, SignOutSteps, RefreshRotatesStep DEF Refresh
  <2>3. ASSUME NEW r \in Slots, ChangePassword(r)
        PROVE  IInv'
    BY <2>3, ReadSteps, ChangeWritesStep, ChangeRevokesStep DEF ChangePassword
  <2>4. ASSUME NEW r \in Slots, Abort(r)
        PROVE  IInv'
    BY <2>4, ReadSteps
  <2>5. ASSUME NEW t \in Issued, Logout(t)
        PROVE  IInv'
    BY <2>5, SignOutSteps
  <2>6. ASSUME NEW u \in Users, RevokeAllSessions(u) \/ RevokeStaff(u)
        PROVE  IInv'
    BY <2>6, SignOutSteps
  <2>7. ASSUME Lockdown
        PROVE  IInv'
    BY <2>7, SignOutSteps
  <2>8. ASSUME NEW u \in Users,
               \/ ResetPassword(u) \/ RegisterAdmin(u) \/ VerifyAdmin(u)
               \/ VerifyStaff(u) \/ ProvisionClient(u) \/ LinkGoogle(u)
        PROVE  IInv'
    BY <2>8, AccountSteps
  <2>9. ASSUME NEW t \in Issued, NEW age \in {"idle", "expired"}, Ages(t, age)
        PROVE  IInv'
    BY <2>9, AgesStep
  <2>10. CASE UNCHANGED vars
    BY <2>10, Zenon DEF vars, IInv, TypeOK, BookkeepingInv, OneTokenPerLogin,
                 SignedOutStaysOut, OldPasswordSessionsEnd, Issued, Live
  <2> QED
    BY <2>1, <2>2, <2>3, <2>4, <2>5, <2>6, <2>7, <2>8, <2>9, <2>10 DEF Next
<1> QED
  BY <1>1, <1>2, PTL DEF Spec

(* Accounts, tokens and requests keep their form.                          *)
THEOREM TypeCorrect == Spec => []TypeOK
<1>1. IInv => TypeOK
  BY DEF IInv
<1> QED
  BY <1>1, Inductive, PTL

(* The rotation of POST /auth/refresh leaves one live token per login,     *)
(* unless the token it had read was revoked meanwhile.                     *)
THEOREM OneTokenEach == Spec => []OneTokenPerLogin
<1>1. IInv => OneTokenPerLogin
  BY DEF IInv
<1> QED
  BY <1>1, Inductive, PTL

(* Logout, idle timeout and the sign-outs of all devices are for good, with*)
(* the same exception.                                                     *)
THEOREM EndedStays == Spec => []SignedOutStaysOut
<1>1. IInv => SignedOutStaysOut
  BY DEF IInv
<1> QED
  BY <1>1, Inductive, PTL

(* POST /auth/password-change ends the sessions of the passwords before.   *)
THEOREM OldSessionsEnd == Spec => []OldPasswordSessionsEnd
<1>1. IInv => OldPasswordSessionsEnd
  BY DEF IInv
<1> QED
  BY <1>1, Inductive, PTL

----------------------------------------------------------------------------
(* The tokens implement LoginSessions.                                     *)

(* A token belongs to the user, and was opened under the password, of the  *)
(* first token of its session.                                             *)
RootsOK ==
    \A t \in Issued :
        LET s == token[t].session IN
        /\ token[s].session = s
        /\ token[s].user = token[t].user
        /\ token[s].password = token[t].password

(* What the account sees of its tokens.                                    *)
Shown == [s \in Tokens |-> LoginOf(s)]
OpenNow == SessionsOf({t \in Issued : Live(t)})
Seen == <<Shown, OpenNow, password, settled, raced>>

SameOwners ==
    \A t \in Tokens : /\ token'[t].user = token[t].user
                      /\ token'[t].session = token[t].session
                      /\ token'[t].password = token[t].password

LEMMA RootsKept ==
    ASSUME TokensWellFormed, RootsOK, issued' = issued, SameOwners
    PROVE  RootsOK' /\ Shown' = Shown
<1>1. Issued' = Issued /\ Issued \subseteq Tokens
  BY IssuedAreTokens DEF Issued
<1>2. \A t \in Issued : token[t].session \in Tokens
  BY <1>1 DEF TokensWellFormed
<1>3. RootsOK'
  <2> SUFFICES ASSUME NEW t \in Issued'
               PROVE  LET s == token'[t].session IN
                      /\ token'[s].session = s
                      /\ token'[s].user = token'[t].user
                      /\ token'[s].password = token'[t].password
    BY DEF RootsOK
  <2> DEFINE s == token[t].session
  <2>1. t \in Issued /\ t \in Tokens /\ s \in Tokens
    BY <1>1, <1>2
  <2>2. token[s].session = s /\ token[s].user = token[t].user
        /\ token[s].password = token[t].password
    BY <2>1 DEF RootsOK
  <2>3. /\ token'[t].user = token[t].user /\ token'[t].session = s
        /\ token'[t].password = token[t].password
        /\ token'[s].user = token[s].user /\ token'[s].session = token[s].session
        /\ token'[s].password = token[s].password
    BY <2>1 DEF SameOwners
  <2> QED
    BY <2>2, <2>3
<1>4. \A s \in Tokens : LoginOf(s)' = LoginOf(s)
  BY <1>1 DEF LoginOf, SameOwners
<1> QED
  BY <1>3, <1>4 DEF Shown

LEMMA OpenMeans ==
    \A s : s \in OpenNow <=> \E t \in Issued : Live(t) /\ token[t].session = s
BY DEF OpenNow, SessionsOf

(* A session that exists is shown with the user of all of its tokens.      *)
LEMMA Owners ==
    ASSUME TokensWellFormed, RootsOK, NEW t \in Issued
    PROVE  /\ token[t].session \in Tokens
           /\ Shown[token[t].session] = [user |-> token[t].user,
                                         password |-> token[t].password]
           /\ Shown[token[t].session].user = token[t].user
           /\ Shown[token[t].session] # [user |-> Nobody, password |-> 0]
<1>1. token[t].session \in Issued /\ token[t].session \in Tokens
  BY IssuedAreTokens DEF TokensWellFormed
<1>2. token[t].user \in Users
  BY DEF TokensWellFormed
<1> QED
  BY <1>1, <1>2 DEF Shown, LoginOf, RootsOK

(* What a sign-out closes: the sessions all of whose live tokens it        *)
(* revokes.                                                                *)
LEMMA SignOutShown ==
    ASSUME TokensWellFormed, RootsOK, NEW S \in SUBSET Issued, SignOut(S),
           issued' = issued
    PROVE  /\ RootsOK' /\ Shown' = Shown
           /\ \A s : s \in OpenNow' <=>
                 \E t \in Issued \ S : Live(t) /\ token[t].session = s
<1>1. Issued' = Issued /\ Issued \subseteq Tokens
  BY IssuedAreTokens DEF Issued
<1>2. SameOwners
  BY SignOutRows DEF SameOwners
<1>3. \A t \in Tokens : Live(t)' <=> Live(t) /\ t \notin S
  <2>1. token \in [Tokens -> TokenRow] /\ token' = Revoking(S)
    BY DEF TokensWellFormed, SignOut
  <2>2. \A t \in Tokens :
           token'[t].revoked = (token[t].revoked \/ t \in S)
    BY <2>1 DEF Revoking, TokenRow
  <2> QED
    BY <2>2 DEF Live
<1>4. \A s : s \in OpenNow' <=>
              \E t \in Issued' : Live(t)' /\ token'[t].session = s
  BY DEF OpenNow, SessionsOf
<1> QED
  BY <1>1, <1>2, <1>3, <1>4, RootsKept DEF SameOwners

LEMMA SignOutTokenShown ==
    ASSUME TokensWellFormed, RootsOK, NEW t \in Issued, SignOut({t}),
           UNCHANGED <<password, issued, raced, settled>>
    PROVE  RootsOK' /\ (Logins!Next \/ UNCHANGED Seen)
<1> DEFINE s == token[t].session
<1>1. s \in Tokens /\ {t} \in SUBSET Issued
  BY Owners
<1>2. /\ RootsOK' /\ Shown' = Shown
      /\ \A q : q \in OpenNow' <=>
            \E u \in Issued \ {t} : Live(u) /\ token[u].session = q
  BY <1>1, SignOutShown
<1>3. OpenNow' = OpenNow \/ OpenNow' = OpenNow \ {s}
  <2>1. OpenNow' \subseteq OpenNow /\ OpenNow \ {s} \subseteq OpenNow'
    BY <1>2, OpenMeans
  <2> QED
    BY <2>1
<1>4. CASE OpenNow' = OpenNow
  BY <1>2, <1>4 DEF Seen
<1>5. CASE OpenNow' = OpenNow \ {s}
  <2>1. Logins!SignOut({s})
    BY <1>2, <1>5 DEF Logins!SignOut, Shown, OpenNow
  <2> QED
    BY <1>1, <1>2, <2>1 DEF Logins!Next
<1> QED
  BY <1>2, <1>3, <1>4, <1>5

(* The sign-out of an account closes its sessions, and no other.           *)
LEMMA SignOutUserShown ==
    ASSUME TokensWellFormed, RootsOK, NEW u \in Users, SignOut(TokensOf(u)),
           issued' = issued
    PROVE  /\ RootsOK' /\ Shown' = Shown
           /\ OpenNow' = OpenNow \ Logins!SessionsOf(u)
<1>1. TokensOf(u) \in SUBSET Issued
  BY DEF TokensOf
<1>2. /\ RootsOK' /\ Shown' = Shown
      /\ \A s : s \in OpenNow' <=>
            \E t \in Issued \ TokensOf(u) : Live(t) /\ token[t].session = s
  BY <1>1, SignOutShown
<1>3. Logins!SessionsOf(u) = {s \in Tokens : Shown[s].user = u}
  BY DEF Logins!SessionsOf, Shown
<1>4. \A t \in Issued : t \in TokensOf(u) <=>
                          token[t].session \in Logins!SessionsOf(u)
  BY <1>3, Owners DEF TokensOf
<1> QED
  BY <1>2, <1>4, OpenMeans

LEMMA SignOutAllShown ==
    ASSUME TokensWellFormed, RootsOK, Lockdown
    PROVE  RootsOK' /\ Logins!Next
<1>1. /\ RootsOK' /\ Shown' = Shown
      /\ OpenNow' = {}
  BY SignOutShown, Issued \in SUBSET Issued DEF Lockdown
<1>2. OpenNow \subseteq Tokens
  BY OpenMeans, Owners
<1>3. Logins!SignOut(Tokens)
  BY <1>1, <1>2 DEF Logins!SignOut, Shown, OpenNow, Lockdown, account
<1> QED
  BY <1>1, <1>3 DEF Logins!Next

(* A step that leaves the table, or only lets a token age.                 *)
LEMMA TableShown ==
    ASSUME TokensWellFormed, RootsOK, UNCHANGED <<issued, token>>
    PROVE  RootsOK' /\ UNCHANGED <<Shown, OpenNow>>
<1>1. Issued' = Issued /\ SameOwners
  BY DEF Issued, SameOwners
<1>2. UNCHANGED OpenNow
  BY <1>1 DEF OpenNow, SessionsOf, Live
<1> QED
  BY <1>1, <1>2, RootsKept

LEMMA AgesShown ==
    ASSUME TokensWellFormed, RootsOK, NEW t \in Issued,
           NEW age \in {"idle", "expired"}, Ages(t, age)
    PROVE  RootsOK' /\ UNCHANGED Seen
<1>1. Issued' = Issued /\ Issued \subseteq Tokens
  BY IssuedAreTokens DEF Issued, Ages
<1>2. \A q \in Tokens : /\ token'[q].user = token[q].user
                        /\ token'[q].session = token[q].session
                        /\ token'[q].password = token[q].password
                        /\ token'[q].revoked = token[q].revoked
  BY <1>1 DEF Ages, TokensWellFormed, TokenRow
<1>3. \A s : s \in OpenNow' <=> s \in OpenNow
  <2>1. \A q \in Issued : Live(q)' <=> Live(q)
    BY <1>1, <1>2 DEF Live
  <2>2. \A q \in Issued : token'[q].session = token[q].session
    BY <1>1, <1>2
  <2>3. \A s : s \in OpenNow' <=>
               \E q \in Issued' : Live(q)' /\ token'[q].session = s
    BY DEF OpenNow, SessionsOf
  <2> QED
    BY <1>1, <2>1, <2>2, <2>3, OpenMeans
<1>4. OpenNow' = OpenNow
  BY <1>3
<1> QED
  BY <1>2, <1>4, RootsKept DEF Ages, account, Seen, SameOwners

----------------------------------------------------------------------------
(* Tokens that are created.                                                *)

LEMMA LoginShown ==
    ASSUME IInv, RootsOK, NEW r \in Slots, LoginCreates(r)
    PROVE  RootsOK' /\ Logins!Next
<1> PICK new : new = issued + 1
  OBVIOUS
<1> DEFINE u == request[r].user
           pw == request[r].password
           row == NewToken(u, new, pw)
<1>1. /\ TokensWellFormed /\ AccountsWellFormed /\ RequestOK(r)
  BY Parts
<1>2. /\ request[r].op = "login" /\ issued < MaxTokens /\ issued' = issued + 1
      /\ token' = [token EXCEPT ![new] = row]
      /\ raced' = IF pw # password[u] THEN raced \cup {new} ELSE raced
      /\ UNCHANGED <<account, settled>>
  BY DEF LoginCreates
<1>3. /\ new \in Tokens /\ new \notin Issued
      /\ Issued' = Issued \cup {new} /\ Issued \subseteq Tokens
  BY <1>1, <1>2, IssuedAreTokens DEF TokensWellFormed, Issued
<1>4. u \in Users /\ pw \in 0 .. password[u] /\ password[u] \in Nat
  BY <1>1, <1>2 DEF RequestOK, RequestState, AccountsWellFormed
<1>5. /\ token'[new].user = u /\ token'[new].session = new
      /\ token'[new].password = pw /\ Live(new)'
      /\ \A t \in Tokens \ {new} : token'[t] = token[t]
  BY <1>1, <1>2, <1>3 DEF TokensWellFormed, NewToken, Live
<1>6. RootsOK'
  <2> SUFFICES ASSUME NEW t \in Issued',
                      NEW q, q = token'[t].session
               PROVE  /\ token'[q].session = q
                      /\ token'[q].user = token'[t].user
                      /\ token'[q].password = token'[t].password
    BY DEF RootsOK
  <2>1. CASE t = new
    BY <1>5, <2>1
  <2>2. CASE t \in Issued
    <3>1. token'[t] = token[t]
      BY <1>3, <1>5, <2>2
    <3>2. q \in Issued
      BY <1>1, <2>2, <3>1 DEF TokensWellFormed
    <3>3. token'[q] = token[q]
      BY <1>3, <1>5, <3>2
    <3> QED
      BY <2>2, <3>1, <3>3 DEF RootsOK
  <2> QED
    BY <1>3, <2>1, <2>2
<1>7. LoginOf(new) = [user |-> Nobody, password |-> 0]
  BY <1>3 DEF LoginOf
<1>8. Shown' = [Shown EXCEPT ![new] = [user |-> u, password |-> pw]]
  <2>1. LoginOf(new)' = [user |-> u, password |-> pw]
    BY <1>3, <1>5 DEF LoginOf
  <2>2. \A s \in Tokens \ {new} : LoginOf(s)' = LoginOf(s)
    BY <1>3, <1>5 DEF LoginOf
  <2> QED
    BY <2>1, <2>2 DEF Shown
<1>9. OpenNow' = OpenNow \cup {new}
  <2>1. \A s : s \in OpenNow' <=>
               \E t \in Issued' : Live(t)' /\ token'[t].session = s
    BY DEF OpenNow, SessionsOf
  <2>2. \A t \in Issued : Live(t)' = Live(t) /\ token'[t] = token[t]
    BY <1>3, <1>5 DEF Live
  <2>3. \A s : s \in OpenNow' <=> s \in OpenNow \/ s = new
    BY <1>3, <1>5, <2>1, <2>2, OpenMeans
  <2> QED
    BY <2>3
<1>10. raced' = IF pw < password[u] THEN raced \cup {new} ELSE raced
  BY <1>2, <1>4
<1>11. Shown[new] = [user |-> Nobody, password |-> 0]
  BY <1>3, <1>7 DEF Shown
<1>12. Logins!Open(new, u, pw)
  BY <1>2, <1>8, <1>9, <1>10, <1>11
     DEF Logins!Open, Logins!NoLogin, Shown, OpenNow, account
<1> QED
  BY <1>3, <1>4, <1>6, <1>12 DEF Logins!Next

(* A rotation is not seen; on a token that was revoked since it was read,  *)
(* the session goes on.                                                    *)
LEMMA RotationShown ==
    ASSUME IInv, RootsOK, NEW r \in Slots, RefreshRotates(r)
    PROVE  RootsOK' /\ (Logins!Next \/ UNCHANGED Seen)
<1> PICK new : new = issued + 1
  OBVIOUS
<1> DEFINE old == request[r].token
           s == token[old].session
           row == NewToken(token[old].user, s, token[old].password)
<1>1. /\ TokensWellFormed /\ AccountsWellFormed /\ RequestOK(r)
  BY Parts
<1>2. /\ request[r].op = "rotate" /\ issued < MaxTokens /\ issued' = issued + 1
      /\ token' = [token EXCEPT ![old].revoked = TRUE, ![new] = row]
      /\ raced' = IF request[r].live /\ ~Live(old) THEN raced \cup {s} ELSE raced
      /\ UNCHANGED <<account, settled>>
  BY DEF RefreshRotates, Rotated
<1>3. /\ new \in Tokens /\ new \notin Issued
      /\ Issued' = Issued \cup {new} /\ Issued \subseteq Tokens
  BY <1>1, <1>2, IssuedAreTokens DEF TokensWellFormed, Issued
<1>4. /\ old \in Issued /\ old \in Tokens /\ old # new /\ request[r].live
      /\ s \in Issued /\ s # new /\ s \in Tokens
  BY <1>1, <1>2, <1>3 DEF RequestOK, TokensWellFormed
<1>5. /\ token'[new] = row
      /\ token'[old] = [token[old] EXCEPT !.revoked = TRUE]
      /\ \A t \in Tokens \ {new, old} : token'[t] = token[t]
  BY <1>1, <1>2, <1>3, <1>4 DEF TokensWellFormed
<1>6. /\ token'[new].user = token[old].user /\ token'[new].session = s
      /\ token'[new].password = token[old].password /\ Live(new)'
  BY <1>5 DEF NewToken, Live
<1>7. \A t \in Issued : /\ token'[t].user = token[t].user
                        /\ token'[t].session = token[t].session
                        /\ token'[t].password = token[t].password
                        /\ Live(t)' <=> Live(t) /\ t # old
  <2> TAKE t \in Issued
  <2>1. t \in Tokens /\ t # new /\ token[t] \in TokenRow
    BY <1>1, <1>3 DEF TokensWellFormed
  <2>2. CASE t = old
    BY <1>5, <2>1, <2>2 DEF TokenRow, Live
  <2>3. CASE t # old
    BY <1>5, <2>1, <2>3 DEF Live
  <2> QED
    BY <2>2, <2>3
<1>8. RootsOK'
  <2> SUFFICES ASSUME NEW t \in Issued',
                      NEW q, q = token'[t].session
               PROVE  /\ token'[q].session = q
                      /\ token'[q].user = token'[t].user
                      /\ token'[q].password = token'[t].password
    BY DEF RootsOK
  <2>1. PICK u \in Issued : /\ token'[t].user = token[u].user
                            /\ token'[t].session = token[u].session
                            /\ token'[t].password = token[u].password
    BY <1>3, <1>4, <1>6, <1>7
  <2>2. q \in Issued
    BY <1>1, <2>1 DEF TokensWellFormed
  <2>3. /\ token[q].session = q /\ token[q].user = token[u].user
        /\ token[q].password = token[u].password
    BY <2>1 DEF RootsOK
  <2> QED
    BY <1>7, <2>1, <2>2, <2>3
<1>9. Shown' = Shown
  <2>1. \A q \in Tokens : LoginOf(q)' = LoginOf(q)
    BY <1>3, <1>4, <1>6, <1>7 DEF LoginOf
  <2> QED
    BY <2>1 DEF Shown
<1>10. OpenNow' = OpenNow \cup {s}
  <2>1. \A q : q \in OpenNow' <=>
               \E t \in Issued' : Live(t)' /\ token'[t].session = q
    BY DEF OpenNow, SessionsOf
  <2>2. ASSUME NEW q, q \in OpenNow' PROVE q \in OpenNow \/ q = s
    BY <1>3, <1>6, <1>7, <2>1, <2>2, OpenMeans
  <2>3. s \in OpenNow'
    BY <1>3, <1>6, <2>1
  <2>4. ASSUME NEW q \in OpenNow, q # s PROVE q \in OpenNow'
    <3>1. PICK t \in Issued : Live(t) /\ token[t].session = q
      BY OpenMeans
    <3> QED
      BY <1>3, <1>7, <2>1, <2>4, <3>1
  <2> QED
    BY <2>2, <2>3, <2>4
<1>11. CASE Live(old)
  <2>1. OpenNow' = OpenNow
    BY <1>4, <1>10, <1>11, OpenMeans
  <2> QED
    BY <1>2, <1>8, <1>9, <1>11, <2>1 DEF Seen, account
<1>12. CASE ~Live(old)
  <2>1. raced' = raced \cup {s}
    BY <1>2, <1>4, <1>12
  <2>2. Shown[s] # [user |-> Nobody, password |-> 0]
    BY <1>1, <1>4, Owners
  <2>3. Logins!Resume(s)
    BY <1>2, <1>9, <1>10, <2>1, <2>2
       DEF Logins!Resume, Logins!NoLogin, Shown, OpenNow, account
  <2> QED
    BY <1>4, <1>8, <2>3 DEF Logins!Next
<1> QED
  BY <1>11, <1>12

----------------------------------------------------------------------------
(* Passwords, and the sign-outs by account.                                *)

LEMMA PasswordShown ==
    ASSUME TokensWellFormed, RootsOK, NEW u \in Users,
           UNCHANGED <<issued, token, raced, settled>>,
           UNCHANGED password \/ NewPassword(u)
    PROVE  RootsOK' /\ (Logins!Next \/ UNCHANGED Seen)
<1>1. RootsOK' /\ UNCHANGED <<Shown, OpenNow>>
  BY TableShown
<1>2. CASE UNCHANGED password
  BY <1>1, <1>2 DEF Seen
<1>3. CASE NewPassword(u)
  <2>1. Logins!NewPassword(u)
    BY <1>1, <1>3 DEF Logins!NewPassword, NewPassword, Shown, OpenNow
  <2> QED
    BY <1>1, <2>1 DEF Logins!Next
<1> QED
  BY <1>2, <1>3

LEMMA RevokeShown ==
    ASSUME TokensWellFormed, RootsOK, NEW u \in Users,
           RevokeAllSessions(u) \/ RevokeStaff(u)
    PROVE  RootsOK' /\ Logins!Next
<1>1. SignOut(TokensOf(u)) /\ UNCHANGED <<password, issued, raced, settled>>
  BY DEF RevokeAllSessions, RevokeStaff, account
<1>2. /\ RootsOK' /\ Shown' = Shown
      /\ OpenNow' = OpenNow \ Logins!SessionsOf(u)
  BY <1>1, SignOutUserShown
<1>3. Logins!SignOut(Logins!SessionsOf(u))
  BY <1>1, <1>2 DEF Logins!SignOut, Shown, OpenNow
<1> QED
  BY <1>2, <1>3 DEF Logins!Next

LEMMA ChangeShown ==
    ASSUME IInv, RootsOK, NEW r \in Slots, ChangeRevokes(r)
    PROVE  RootsOK' /\ Logins!Next
<1> DEFINE u == request[r].user
           pw == request[r].password
<1>1. TokensWellFormed /\ AccountsWellFormed /\ RequestOK(r)
  BY Parts
<1>2. /\ SignOut(TokensOf(u))
      /\ settled' = [settled EXCEPT ![u] = IF pw > @ THEN pw ELSE @]
      /\ UNCHANGED <<account, issued, raced>>
  BY DEF ChangeRevokes
<1>3. u \in Users /\ pw \in 0 .. password[u]
  BY <1>1 DEF ChangeRevokes, RequestOK, RequestState, AccountsWellFormed
<1>4. /\ RootsOK' /\ Shown' = Shown
      /\ OpenNow' = OpenNow \ Logins!SessionsOf(u)
  BY <1>1, <1>2, <1>3, SignOutUserShown
<1>5. Logins!Settle(u, pw)
  BY <1>2, <1>4 DEF Logins!Settle, Shown, OpenNow, account
<1> QED
  BY <1>3, <1>4, <1>5 DEF Logins!Next

LEMMA SessionsStep ==
    ASSUME IInv, RootsOK, [Next]_vars
    PROVE  RootsOK' /\ (Logins!Next \/ UNCHANGED Seen)
<1>1. TokensWellFormed /\ \A q \in Slots : RequestOK(q)
  BY Parts
<1>2. ASSUME UNCHANGED <<password, issued, token, raced, settled>>
      PROVE  RootsOK' /\ UNCHANGED Seen
  BY <1>1, <1>2, TableShown DEF Seen
<1>3. ASSUME NEW r \in Slots, Login(r)
      PROVE  RootsOK' /\ (Logins!Next \/ UNCHANGED Seen)
  BY <1>2, <1>3, LoginShown DEF Login, LoginReads, account
<1>4. ASSUME NEW r \in Slots, Refresh(r)
      PROVE  RootsOK' /\ (Logins!Next \/ UNCHANGED Seen)
  <2>1. CASE RefreshTimesOut(r)
    <3>1. request[r].token \in Issued
      BY <1>1, <2>1 DEF RefreshTimesOut, RequestOK
    <3> QED
      BY <1>1, <2>1, <3>1, SignOutTokenShown DEF RefreshTimesOut, account
  <2>2. CASE \E t \in Issued : RefreshReads(r, t)
    BY <1>2, <2>2 DEF RefreshReads, account
  <2> QED
    BY <1>4, <2>1, <2>2, RotationShown DEF Refresh
<1>5. ASSUME NEW r \in Slots, ChangePassword(r)
      PROVE  RootsOK' /\ (Logins!Next \/ UNCHANGED Seen)
  <2>1. CASE ChangeWrites(r)
    <3>1. request[r].user \in Users
      BY <1>1, <2>1 DEF ChangeWrites, RequestOK
    <3> QED
      BY <1>1, <2>1, <3>1, PasswordShown DEF ChangeWrites
  <2>2. CASE \E u \in Users : ChangeReads(r, u)
    BY <1>2, <2>2 DEF ChangeReads, account
  <2> QED
    BY <1>5, <2>1, <2>2, ChangeShown DEF ChangePassword
<1>6. ASSUME NEW r \in Slots, Abort(r)
      PROVE  RootsOK' /\ UNCHANGED Seen
  BY <1>2, <1>6 DEF Abort, account
<1>7. ASSUME NEW t \in Issued, Logout(t)
      PROVE  RootsOK' /\ (Logins!Next \/ UNCHANGED Seen)
  BY <1>1, <1>7, SignOutTokenShown DEF Logout, account
<1>8. ASSUME NEW u \in Users,
             \/ ResetPassword(u) \/ RegisterAdmin(u) \/ VerifyAdmin(u)
             \/ VerifyStaff(u) \/ ProvisionClient(u) \/ LinkGoogle(u)
      PROVE  RootsOK' /\ (Logins!Next \/ UNCHANGED Seen)
  <2>1. /\ UNCHANGED <<issued, token, raced, settled>>
        /\ UNCHANGED password \/ NewPassword(u)
    BY <1>8 DEF ResetPassword, RegisterAdmin, VerifyAdmin, VerifyStaff,
                ProvisionClient, LinkGoogle, Activate
  <2> QED
    BY <1>1, <2>1, PasswordShown
<1>9. CASE UNCHANGED vars
  BY <1>2, <1>9 DEF vars
<1> QED
  BY <1>1, <1>3, <1>4, <1>5, <1>6, <1>7, <1>8, <1>9, RevokeShown,
     SignOutAllShown, AgesShown DEF Next

(* The routes of auth.ts that write refresh tokens implement a table of    *)
(* logins: rotation, expiry and the requests in progress are not seen.     *)
THEOREM TokensImplementSessions == Spec => TokensActAsSessions
<1>1. Init => RootsOK /\ Logins!Init
  <2> SUFFICES ASSUME Init PROVE RootsOK /\ Logins!Init
    OBVIOUS
  <2>1. Issued = {}
    BY DEF Init, Issued
  <2> QED
    BY <2>1 DEF Init, RootsOK, LoginOf, SessionsOf, Logins!Init, Logins!NoLogin
<1>2. IInv /\ RootsOK /\ [Next]_vars => RootsOK' /\ [Logins!Next]_(Logins!vars)
  BY SessionsStep DEF Seen, Shown, OpenNow, Logins!vars
<1> QED
  BY <1>1, <1>2, Inductive, PTL DEF Spec, Logins!Spec, TokensActAsSessions
=============================================================================
