----------------------------- MODULE AuthSession -----------------------------
(***************************************************************************)
(* The credentials and the refresh sessions of the single user "admin":    *)
(* AuthService (service/auth.go), the refresh_tokens and users rows and    *)
(* the refresh JWTs it signs.                                              *)
(*                                                                         *)
(* Initialisation, login and change of password read the stored hash, run  *)
(* bcrypt outside any lock, and commit later; refresh and browser logout   *)
(* validate their JWT outside the lock and commit later.  Such a call is   *)
(* two actions, and others run between them.  Its second part runs whole   *)
(* under the user's row lock (withAuthUserTransaction), so it is atomic.   *)
(* A call that is refused changes nothing but ends.                        *)
(***************************************************************************)
EXTENDS Integers, Sequences, FiniteSetsExt

CONSTANTS
  Clients,      \* requests in flight at the same time, one per client
  Passwords,    \* the passwords a client may send
  MaxFailures,  \* wrong passwords that lock the user, 5 in the code
  LockPeriod,   \* how long the lock holds, 15 minutes in the code
  RefreshLife,  \* lifetime of a refresh token
  MaxTime,      \* bound on the clock
  MaxTokens,    \* bound on the refresh tokens issued
  MaxHashes     \* bound on the password hashes stored

ASSUME AuthAssumption ==
  /\ Passwords # {}
  /\ MaxFailures \in Nat \ {0}
  /\ LockPeriod \in Nat \ {0}
  /\ RefreshLife \in Nat \ {0}
  /\ MaxTime \in Nat /\ MaxTokens \in Nat /\ MaxHashes \in Nat

VARIABLES
  user,     \* the users row
  issued,   \* every refresh JWT ever signed; a token is its index here
  live,     \* the tokens that have a refresh_tokens row
  calls,    \* the requests in flight
  now,      \* the clock
  revoked,  \* history: the token families that were logged out
  guesses   \* history: wrong passwords judged at each time since the last
            \* login

vars == <<user, issued, live, calls, now, revoked, guesses>>

-----------------------------------------------------------------------------
Times == 0..MaxTime
Tokens == Nat \ {0}

\* The password hash is told apart by its salt: hash 0 is "no user yet", and
\* a change to the same password still stores another hash.
User == [hash : Nat, password : Passwords, failures : Nat, lockedUntil : Nat]

\* The claims, and as history the token it was exchanged for (0 for a login),
\* the first token of its family and the hash the family was opened with.
JWT == [session : Tokens, expires : Nat, parent : Nat, family : Tokens,
        hash : Nat]

Idle == [op |-> "idle"]

Call ==
  {Idle}
  \cup [op : {"init"}, next : Passwords]
  \cup [op : {"login"}, hash : Nat, matches : BOOLEAN]
  \cup [op : {"change"}, hash : Nat, next : Passwords]
  \cup [op : {"refresh", "logout"}, token : Tokens]

Init ==
  /\ user = [hash |-> 0, password |-> CHOOSE p \in Passwords : TRUE,
             failures |-> 0, lockedUntil |-> 0]
  /\ issued = <<>>
  /\ live = {}
  /\ calls = [c \in Clients |-> Idle]
  /\ now = 0
  /\ revoked = {}
  /\ guesses = [t \in Times |-> 0]

\* Every row, token and call is one of its kind, and rows name issued tokens.
TypeOK ==
  /\ user \in User
  /\ issued \in Seq(JWT)
  /\ live \subseteq DOMAIN issued
  /\ calls \in [Clients -> Call]
  /\ now \in Times
  /\ revoked \subseteq Tokens
  /\ guesses \in [Times -> Nat]

-----------------------------------------------------------------------------
Initialized == user.hash # 0
Locked == user.lockedUntil > now
Unexpired(t) == issued[t].expires > now

Begin(c, call) ==
  /\ calls[c] = Idle
  /\ calls' = [calls EXCEPT ![c] = call]
  /\ UNCHANGED <<user, issued, live, now, revoked, guesses>>

Ends(c, op) ==
  /\ calls[c].op = op
  /\ calls' = [calls EXCEPT ![c] = Idle]
  /\ UNCHANGED now

Refused == UNCHANGED <<user, issued, live, revoked, guesses>>

NewToken == Len(issued) + 1

\* generateTokensForSession for a login: the session id is a fresh uuid.
OpenSession(rows, hash) ==
  /\ NewToken <= MaxTokens
  /\ issued' = Append(issued, [session |-> NewToken,
                               expires |-> now + RefreshLife, parent |-> 0,
                               family |-> NewToken, hash |-> hash])
  /\ live' = rows \cup {NewToken}

\* Bugs to tell from the code: the presented token keeps its row; the row
\* written is that of the presented token again.
ContinueKeepingRow(rows, t) ==
  /\ NewToken <= MaxTokens
  /\ issued' = Append(issued, [issued[t] EXCEPT !.expires = now + RefreshLife,
                                                !.parent = t])
  /\ live' = rows \cup {t, NewToken}

ContinueWithOldToken(rows, t) ==
  /\ NewToken <= MaxTokens
  /\ issued' = Append(issued, [issued[t] EXCEPT !.expires = now + RefreshLife,
                                                !.parent = t])
  /\ live' = rows \cup {t}

\* generateTokensForSession for a refresh: session id and row id are kept.
ContinueSession(rows, t) ==
  /\ NewToken <= MaxTokens
  /\ issued' = Append(issued, [issued[t] EXCEPT !.expires = now + RefreshLife,
                                                !.parent = t])
  /\ live' = rows \cup {NewToken}

-----------------------------------------------------------------------------
BeginInit(c, p) ==
  /\ ~Initialized
  /\ Begin(c, [op |-> "init", next |-> p])

\* The count of users is read again under authInitMu; without it the second
\* insert would meet the unique name of the first.
FinishInit(c) ==
  /\ Ends(c, "init")
  /\ \/ Initialized /\ Refused
     \/ /\ ~Initialized
        /\ user' = [hash |-> 1, password |-> calls[c].next, failures |-> 0,
                    lockedUntil |-> 0]
        /\ OpenSession(live, 1)
        /\ UNCHANGED <<revoked, guesses>>

BeginLogin(c, p) ==
  /\ Initialized
  /\ ~Locked
  /\ Begin(c, [op |-> "login", hash |-> user.hash,
               matches |-> p = user.password])

\* A bug to tell from the code: a change of password during bcrypt, or a lock
\* set meanwhile, goes unnoticed.
LoginStandsAnyHash(call) == ~Locked
LoginStandsLocked(call) == call.hash = user.hash

\* What the row must still say when the verified login reaches the lock.
LoginStands(call) == call.hash = user.hash /\ ~Locked

FailedLogin ==
  LET failures == user.failures + 1 IN
  /\ user' = [user EXCEPT
       !.failures = failures,
       !.lockedUntil = IF failures >= MaxFailures THEN now + LockPeriod ELSE @]
  /\ guesses' = [guesses EXCEPT ![now] = @ + 1]
  /\ UNCHANGED <<issued, live, revoked>>

SuccessfulLogin(call) ==
  /\ user' = [user EXCEPT !.failures = 0, !.lockedUntil = 0]
  /\ OpenSession(live, call.hash)
  /\ guesses' = [t \in Times |-> 0]
  /\ UNCHANGED revoked

FinishLogin(c) ==
  /\ Ends(c, "login")
  /\ \/ ~LoginStands(calls[c]) /\ Refused
     \/ LoginStands(calls[c]) /\ ~calls[c].matches /\ FailedLogin
     \/ LoginStands(calls[c]) /\ calls[c].matches /\ SuccessfulLogin(calls[c])

BeginChangePassword(c, old, new) ==
  /\ Initialized
  /\ old = user.password
  /\ Begin(c, [op |-> "change", hash |-> user.hash, next |-> new])

Families == {issued[t].family : t \in DOMAIN issued}

\* The failure count and the lock stay as they are.
PasswordReplaced(p) ==
  /\ user' = [user EXCEPT !.hash = @ + 1, !.password = p]
  /\ live' = {}

\* A bug to tell from the code: the hash is not compared under the lock.
FinishChangeUnproven(c) ==
  /\ Ends(c, "change")
  /\ user.hash < MaxHashes
  /\ PasswordReplaced(calls[c].next)
  /\ revoked' = revoked \cup Families
  /\ UNCHANGED <<issued, guesses>>

FinishChangePassword(c) ==
  /\ Ends(c, "change")
  /\ \/ calls[c].hash # user.hash /\ Refused
     \/ /\ calls[c].hash = user.hash
        /\ user.hash < MaxHashes
        /\ PasswordReplaced(calls[c].next)
        /\ revoked' = revoked \cup Families
        /\ UNCHANGED <<issued, guesses>>

-----------------------------------------------------------------------------
BeginRefresh(c, t) ==
  /\ Unexpired(t)
  /\ Begin(c, [op |-> "refresh", token |-> t])

\* RefreshTokenRepository.Consume deletes this row.
Consumable(t) == t \in live /\ Unexpired(t)

FinishRefresh(c) ==
  LET t == calls[c].token IN
  /\ Ends(c, "refresh")
  /\ \/ ~Consumable(t) /\ Refused
     \/ /\ Consumable(t)
        /\ ContinueSession(live \ {t}, t)
        /\ UNCHANGED <<user, revoked, guesses>>

\* A spent token still names its session.
BeginBrowserLogout(c, t) ==
  /\ Unexpired(t)
  /\ Begin(c, [op |-> "logout", token |-> t])

\* A bug to tell from the code: only the row of the presented token goes.
OutsideTokenOnly(t) == live \ {t}

\* RefreshTokenRepository.DeleteSession.
OutsideSession(t) ==
  {u \in live : u # t /\ issued[u].session # issued[t].session}

FinishBrowserLogout(c) ==
  LET t == calls[c].token IN
  /\ Ends(c, "logout")
  /\ live' = OutsideSession(t)
  /\ revoked' = revoked \cup {issued[t].family}
  /\ UNCHANGED <<user, issued, guesses>>

\* The API logout ends every session.
Logout ==
  /\ Initialized
  /\ live' = {}
  /\ revoked' = revoked \cup Families
  /\ UNCHANGED <<user, issued, calls, now, guesses>>

Tick ==
  /\ now < MaxTime
  /\ now' = now + 1
  /\ UNCHANGED <<user, issued, live, calls, revoked, guesses>>

-----------------------------------------------------------------------------
Next ==
  \/ Logout
  \/ Tick
  \/ \E c \in Clients :
       \/ \E p \in Passwords : BeginInit(c, p) \/ BeginLogin(c, p)
       \/ \E old, new \in Passwords : BeginChangePassword(c, old, new)
       \/ \E t \in DOMAIN issued : BeginRefresh(c, t) \/ BeginBrowserLogout(c, t)
       \/ FinishInit(c)
       \/ FinishLogin(c)
       \/ FinishChangePassword(c)
       \/ FinishRefresh(c)
       \/ FinishBrowserLogout(c)

Spec == Init /\ [][Next]_vars

-----------------------------------------------------------------------------
(***************************************************************************)
(* Properties.                                                             *)
(***************************************************************************)

\* A successor takes over the row id of the token it replaces: the insert of
\* generateTokensForSession never meets another row with its primary key.
OneRowPerSession ==
  \A t, u \in live : issued[t].session = issued[u].session => t = u

\* Every stored session goes back to a login with the password that is stored
\* now: no login verified against an older hash, and no refresh that raced
\* with the change, leaves a session behind (the comments of Login and of
\* ChangePassword in service/auth.go).
SessionsHaveCurrentPassword == \A t \in live : issued[t].hash = user.hash

\* Once there is a user, the password gives way only to a request that has
\* proved the very password it replaces: not to a second initialisation that
\* counted no users before the first one committed, and not to a change whose
\* proof an earlier change overtook (the checks that Init and ChangePassword
\* in service/auth.go repeat when they commit).
PasswordChangesAreProven ==
  [][Initialized /\ <<user.hash, user.password>>' # <<user.hash, user.password>> =>
       \E c \in Clients :
         /\ calls[c].op = "change" /\ calls[c].hash = user.hash
         /\ calls[c].next = user'.password /\ calls'[c] = Idle]_vars

\* A refresh token buys at most one successor, however many requests present
\* it at the same time (the comment of RefreshTokenRepository.Consume).
NoTokenExchangedTwice ==
  \A t, u \in DOMAIN issued :
    issued[t].parent # 0 /\ issued[t].parent = issued[u].parent => t = u

\* Once a token of a family was presented for logout, or all were revoked, no
\* token of the family is ever stored again: a rotation in flight is either
\* removed or cannot consume (the comment of LogoutBrowserSession).
RevokedFamiliesStayDead == \A t \in live : issued[t].family \notin revoked

\* A wrong password is judged at most MaxFailures times in any LockPeriod
\* without a successful login, however many logins are in flight when the
\* user locks.
GuessesAreBounded ==
  \A first \in Times :
    LET window == {t \in Times : t >= first /\ t < first + LockPeriod}
    IN SumFunctionOnSet(guesses, window) <= MaxFailures

=============================================================================
