-------------------------- MODULE AuthSessionProofs --------------------------
(***************************************************************************)
(* Proofs about AuthSession, for any number of requests in flight, tokens  *)
(* and passwords.                                                          *)
(***************************************************************************)
EXTENDS AuthSession, SumLemmas

\* What is known of the tokens issued so far, each earlier than the next.
Lineage ==
  \A t \in DOMAIN issued :
    /\ issued[t].session = issued[t].family
    /\ issued[t].family \in DOMAIN issued
    /\ issued[t].parent \in DOMAIN issued \cup {0}
    /\ issued[t].parent \notin live

RevokedWereIssued == revoked \subseteq DOMAIN issued

CallsSound ==
  \A c \in Clients :
    /\ calls[c].op \in {"refresh", "logout"} => calls[c].token \in DOMAIN issued
    /\ calls[c].op = "login" => calls[c].hash # 0

NoTokenBeforeInit == user.hash = 0 => live = {}

Inv ==
  /\ TypeOK
  /\ Lineage
  /\ RevokedWereIssued
  /\ CallsSound
  /\ NoTokenBeforeInit
  /\ OneRowPerSession
  /\ SessionsHaveCurrentPassword
  /\ NoTokenExchangedTwice
  /\ RevokedFamiliesStayDead

-----------------------------------------------------------------------------
\* Appending a token: the others keep their number and their claims.
LEMMA AppendToken ==
  ASSUME issued \in Seq(JWT), NEW e \in JWT, issued' = Append(issued, e)
  PROVE  /\ issued' \in Seq(JWT)
         /\ NewToken \in Tokens
         /\ NewToken \notin DOMAIN issued
         /\ DOMAIN issued' = DOMAIN issued \cup {NewToken}
         /\ issued'[NewToken] = e
         /\ \A t \in DOMAIN issued : issued'[t] = issued[t]
BY DEF NewToken, Tokens

\* What a call in flight carries.
LEMMA CallFields ==
  ASSUME TypeOK, NEW c \in Clients
  PROVE  /\ calls[c].op \in {"init", "change"} => calls[c].next \in Passwords
         /\ calls[c].op \in {"refresh", "logout"} => calls[c].token \in Tokens
BY DEF TypeOK, Call, Idle

\* The call of a client that ends leaves the others alone.
LEMMA EndsKeepsCalls ==
  ASSUME TypeOK, CallsSound, NEW c \in Clients, NEW op, Ends(c, op),
         DOMAIN issued \subseteq DOMAIN issued'
  PROVE  calls' \in [Clients -> Call] /\ CallsSound'
<1>1. calls' \in [Clients -> Call]
  BY DEF TypeOK, Ends, Call, Idle
<1>2. CallsSound'
  <2> SUFFICES ASSUME NEW d \in Clients
               PROVE  /\ calls'[d].op \in {"refresh", "logout"}
                           => calls'[d].token \in DOMAIN issued'
                      /\ calls'[d].op = "login" => calls'[d].hash # 0
    BY DEF CallsSound
  <2>1. CASE d = c
    BY <2>1 DEF TypeOK, Ends, Idle
  <2>2. CASE d # c
    <3>1. calls'[d] = calls[d]
      BY <2>2 DEF TypeOK, Ends
    <3> QED BY <3>1 DEF CallsSound
  <2> QED BY <2>1, <2>2
<1> QED BY <1>1, <1>2

\* A refused call only ends.
LEMMA RefusedKeepsInv ==
  ASSUME Inv, NEW c \in Clients, NEW op, Ends(c, op), Refused
  PROVE  Inv'
<1>1. calls' \in [Clients -> Call] /\ CallsSound'
  BY EndsKeepsCalls DEF Inv, Refused
<1>2. TypeOK'
  BY <1>1 DEF Inv, TypeOK, Ends, Refused
<1> QED
  BY <1>1, <1>2 DEF Inv, Refused, Lineage, RevokedWereIssued, NoTokenBeforeInit,
     OneRowPerSession, SessionsHaveCurrentPassword, NoTokenExchangedTwice,
     RevokedFamiliesStayDead

\* A call that begins changes nothing else.
LEMMA BeginKeepsInv ==
  ASSUME Inv, NEW c \in Clients, NEW call \in Call, Begin(c, call),
         call.op \in {"refresh", "logout"} => call.token \in DOMAIN issued,
         call.op = "login" => call.hash # 0
  PROVE  Inv'
<1>1. TypeOK'
  BY DEF Inv, TypeOK, Begin
<1>2. CallsSound'
  BY DEF Inv, TypeOK, Begin, CallsSound
<1> QED
  BY <1>1, <1>2 DEF Inv, Begin, Lineage, RevokedWereIssued, NoTokenBeforeInit,
     OneRowPerSession, SessionsHaveCurrentPassword, NoTokenExchangedTwice,
     RevokedFamiliesStayDead

\* Rows disappear, families are revoked, and what is left is not revoked.
LEMMA RemovalKeepsInv ==
  ASSUME Inv, UNCHANGED issued, live' \subseteq live,
         revoked' \subseteq DOMAIN issued,
         \A t \in live' : issued[t].family \notin revoked',
         \A t \in live' : issued[t].hash = user'.hash,
         user' \in User, user'.hash # 0,
         calls' \in [Clients -> Call], CallsSound',
         now' \in Times, guesses' \in [Times -> Nat]
  PROVE  Inv'
<1>1. TypeOK'
  BY DEF Inv, TypeOK, Tokens
<1>2. Lineage'
  BY DEF Inv, Lineage
<1>3. RevokedWereIssued' /\ NoTokenBeforeInit'
  BY DEF Inv, RevokedWereIssued, NoTokenBeforeInit
<1>4. OneRowPerSession'
  BY DEF Inv, OneRowPerSession
<1>5. SessionsHaveCurrentPassword' /\ RevokedFamiliesStayDead'
  BY DEF SessionsHaveCurrentPassword, RevokedFamiliesStayDead
<1>6. NoTokenExchangedTwice'
  BY DEF Inv, NoTokenExchangedTwice
<1> QED BY <1>1, <1>2, <1>3, <1>4, <1>5, <1>6 DEF Inv

\* A session opened with the stored hash.
LEMMA OpenSessionKeepsInv ==
  ASSUME Inv, OpenSession(live, user'.hash),
         user' \in User, user'.hash # 0, user.hash # 0 => user'.hash = user.hash,
         calls' \in [Clients -> Call], CallsSound',
         now' \in Times, guesses' \in [Times -> Nat], UNCHANGED <<now, revoked>>
  PROVE  Inv'
<1> DEFINE e == [session |-> NewToken, expires |-> now + RefreshLife,
                 parent |-> 0, family |-> NewToken, hash |-> user'.hash]
<1>1. e \in JWT
  BY AuthAssumption DEF Inv, TypeOK, JWT, NewToken, Tokens, Times, User
<1>2. issued' = Append(issued, e) /\ live' = live \cup {NewToken}
  BY DEF OpenSession
<1>3. /\ issued' \in Seq(JWT)
      /\ NewToken \in Tokens
      /\ NewToken \notin DOMAIN issued
      /\ DOMAIN issued' = DOMAIN issued \cup {NewToken}
      /\ issued'[NewToken] = e
      /\ \A t \in DOMAIN issued : issued'[t] = issued[t]
  BY <1>1, <1>2, AppendToken DEF Inv, TypeOK
<1>4. /\ e.session = NewToken /\ e.parent = 0 /\ e.family = NewToken
      /\ e.hash = user'.hash
  OBVIOUS
<1> HIDE DEF e
<1>5. live \subseteq DOMAIN issued /\ 0 \notin DOMAIN issued
  BY DEF Inv, TypeOK
<1>6. TypeOK'
  BY <1>2, <1>3 DEF Inv, TypeOK
<1>7. Lineage'
  BY <1>2, <1>3, <1>4, <1>5 DEF Inv, Lineage, Tokens
<1>8. RevokedWereIssued' /\ NoTokenBeforeInit'
  BY <1>3 DEF Inv, RevokedWereIssued, NoTokenBeforeInit
<1>9. OneRowPerSession'
  BY <1>2, <1>3, <1>4, <1>5 DEF Inv, OneRowPerSession, Lineage
<1>10. SessionsHaveCurrentPassword'
  BY <1>2, <1>3, <1>4, <1>5
     DEF Inv, SessionsHaveCurrentPassword, NoTokenBeforeInit
<1>11. NoTokenExchangedTwice'
  BY <1>3, <1>4 DEF Inv, NoTokenExchangedTwice
<1>12. RevokedFamiliesStayDead'
  BY <1>2, <1>3, <1>4, <1>5 DEF Inv, RevokedFamiliesStayDead, RevokedWereIssued
<1> QED
  BY <1>6, <1>7, <1>8, <1>9, <1>10, <1>11, <1>12 DEF Inv

\* A live token is exchanged for its successor.
LEMMA ContinueSessionKeepsInv ==
  ASSUME Inv, NEW t \in live, ContinueSession(live \ {t}, t),
         calls' \in [Clients -> Call], CallsSound',
         UNCHANGED <<user, now, revoked, guesses>>
  PROVE  Inv'
<1> DEFINE e == [issued[t] EXCEPT !.expires = now + RefreshLife, !.parent = t]
<1>1. t \in DOMAIN issued /\ issued[t] \in JWT /\ t \in Nat \ {0}
  BY DEF Inv, TypeOK
<1>2. e \in JWT
  <2>1. now + RefreshLife \in Nat
    BY AuthAssumption DEF Inv, TypeOK, Times
  <2> QED BY <1>1, <2>1 DEF JWT
<1>3. issued' = Append(issued, e) /\ live' = (live \ {t}) \cup {NewToken}
  BY DEF ContinueSession
<1>4. /\ issued' \in Seq(JWT)
      /\ NewToken \in Tokens
      /\ NewToken \notin DOMAIN issued
      /\ DOMAIN issued' = DOMAIN issued \cup {NewToken}
      /\ issued'[NewToken] = e
      /\ \A u \in DOMAIN issued : issued'[u] = issued[u]
  BY <1>2, <1>3, AppendToken DEF Inv, TypeOK
<1>5. /\ e.session = issued[t].session /\ e.parent = t
      /\ e.family = issued[t].family /\ e.hash = issued[t].hash
  BY <1>1 DEF JWT
<1> HIDE DEF e
<1>6. live \subseteq DOMAIN issued /\ 0 \notin DOMAIN issued
  BY DEF Inv, TypeOK
<1>7. TypeOK'
  BY <1>3, <1>4, <1>6 DEF Inv, TypeOK
<1>8. Lineage'
  <2> SUFFICES ASSUME NEW u \in DOMAIN issued'
               PROVE  /\ issued'[u].session = issued'[u].family
                      /\ issued'[u].family \in DOMAIN issued'
                      /\ issued'[u].parent \in DOMAIN issued' \cup {0}
                      /\ issued'[u].parent \notin live'
    BY DEF Lineage
  <2>1. CASE u = NewToken
    BY <2>1, <1>1, <1>3, <1>4, <1>5 DEF Inv, Lineage
  <2>2. CASE u # NewToken
    <3>1. u \in DOMAIN issued /\ issued'[u] = issued[u]
      BY <2>2, <1>4
    <3>2. issued[u].parent # NewToken
      BY <3>1, <1>4 DEF Inv, Lineage, Tokens
    <3> QED BY <3>1, <3>2, <1>3, <1>4 DEF Inv, Lineage
  <2> QED BY <2>1, <2>2
<1>9. RevokedWereIssued'
  BY <1>4 DEF Inv, RevokedWereIssued
<1>10. NoTokenBeforeInit'
  BY DEF Inv, NoTokenBeforeInit
<1>11. OneRowPerSession'
  BY <1>1, <1>3, <1>4, <1>5, <1>6 DEF Inv, OneRowPerSession
<1>12. SessionsHaveCurrentPassword'
  BY <1>1, <1>3, <1>4, <1>5, <1>6 DEF Inv, SessionsHaveCurrentPassword
<1>13. NoTokenExchangedTwice'
  BY <1>1, <1>4, <1>5 DEF Inv, NoTokenExchangedTwice, Lineage
<1>14. RevokedFamiliesStayDead'
  BY <1>1, <1>3, <1>4, <1>5, <1>6 DEF Inv, RevokedFamiliesStayDead
<1> QED
  BY <1>7, <1>8, <1>9, <1>10, <1>11, <1>12, <1>13, <1>14
  DEF Inv

-----------------------------------------------------------------------------
LEMMA InitInv == Init => Inv
<1> SUFFICES ASSUME Init PROVE Inv
  OBVIOUS
<1>1. user \in User
  BY AuthAssumption DEF Init, User
<1>2. TypeOK
  BY <1>1, AuthAssumption DEF Init, TypeOK, Times, Call, Tokens, Idle
<1> QED
  BY <1>2 DEF Init, Inv, Lineage, RevokedWereIssued, CallsSound,
     NoTokenBeforeInit, OneRowPerSession, SessionsHaveCurrentPassword,
     NoTokenExchangedTwice, RevokedFamiliesStayDead, Idle

LEMMA LogoutKeepsInv == Inv /\ Logout => Inv'
<1> SUFFICES ASSUME Inv, Logout PROVE Inv'
  OBVIOUS
<1>1. revoked' \subseteq DOMAIN issued
  BY DEF Inv, Logout, Families, Lineage, RevokedWereIssued
<1>2. CallsSound' /\ calls' \in [Clients -> Call]
  BY DEF Inv, TypeOK, Logout, CallsSound
<1> QED
  BY <1>1, <1>2, RemovalKeepsInv DEF Inv, TypeOK, Logout, Initialized

LEMMA TickKeepsInv == Inv /\ Tick => Inv'
<1> SUFFICES ASSUME Inv, Tick PROVE Inv'
  OBVIOUS
<1>1. TypeOK'
  BY AuthAssumption DEF Inv, TypeOK, Tick, Times
<1> QED
  BY <1>1 DEF Inv, Tick, Lineage, RevokedWereIssued, CallsSound,
     NoTokenBeforeInit, OneRowPerSession, SessionsHaveCurrentPassword,
     NoTokenExchangedTwice, RevokedFamiliesStayDead

LEMMA FinishInitKeepsInv ==
  ASSUME Inv, NEW c \in Clients, FinishInit(c) PROVE Inv'
<1>1. CASE Refused
  BY <1>1, RefusedKeepsInv DEF FinishInit
<1>2. CASE ~Refused
  <2>1. /\ user' = [hash |-> 1, password |-> calls[c].next, failures |-> 0,
                    lockedUntil |-> 0]
        /\ OpenSession(live, 1)
        /\ user.hash = 0
        /\ UNCHANGED <<revoked, guesses>>
    BY <1>2 DEF FinishInit, Initialized
  <2>2. user' \in User /\ user'.hash = 1
    BY <2>1, CallFields DEF Inv, FinishInit, Ends, User
  <2>3. calls' \in [Clients -> Call] /\ CallsSound'
    <3>1. DOMAIN issued \subseteq DOMAIN issued'
      BY <2>1 DEF Inv, TypeOK, OpenSession
    <3> QED BY <3>1, EndsKeepsCalls DEF Inv, FinishInit
  <2>4. UNCHANGED now
    BY DEF FinishInit, Ends
  <2> QED
    BY <2>1, <2>2, <2>3, <2>4, OpenSessionKeepsInv DEF Inv, TypeOK
<1> QED BY <1>1, <1>2

LEMMA FinishLoginKeepsInv ==
  ASSUME Inv, NEW c \in Clients, FinishLogin(c) PROVE Inv'
<1>1. CASE Refused
  BY <1>1, RefusedKeepsInv DEF FinishLogin
<1>2. CASE LoginStands(calls[c]) /\ FailedLogin
  <2>1. user' \in User /\ user'.hash = user.hash
    <3> DEFINE lock == IF user.failures + 1 >= MaxFailures
                       THEN now + LockPeriod ELSE user.lockedUntil
    <3>1. user \in User /\ now \in Nat
      BY AuthAssumption DEF Inv, TypeOK, Times
    <3>2. lock \in Nat /\ user.failures + 1 \in Nat
      BY <3>1, AuthAssumption DEF User
    <3>3. user' = [user EXCEPT !.failures = user.failures + 1,
                               !.lockedUntil = lock]
      BY <1>2 DEF FailedLogin
    <3> HIDE DEF lock
    <3> QED BY <3>1, <3>2, <3>3 DEF User
  <2>2. guesses' \in [Times -> Nat]
    BY <1>2 DEF Inv, TypeOK, FailedLogin
  <2>3. calls' \in [Clients -> Call] /\ CallsSound'
    BY <1>2, EndsKeepsCalls DEF Inv, FinishLogin, FailedLogin
  <2>4. UNCHANGED <<issued, live, revoked, now>>
    BY <1>2 DEF FailedLogin, FinishLogin, Ends
  <2>5. TypeOK'
    BY <2>1, <2>2, <2>3, <2>4 DEF Inv, TypeOK
  <2> QED
    BY <2>1, <2>3, <2>4, <2>5 DEF Inv, Lineage, RevokedWereIssued,
       NoTokenBeforeInit, OneRowPerSession, SessionsHaveCurrentPassword,
       NoTokenExchangedTwice, RevokedFamiliesStayDead
<1>3. CASE LoginStands(calls[c]) /\ SuccessfulLogin(calls[c])
  <2>1. user' \in User /\ user'.hash = user.hash
    BY <1>3 DEF Inv, TypeOK, SuccessfulLogin, User
  <2>2. guesses' \in [Times -> Nat]
    BY <1>3 DEF SuccessfulLogin
  <2>3. OpenSession(live, user'.hash) /\ UNCHANGED revoked
    BY <1>3, <2>1 DEF SuccessfulLogin, LoginStands
  <2>4. calls' \in [Clients -> Call] /\ CallsSound'
    <3>1. DOMAIN issued \subseteq DOMAIN issued'
      BY <2>3 DEF Inv, TypeOK, OpenSession
    <3> QED BY <3>1, EndsKeepsCalls DEF Inv, FinishLogin
  <2>5. UNCHANGED now
    BY DEF FinishLogin, Ends
  <2>6. user'.hash # 0
    BY <1>3, <2>1 DEF Inv, CallsSound, FinishLogin, Ends, LoginStands
  <2> QED
    BY <2>1, <2>2, <2>3, <2>4, <2>5, <2>6, OpenSessionKeepsInv DEF Inv, TypeOK
<1> QED BY <1>1, <1>2, <1>3 DEF FinishLogin

LEMMA FinishChangePasswordKeepsInv ==
  ASSUME Inv, NEW c \in Clients, FinishChangePassword(c) PROVE Inv'
<1>1. CASE Refused
  BY <1>1, RefusedKeepsInv DEF FinishChangePassword
<1>2. CASE ~Refused
  <2>1. /\ PasswordReplaced(calls[c].next)
        /\ revoked' = revoked \cup Families
        /\ UNCHANGED <<issued, guesses>>
    BY <1>2 DEF FinishChangePassword
  <2>2. calls[c].next \in Passwords
    BY CallFields DEF Inv, FinishChangePassword, Ends
  <2>3. user' \in User /\ user'.hash # 0 /\ live' = {}
    <3>1. user \in User /\ user.hash + 1 \in Nat \ {0}
      BY DEF Inv, TypeOK, User
    <3>2. /\ user' = [user EXCEPT !.hash = user.hash + 1,
                                  !.password = calls[c].next]
          /\ live' = {}
      BY <2>1 DEF PasswordReplaced
    <3> QED BY <2>2, <3>1, <3>2 DEF User
  <2>4. revoked' \subseteq DOMAIN issued
    BY <2>1 DEF Inv, Families, Lineage, RevokedWereIssued
  <2>5. calls' \in [Clients -> Call] /\ CallsSound'
    BY <2>1, EndsKeepsCalls DEF Inv, FinishChangePassword
  <2>6. UNCHANGED now
    BY DEF FinishChangePassword, Ends
  <2> QED
    BY <2>1, <2>3, <2>4, <2>5, <2>6, RemovalKeepsInv DEF Inv, TypeOK
<1> QED BY <1>1, <1>2

LEMMA FinishRefreshKeepsInv ==
  ASSUME Inv, NEW c \in Clients, FinishRefresh(c) PROVE Inv'
<1> DEFINE t == calls[c].token
<1>1. CASE Refused
  BY <1>1, RefusedKeepsInv DEF FinishRefresh
<1>2. CASE ~Refused
  <2>1. /\ t \in live
        /\ ContinueSession(live \ {t}, t)
        /\ UNCHANGED <<user, revoked, guesses>>
    BY <1>2 DEF FinishRefresh, Consumable
  <2>2. calls' \in [Clients -> Call] /\ CallsSound'
    <3>1. DOMAIN issued \subseteq DOMAIN issued'
      BY <2>1 DEF Inv, TypeOK, ContinueSession
    <3> QED BY <3>1, EndsKeepsCalls DEF Inv, FinishRefresh
  <2>3. UNCHANGED now
    BY DEF FinishRefresh, Ends
  <2> HIDE DEF t
  <2> QED BY <2>1, <2>2, <2>3, ContinueSessionKeepsInv
<1> QED BY <1>1, <1>2

LEMMA FinishBrowserLogoutKeepsInv ==
  ASSUME Inv, NEW c \in Clients, FinishBrowserLogout(c) PROVE Inv'
<1> DEFINE t == calls[c].token
<1>1. t \in DOMAIN issued
  BY DEF Inv, CallsSound, FinishBrowserLogout, Ends
<1>2. /\ live' = OutsideSession(t)
      /\ revoked' = revoked \cup {issued[t].family}
      /\ UNCHANGED <<user, issued, guesses>>
  BY DEF FinishBrowserLogout
<1>3. calls' \in [Clients -> Call] /\ CallsSound'
  BY <1>2, EndsKeepsCalls DEF Inv, FinishBrowserLogout
<1>4. UNCHANGED now
  BY DEF FinishBrowserLogout, Ends
<1> HIDE DEF t
<1>5. live' \subseteq live /\ revoked' \subseteq DOMAIN issued
  BY <1>1, <1>2 DEF Inv, OutsideSession, Lineage, RevokedWereIssued
<1>6. \A u \in live' : issued[u].family \notin revoked'
  BY <1>1, <1>2 DEF Inv, TypeOK, OutsideSession, Lineage,
     RevokedFamiliesStayDead
<1>7. TypeOK'
  <2>1. issued \in Seq(JWT) /\ live \subseteq DOMAIN issued
    BY DEF Inv, TypeOK
  <2>2. DOMAIN issued \subseteq Tokens
    BY <2>1 DEF Tokens
  <2>3. live' \subseteq DOMAIN issued' /\ revoked' \subseteq Tokens
    BY <1>2, <1>5, <2>1, <2>2
  <2>. QED
    BY <1>2, <1>3, <1>4, <2>3 DEF Inv, TypeOK
<1>8. Lineage' /\ RevokedWereIssued' /\ RevokedFamiliesStayDead'
  BY <1>2, <1>5, <1>6 DEF Inv, Lineage, RevokedWereIssued,
     RevokedFamiliesStayDead
<1>9. NoTokenBeforeInit' /\ OneRowPerSession'
  BY <1>2, <1>5 DEF Inv, NoTokenBeforeInit, OneRowPerSession
<1>10. SessionsHaveCurrentPassword' /\ NoTokenExchangedTwice'
  BY <1>2, <1>5 DEF Inv, SessionsHaveCurrentPassword, NoTokenExchangedTwice
<1> QED BY <1>3, <1>7, <1>8, <1>9, <1>10 DEF Inv

LEMMA BeginsKeepInv ==
  ASSUME Inv, NEW c \in Clients
  PROVE  /\ \A p \in Passwords : BeginInit(c, p) \/ BeginLogin(c, p) => Inv'
         /\ \A old, new \in Passwords : BeginChangePassword(c, old, new) => Inv'
         /\ \A t \in DOMAIN issued :
              BeginRefresh(c, t) \/ BeginBrowserLogout(c, t) => Inv'
<1>1. ASSUME NEW p \in Passwords, BeginInit(c, p) PROVE Inv'
  BY <1>1, BeginKeepsInv DEF BeginInit, Call
<1>2. ASSUME NEW p \in Passwords, BeginLogin(c, p) PROVE Inv'
  <2> DEFINE call == [op |-> "login", hash |-> user.hash,
                      matches |-> p = user.password]
  <2>1. user.hash \in Nat /\ user.hash # 0
    BY <1>2 DEF Inv, TypeOK, User, BeginLogin, Initialized
  <2>2. (p = user.password) \in BOOLEAN
    OBVIOUS
  <2>3. call \in Call
    BY <2>1, <2>2 DEF Call
  <2>4. call.op = "login" /\ call.hash # 0 /\ Begin(c, call)
    BY <1>2, <2>1 DEF BeginLogin
  <2> HIDE DEF call
  <2> QED BY <2>3, <2>4, BeginKeepsInv
<1>3. ASSUME NEW old \in Passwords, NEW new \in Passwords,
             BeginChangePassword(c, old, new)
      PROVE  Inv'
  <2>1. user.hash \in Nat
    BY DEF Inv, TypeOK, User
  <2> QED BY <1>3, <2>1, BeginKeepsInv DEF BeginChangePassword, Call
<1>4. ASSUME NEW t \in DOMAIN issued, BeginRefresh(c, t) PROVE Inv'
  <2>1. t \in Tokens
    BY DEF Inv, TypeOK, Tokens
  <2> QED BY <1>4, <2>1, BeginKeepsInv DEF BeginRefresh, Call
<1>5. ASSUME NEW t \in DOMAIN issued, BeginBrowserLogout(c, t) PROVE Inv'
  <2>1. t \in Tokens
    BY DEF Inv, TypeOK, Tokens
  <2> QED BY <1>5, <2>1, BeginKeepsInv DEF BeginBrowserLogout, Call
<1> QED BY <1>1, <1>2, <1>3, <1>4, <1>5

LEMMA NextKeepsInv == Inv /\ [Next]_vars => Inv'
<1> SUFFICES ASSUME Inv, [Next]_vars PROVE Inv'
  OBVIOUS
<1>1. CASE Logout
  BY <1>1, LogoutKeepsInv
<1>2. CASE Tick
  BY <1>2, TickKeepsInv
<1>3. ASSUME NEW c \in Clients,
             \/ \E p \in Passwords : BeginInit(c, p) \/ BeginLogin(c, p)
             \/ \E old, new \in Passwords : BeginChangePassword(c, old, new)
             \/ \E t \in DOMAIN issued :
                  BeginRefresh(c, t) \/ BeginBrowserLogout(c, t)
      PROVE  Inv'
  BY <1>3, BeginsKeepInv
<1>4. ASSUME NEW c \in Clients,
             \/ FinishInit(c) \/ FinishLogin(c) \/ FinishChangePassword(c)
             \/ FinishRefresh(c) \/ FinishBrowserLogout(c)
      PROVE  Inv'
  BY <1>4, FinishInitKeepsInv, FinishLoginKeepsInv,
     FinishChangePasswordKeepsInv, FinishRefreshKeepsInv,
     FinishBrowserLogoutKeepsInv
<1>5. CASE UNCHANGED vars
  BY <1>5 DEF vars, Inv, TypeOK, Lineage, RevokedWereIssued, CallsSound,
     NoTokenBeforeInit, OneRowPerSession, SessionsHaveCurrentPassword,
     NoTokenExchangedTwice, RevokedFamiliesStayDead
<1> QED BY <1>1, <1>2, <1>3, <1>4, <1>5 DEF Next

LEMMA InvHolds == Spec => []Inv
<1> QED BY InitInv, NextKeepsInv, PTL DEF Spec

-----------------------------------------------------------------------------
\* Rows, tokens and calls keep their types.
THEOREM TypeCorrect == Spec => []TypeOK
<1>1. Inv => TypeOK
  BY DEF Inv
<1> QED BY <1>1, InvHolds, PTL

\* The row a rotation inserts never meets another row with its primary key.
THEOREM SessionHasOneRow == Spec => []OneRowPerSession
<1>1. Inv => OneRowPerSession
  BY DEF Inv
<1> QED BY <1>1, InvHolds, PTL

\* Whatever the interleaving of logins, refreshes and changes of password,
\* every stored session was opened with the password stored now.
THEOREM SessionsFollowThePassword == Spec => []SessionsHaveCurrentPassword
<1>1. Inv => SessionsHaveCurrentPassword
  BY DEF Inv
<1> QED BY <1>1, InvHolds, PTL

\* A refresh token is exchanged at most once.
THEOREM TokensAreSpentOnce == Spec => []NoTokenExchangedTwice
<1>1. Inv => NoTokenExchangedTwice
  BY DEF Inv
<1> QED BY <1>1, InvHolds, PTL

\* A family that was logged out never gets a row again.
THEOREM LogoutIsFinal == Spec => []RevokedFamiliesStayDead
<1>1. Inv => RevokedFamiliesStayDead
  BY DEF Inv
<1> QED BY <1>1, InvHolds, PTL

\* Once there is a user, only a request that has proved the password replaces
\* it, however many initialisations and changes are in flight.
THEOREM PasswordNeedsProof == Spec => PasswordChangesAreProven
<1> DEFINE Changes == <<user.hash, user.password>>' # <<user.hash, user.password>>
           Proven(c) == /\ calls[c].op = "change" /\ calls[c].hash = user.hash
                        /\ calls[c].next = user'.password /\ calls'[c] = Idle
           Property == Initialized /\ Changes => \E c \in Clients : Proven(c)
<1>1. ASSUME Inv, Next, Initialized, Changes
      PROVE  \E c \in Clients : Proven(c)
  <2>1. user \in User /\ calls \in [Clients -> Call]
    BY <1>1 DEF Inv, TypeOK
  <2>2. ~Logout /\ ~Tick /\ \A c \in Clients : \A call : ~Begin(c, call)
    BY <1>1 DEF Logout, Tick, Begin
  <2>3. ASSUME NEW c \in Clients
        PROVE  ~FinishInit(c) /\ ~FinishRefresh(c) /\ ~FinishBrowserLogout(c)
    BY <1>1 DEF FinishInit, FinishRefresh, FinishBrowserLogout, Refused
  <2>4. ASSUME NEW c \in Clients
        PROVE  ~FinishLogin(c)
    BY <1>1, <2>1
    DEF FinishLogin, Refused, FailedLogin, SuccessfulLogin, User
  <2>5. PICK c \in Clients : FinishChangePassword(c)
    BY <1>1, <2>2, <2>3, <2>4
    DEF Next, BeginInit, BeginLogin, BeginChangePassword, BeginRefresh,
        BeginBrowserLogout
  <2>6. ~Refused
    BY <1>1 DEF Refused
  <2>7. Proven(c)
    BY <2>1, <2>5, <2>6 DEF FinishChangePassword, Ends, PasswordReplaced, User
  <2>. QED
    BY <2>7
<1>2. Inv /\ [Next]_vars => [Property]_vars
  BY <1>1
<1>. QED
  BY <1>2, InvHolds, PTL DEF Spec, PasswordChangesAreProven

-----------------------------------------------------------------------------
(***************************************************************************)
(* Guesses.  The failure count outlives the lock: from MaxFailures on every *)
(* wrong password locks again, so that the last one is LockPeriod before    *)
(* the end of the last lock.                                                *)
(***************************************************************************)
Window(first) == {t \in Times : t >= first /\ t < first + LockPeriod}

GuessesSound ==
  /\ SumFunctionOnSet(guesses, Times) <= user.failures
  /\ \A t \in Times : t > now => guesses[t] = 0
  /\ user.failures >= MaxFailures =>
       \A t \in Times : t + LockPeriod > user.lockedUntil => guesses[t] = 0
  /\ user.hash = 0 => user.failures = 0
  /\ \A first \in Times :
       SumFunctionOnSet(guesses, Window(first)) <= MaxFailures

LEMMA GuessesFinite ==
  /\ IsFiniteSet(Times) /\ Times \subseteq Nat
  /\ \A first \in Times :
       IsFiniteSet(Window(first)) /\ Window(first) \subseteq Times
<1>1. IsFiniteSet(Times) /\ Times \subseteq Nat
  BY AuthAssumption, FS_Interval DEF Times
<1>. QED
  BY <1>1, FS_Subset DEF Window

\* No guess yet, or none since the last login.
LEMMA NoGuesses ==
  ASSUME NEW f, \A t \in Times : f[t] = 0
  PROVE  /\ SumFunctionOnSet(f, Times) = 0
         /\ \A first \in Times : SumFunctionOnSet(f, Window(first)) = 0
<1>1. \A first \in Times : \A t \in Window(first) : f[t] = 0
  BY GuessesFinite
<1>2. SumFunctionOnSet(f, Times) = 0
  BY GuessesFinite, SumZero
<1>3. ASSUME NEW first \in Times
      PROVE  SumFunctionOnSet(f, Window(first)) = 0
  <2>1. IsFiniteSet(Window(first)) /\ \A t \in Window(first) : f[t] = 0
    BY <1>1, GuessesFinite
  <2>. QED
    BY <2>1, SumZero
<1>. QED
  BY <1>2, <1>3

\* g counts one guess more than f, at m.
OneMore(f, g, m) ==
  /\ \A t \in Times : f[t] \in Nat /\ g[t] \in Nat
  /\ \A t \in Times \ {m} : f[t] = g[t]
  /\ g[m] = f[m] + 1

SumAdds(f, g, m, S) ==
  /\ SumFunctionOnSet(f, S) \in Nat
  /\ m \in S => SumFunctionOnSet(g, S) = SumFunctionOnSet(f, S) + 1
  /\ m \notin S => SumFunctionOnSet(g, S) = SumFunctionOnSet(f, S)

\* A wrong password adds one to the sums of the windows it falls in.
LEMMA GuessAdds ==
  ASSUME NEW f, NEW g, NEW m \in Times, NEW S \in SUBSET Times,
         OneMore(f, g, m)
  PROVE  SumAdds(f, g, m, S)
<1>1. IsFiniteSet(S)
  BY GuessesFinite, FS_Subset
<1>2. /\ \A t \in S : f[t] \in Int /\ g[t] \in Int
      /\ \A t \in S : f[t] \in Nat
      /\ \A t \in S \ {m} : f[t] = g[t]
      /\ f[m] \in Int /\ g[m] = f[m] + 1
  BY DEF OneMore
<1>3. SumFunctionOnSet(f, S) \in Nat
  BY <1>1, <1>2, SumNat
<1>4. CASE m \in S
  <2>1. SumFunctionOnSet(g, S) = SumFunctionOnSet(f, S) + (g[m] - f[m])
    BY <1>1, <1>2, <1>4, SumChange
  <2>2. g[m] - f[m] = 1
    BY <1>2
  <2>. QED
    BY <1>3, <1>4, <2>1, <2>2 DEF SumAdds
<1>5. CASE m \notin S
  <2>1. \A t \in S : f[t] \in Int /\ f[t] = g[t]
    BY <1>2, <1>5
  <2>2. SumFunctionOnSet(f, S) = SumFunctionOnSet(g, S)
    BY <1>1, <2>1, SumEqual
  <2>. QED
    BY <1>3, <1>5, <2>2 DEF SumAdds
<1>. QED
  BY <1>4, <1>5

LEMMA FailedLoginBounded ==
  ASSUME TypeOK, GuessesSound, FailedLogin, ~Locked, user.hash # 0,
         UNCHANGED now
  PROVE  GuessesSound'
<1> DEFINE total == SumFunctionOnSet(guesses, Times)
           failures == user.failures + 1
<1>1. /\ user.failures \in Nat /\ user.lockedUntil \in Nat /\ now \in Times
      /\ now \in Nat /\ guesses \in [Times -> Nat]
      /\ MaxFailures \in Nat /\ LockPeriod \in Nat \ {0}
  BY AuthAssumption, GuessesFinite DEF TypeOK, User
<1>2. /\ guesses' = [guesses EXCEPT ![now] = guesses[now] + 1]
      /\ user'.failures = failures /\ user'.hash = user.hash
      /\ failures >= MaxFailures => user'.lockedUntil = now + LockPeriod
  BY DEF FailedLogin, TypeOK, User
<1>g. ASSUME NEW S \in SUBSET Times
      PROVE  SumAdds(guesses, guesses', now, S)
  <2> DEFINE next == guesses'
  <2>1. OneMore(guesses, next, now)
    BY <1>1, <1>2 DEF OneMore
  <2> HIDE DEF next
  <2>2. SumAdds(guesses, next, now, S)
    BY <1>1, <2>1, GuessAdds
  <2>. QED
    BY <2>2 DEF next
<1>3. /\ SumFunctionOnSet(guesses', Times) = total + 1
      /\ total \in Nat
  <2>1. SumAdds(guesses, guesses', now, Times)
    BY <1>g
  <2>. QED
    BY <1>1, <2>1 DEF SumAdds
<1>4. SumFunctionOnSet(guesses', Times) <= user'.failures
  BY <1>1, <1>2, <1>3 DEF GuessesSound
<1>5. \A t \in Times : t > now => guesses'[t] = 0
  BY <1>1, <1>2, GuessesFinite DEF GuessesSound
<1>6. user'.failures >= MaxFailures =>
        \A t \in Times : t + LockPeriod > user'.lockedUntil => guesses'[t] = 0
  BY <1>1, <1>2, <1>5, GuessesFinite
<1>7. ASSUME NEW first \in Times
      PROVE  SumFunctionOnSet(guesses', Window(first)) <= MaxFailures
  <2> DEFINE S == Window(first)
             sum == SumFunctionOnSet(guesses, S)
             after == SumFunctionOnSet(guesses', S)
  <2>1. IsFiniteSet(S) /\ S \in SUBSET Times
    BY GuessesFinite
  <2>2. sum \in Nat /\ sum <= MaxFailures
    <3>1. \A t \in S : guesses[t] \in Nat
      BY <1>1, <2>1
    <3>. QED
      BY <2>1, <3>1, SumNat DEF GuessesSound
  <2>3. /\ now \in S => after = sum + 1
        /\ now \notin S => after = sum
    <3>1. SumAdds(guesses, guesses', now, S)
      BY <1>g, <2>1
    <3>. QED
      BY <3>1 DEF SumAdds
  <2>4. sum <= total
    BY <1>1, <2>1, GuessesFinite, SumSubset
  <2> HIDE DEF total, sum, after, S
  <2>5. CASE now \notin S
    BY <2>2, <2>3, <2>5 DEF after, S
  <2>6. CASE now \in S /\ user.failures < MaxFailures
    <3>1. total <= user.failures
      BY DEF GuessesSound, total
    <3>. QED
      BY <1>1, <1>3, <2>2, <2>3, <2>4, <2>6, <3>1 DEF after, S, total
  <2>7. CASE now \in S /\ user.failures >= MaxFailures
    <3>1. now >= user.lockedUntil
      BY <1>1 DEF Locked
    <3>2. \A t \in S : t + LockPeriod > now /\ t \in Nat
      BY <1>1, <2>7, GuessesFinite, AuthAssumption DEF S, Window
    <3>3. \A t \in S : t + LockPeriod > user.lockedUntil
      BY <1>1, <3>1, <3>2
    <3>4. \A t \in S : guesses[t] = 0
      BY <2>1, <2>7, <3>3 DEF GuessesSound
    <3>5. sum = 0
      BY <2>1, <3>4, SumZero DEF sum
    <3>6. 1 <= MaxFailures
      BY AuthAssumption
    <3>. QED
      BY <2>3, <2>7, <3>5, <3>6 DEF after, S
  <2>. QED
    BY <1>1, <2>5, <2>6, <2>7 DEF after, S
<1>. QED
  BY <1>2, <1>4, <1>5, <1>6, <1>7 DEF GuessesSound

\* A login forgets the failures, and what the guesses were.
LEMMA ForgottenBounded ==
  ASSUME \A t \in Times : guesses'[t] = 0, user'.failures = 0
  PROVE  GuessesSound'
<1>1. /\ SumFunctionOnSet(guesses', Times) = 0
      /\ \A first \in Times : SumFunctionOnSet(guesses', Window(first)) = 0
  BY NoGuesses
<1>2. MaxFailures \in Nat /\ 0 <= MaxFailures /\ ~(0 >= MaxFailures)
  BY AuthAssumption
<1>. QED
  BY <1>1, <1>2 DEF GuessesSound

LEMMA NextGuessesSound ==
  Inv /\ GuessesSound /\ [Next]_vars => GuessesSound'
<1> SUFFICES ASSUME Inv, GuessesSound, [Next]_vars
             PROVE  GuessesSound'
  OBVIOUS
<1>0. TypeOK /\ user.failures \in Nat
  BY DEF Inv, TypeOK, User
<1>1. ASSUME UNCHANGED <<user, guesses, now>>
      PROVE  GuessesSound'
  BY <1>1 DEF GuessesSound
<1>2. CASE Logout \/ UNCHANGED vars
  BY <1>1, <1>2 DEF Logout, vars
<1>3. CASE Tick
  <2>1. now' = now + 1 /\ now \in Nat /\ UNCHANGED <<user, guesses>>
    BY <1>0, <1>3, GuessesFinite DEF Tick, TypeOK
  <2>2. \A t \in Times : t > now' => guesses[t] = 0
    BY <2>1, GuessesFinite DEF GuessesSound
  <2>. QED
    BY <2>1, <2>2 DEF GuessesSound
<1>4. ASSUME NEW c \in Clients, NEW call, Begin(c, call)
      PROVE  GuessesSound'
  BY <1>1, <1>4 DEF Begin
<1>5. ASSUME NEW c \in Clients, FinishInit(c)
      PROVE  GuessesSound'
  <2>1. CASE Refused
    BY <1>1, <1>5, <2>1 DEF FinishInit, Ends, Refused
  <2>2. CASE ~Refused
    <3>1. user.hash = 0 /\ user'.failures = 0 /\ UNCHANGED guesses
      BY <1>5, <2>2 DEF FinishInit, Initialized
    <3>2. SumFunctionOnSet(guesses, Times) <= 0
      BY <3>1 DEF GuessesSound
    <3>3. /\ SumFunctionOnSet(guesses, Times) \in Nat
          /\ \A t \in Times : guesses[t] <= SumFunctionOnSet(guesses, Times)
          /\ \A t \in Times : guesses[t] \in Nat
      BY <1>0, GuessesFinite, SumNat DEF TypeOK
    <3>4. \A t \in Times : guesses[t] = 0
      BY <3>2, <3>3
    <3>. QED
      BY <3>1, <3>4, ForgottenBounded
  <2>. QED
    BY <2>1, <2>2
<1>6. ASSUME NEW c \in Clients, FinishLogin(c)
      PROVE  GuessesSound'
  <2>1. UNCHANGED now
    BY <1>6 DEF FinishLogin, Ends
  <2>2. CASE Refused
    BY <1>1, <2>1, <2>2 DEF Refused
  <2>3. CASE LoginStands(calls[c]) /\ FailedLogin
    <3>1. user.hash # 0
      BY <1>6, <2>3 DEF Inv, CallsSound, FinishLogin, Ends, LoginStands
    <3>. QED
      BY <1>0, <2>1, <2>3, <3>1, FailedLoginBounded DEF LoginStands
  <2>4. CASE SuccessfulLogin(calls[c])
    <3>1. user'.failures = 0 /\ \A t \in Times : guesses'[t] = 0
      BY <1>0, <2>4 DEF SuccessfulLogin, TypeOK, User
    <3>. QED
      BY <3>1, ForgottenBounded
  <2>. QED
    BY <1>6, <2>2, <2>3, <2>4 DEF FinishLogin
<1>7. ASSUME NEW c \in Clients, FinishChangePassword(c)
      PROVE  GuessesSound'
  <2>1. CASE Refused
    BY <1>1, <1>7, <2>1 DEF FinishChangePassword, Ends, Refused
  <2>2. CASE ~Refused
    <3>1. /\ user'.failures = user.failures
          /\ user'.lockedUntil = user.lockedUntil
          /\ user'.hash = user.hash + 1 /\ user.hash \in Nat
          /\ UNCHANGED <<now, guesses>>
      BY <1>0, <1>7, <2>2
      DEF FinishChangePassword, Ends, PasswordReplaced, TypeOK, User
    <3>2. user'.hash # 0
      BY <3>1
    <3>. QED
      BY <3>1, <3>2 DEF GuessesSound
  <2>. QED
    BY <2>1, <2>2
<1>8. ASSUME NEW c \in Clients, FinishRefresh(c) \/ FinishBrowserLogout(c)
      PROVE  GuessesSound'
  BY <1>1, <1>8 DEF FinishRefresh, FinishBrowserLogout, Ends, Refused
<1>. QED
  BY <1>2, <1>3, <1>4, <1>5, <1>6, <1>7, <1>8
  DEF Next, BeginInit, BeginLogin, BeginChangePassword, BeginRefresh,
      BeginBrowserLogout

LEMMA InitGuessesSound == Init => GuessesSound
<1> SUFFICES ASSUME Init PROVE GuessesSound
  OBVIOUS
<1>1. /\ \A t \in Times : guesses[t] = 0
      /\ user.failures = 0
  BY DEF Init
<1>2. /\ SumFunctionOnSet(guesses, Times) = 0
      /\ \A first \in Times : SumFunctionOnSet(guesses, Window(first)) = 0
  BY <1>1, NoGuesses
<1>3. 0 <= MaxFailures /\ ~(0 >= MaxFailures)
  BY AuthAssumption
<1>. QED
  BY <1>1, <1>2, <1>3 DEF GuessesSound

\* However many logins are inside bcrypt when the user locks, and however many
\* lock periods follow each other, no LockPeriod sees more wrong passwords
\* judged than MaxFailures (Login and recordFailedLogin in service/auth.go).
THEOREM GuessesStayBounded == Spec => []GuessesAreBounded
<1>1. Init => Inv /\ GuessesSound
  BY InitInv, InitGuessesSound
<1>2. Inv /\ GuessesSound /\ [Next]_vars => (Inv /\ GuessesSound)'
  BY NextKeepsInv, NextGuessesSound
<1>3. GuessesSound => GuessesAreBounded
  BY DEF GuessesSound, GuessesAreBounded, Window
<1> QED
  BY <1>1, <1>2, <1>3, PTL DEF Spec

=============================================================================
