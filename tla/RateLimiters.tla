---------------------------- MODULE RateLimiters ----------------------------
(***************************************************************************)
(* The in-memory limiters of middleware/rate_limiter.go, as the login      *)
(* handler of handler/auth.go uses them: failed logins are counted per     *)
(* address and per account, five in five minutes lock the key, and every   *)
(* request is counted per address.  A login is checked first and recorded  *)
(* only after the password was judged, so logins overlap.                  *)
(*                                                                         *)
(* The lists of times are appended to in the order of the clock, and only  *)
(* counted and cut by age: here, how many of them fall in each minute.     *)
(***************************************************************************)
EXTENDS Integers, FiniteSets, Functions

CONSTANTS Logins,          \* login requests being served
          Addresses, Accounts,
          MaxLoginAttempts, Window, LockDuration, MaxEntries,
          RequestLimit, RequestWindow,
          EndOfTime, MaxLogins        \* bounds

ASSUME LimiterAssumption ==
  /\ Addresses \cap Accounts = {}
  /\ IsFiniteSet(Addresses) /\ IsFiniteSet(Accounts) /\ IsFiniteSet(Logins)
  /\ {MaxLoginAttempts, Window, LockDuration, MaxEntries, RequestLimit, RequestWindow}
       \subseteq Nat \ {0}
  /\ {EndOfTime, MaxLogins} \subseteq Nat

VARIABLES
  minute,     \* the clock
  attempts,   \* ipAttempts and accountAttempts: key -> LoginAttempt
  logins,     \* what every login request is doing
  made,       \* logins so far
  refusedTill,\* key -> the end of the lock it was last told of (history)
  requestTimes,   \* GlobalRateLimiter.requests: address -> times
  allowed     \* requests let through, by address and minute (history)

limiterVars == <<minute, attempts, logins, made, refusedTill, requestTimes, allowed>>

LimiterKeys == Addresses \cup Accounts
Minutes == 0..EndOfTime
NoTimes == [t \in Minutes |-> 0]
NoLogin == [pc |-> "idle", ip |-> CHOOSE a \in Addresses : TRUE,
            account |-> CHOOSE a \in Accounts : TRUE]

LimiterTypeOK ==
  /\ minute \in Minutes /\ made \in 0..MaxLogins
  /\ DOMAIN attempts \subseteq LimiterKeys /\ DOMAIN requestTimes \subseteq Addresses
  /\ \A k \in DOMAIN attempts :
       /\ attempts[k].times \in [Minutes -> 0..MaxLogins]
       /\ attempts[k].until \in -1..EndOfTime + LockDuration
       /\ attempts[k].seen \in Minutes
  /\ \A a \in DOMAIN requestTimes :
       requestTimes[a] \in [Minutes -> 0..RequestLimit] \ {NoTimes}
  /\ logins \in [Logins -> [pc : {"idle", "account", "judge", "record"},
                            ip : Addresses, account : Accounts]]
  /\ refusedTill \in [LimiterKeys -> -1..EndOfTime + LockDuration]

LimiterInit ==
  /\ minute = 0 /\ attempts = <<>> /\ made = 0
  /\ logins = [l \in Logins |-> NoLogin]
  /\ refusedTill = [k \in LimiterKeys |-> -1]
  /\ requestTimes = <<>> /\ allowed = [a \in Addresses |-> NoTimes]

-----------------------------------------------------------------------------
Number(times) == SumFunctionOnSet(times, Minutes)
Recent(times, window) ==
  [t \in Minutes |-> IF minute - t < window THEN times[t] ELSE 0]
WithNow(times) == [times EXCEPT ![minute] = @ + 1]
Put(f, k, v) == [x \in DOMAIN f \cup {k} |-> IF x = k THEN v ELSE f[x]]
WithoutEntries(f, ks) == [x \in DOMAIN f \ ks |-> f[x]]

\* What CheckIP and CheckAccount find for a key, and what they make of it.
Entry(k) == [attempts[k] EXCEPT !.seen = minute]
Unlocked(k) == minute >= attempts[k].until
Cleaned(k) == [Entry(k) EXCEPT !.times = Recent(@, Window)]

\* Mutant: a lock is only remembered while its attempts are.
CheckedForgetful(k) ==
  IF k \notin DOMAIN attempts THEN [ok |-> TRUE, entries |-> attempts]
  ELSE IF Number(Cleaned(k).times) = 0
    THEN [ok |-> TRUE, entries |-> WithoutEntries(attempts, {k})]
  ELSE IF ~Unlocked(k) THEN [ok |-> FALSE, entries |-> Put(attempts, k, Entry(k))]
  ELSE IF Number(Cleaned(k).times) >= MaxLoginAttempts
    THEN [ok |-> FALSE, entries |->
            Put(attempts, k, [Cleaned(k) EXCEPT !.until = minute + LockDuration])]
  ELSE [ok |-> TRUE, entries |-> Put(attempts, k, Cleaned(k))]

\* CheckIP, CheckAccount
Checked(k) ==
  IF k \notin DOMAIN attempts THEN [ok |-> TRUE, entries |-> attempts]
  ELSE IF ~Unlocked(k) THEN [ok |-> FALSE, entries |-> Put(attempts, k, Entry(k))]
  ELSE IF Number(Cleaned(k).times) = 0
    THEN [ok |-> TRUE, entries |-> WithoutEntries(attempts, {k})]
  ELSE IF Number(Cleaned(k).times) >= MaxLoginAttempts
    THEN [ok |-> FALSE, entries |->
            Put(attempts, k, [Cleaned(k) EXCEPT !.until = minute + LockDuration])]
  ELSE [ok |-> TRUE, entries |-> Put(attempts, k, Cleaned(k))]

Told(k, checked) ==
  IF checked.ok THEN refusedTill
  ELSE [refusedTill EXCEPT ![k] = checked.entries[k].until]

RequestState == <<requestTimes, allowed>>

\* RateLimiter.Middleware: the address is checked.
CheckIP(l, ip, account) ==
  LET c == Checked(ip)
  IN  /\ logins[l].pc = "idle" /\ made < MaxLogins
      /\ made' = made + 1
      /\ attempts' = c.entries /\ refusedTill' = Told(ip, c)
      /\ logins' = IF c.ok
                   THEN [logins EXCEPT ![l] = [pc |-> "account", ip |-> ip,
                                               account |-> account]]
                   ELSE logins
      /\ UNCHANGED <<minute, RequestState>>

\* AuthHandler.Login: then the account is.
CheckAccount(l) ==
  LET k == logins[l].account
      c == Checked(k)
  IN  /\ logins[l].pc = "account"
      /\ attempts' = c.entries /\ refusedTill' = Told(k, c)
      /\ logins' = [logins EXCEPT ![l] = IF c.ok THEN [@ EXCEPT !.pc = "judge"]
                                         ELSE NoLogin]
      /\ UNCHANGED <<minute, made, RequestState>>

\* ensureLoginMapCapacity: the entry seen longest ago goes, even a locked one;
\* of several the map's order decides.
Evictable(kind) ==
  LET held == DOMAIN attempts \cap kind
  IN  IF Cardinality(held) < MaxEntries THEN {{}}
      ELSE {{k} : k \in {x \in held : \A y \in held :
                            attempts[x].seen <= attempts[y].seen}}

\* The entries with one more attempt of k, "evicted" making room for it.
Recorded(entries, k, evicted) ==
  IF k \in DOMAIN entries
  THEN [entries EXCEPT ![k].times = WithNow(@), ![k].seen = minute]
  ELSE Put(WithoutEntries(entries, evicted), k,
           [times |-> WithNow(NoTimes), until |-> -1, seen |-> minute])

\* A wrong password: RecordAttempt for the address and for the account.
RecordAttempt(l) ==
  /\ logins[l].pc = "judge"
  /\ \E ips \in IF logins[l].ip \in DOMAIN attempts THEN {{}} ELSE Evictable(Addresses),
        accounts \in IF logins[l].account \in DOMAIN attempts THEN {{}}
                     ELSE Evictable(Accounts) :
       /\ attempts' = Recorded(Recorded(attempts, logins[l].ip, ips),
                               logins[l].account, accounts)
       /\ refusedTill' = [k \in LimiterKeys |-> IF k \in ips \cup accounts THEN -1
                                         ELSE refusedTill[k]]
  /\ logins' = [logins EXCEPT ![l] = NoLogin]
  /\ UNCHANGED <<minute, made, RequestState>>

\* The right password: ResetAccount, which lifts a lock begun meanwhile.
ResetAccount(l) ==
  /\ logins[l].pc = "judge"
  /\ attempts' = WithoutEntries(attempts, {logins[l].account})
  /\ refusedTill' = [refusedTill EXCEPT ![logins[l].account] = -1]
  /\ logins' = [logins EXCEPT ![l] = NoLogin]
  /\ UNCHANGED <<minute, made, RequestState>>

\* Judging failed for another reason: nothing is counted.
LoginFails(l) ==
  /\ logins[l].pc = "judge"
  /\ logins' = [logins EXCEPT ![l] = NoLogin]
  /\ UNCHANGED <<minute, attempts, made, refusedTill, RequestState>>

\* cleanupMapAt on both maps
Cleanup ==
  LET expired == {k \in DOMAIN attempts : Number(Cleaned(k).times) = 0 /\ Unlocked(k)}
  IN  /\ attempts' = [k \in DOMAIN attempts \ expired |->
                        [attempts[k] EXCEPT !.times = Recent(@, Window)]]
      /\ UNCHANGED <<minute, logins, made, refusedTill, RequestState>>

-----------------------------------------------------------------------------
\* GlobalRateLimiter.cleanupAt
CleanedRequests ==
  LET kept(a) == Recent(requestTimes[a], RequestWindow)
  IN  [a \in {x \in DOMAIN requestTimes : Number(kept(x)) # 0} |-> kept(a)]

\* ensureCapacity on what is left: the address whose last request is oldest.
NoneAfter(times, t) == \A s \in Minutes : times[s] # 0 => s <= t
Oldest(r) ==
  IF Cardinality(DOMAIN r) < MaxEntries THEN {{}}
  ELSE {{a} : a \in {x \in DOMAIN r : \A y \in DOMAIN r : \A t \in Minutes :
                        NoneAfter(r[y], t) => NoneAfter(r[x], t)}}

LimiterState == <<attempts, logins, made, refusedTill>>

\* Mutant: a request at the limit is let through once more.
AllowOneMore(ip) ==
  LET valid == Recent(requestTimes[ip], RequestWindow) IN
    /\ ip \in DOMAIN requestTimes
    /\ IF Number(valid) > RequestLimit
       THEN requestTimes' = [requestTimes EXCEPT ![ip] = valid] /\ UNCHANGED allowed
       ELSE /\ requestTimes' = [requestTimes EXCEPT ![ip] = WithNow(valid)]
            /\ allowed' = [allowed EXCEPT ![ip] = WithNow(@)]
    /\ UNCHANGED <<minute, LimiterState>>

\* GlobalRateLimiter.Allow for an address it holds
Allow(ip) ==
  LET valid == Recent(requestTimes[ip], RequestWindow) IN
    /\ ip \in DOMAIN requestTimes
    /\ IF Number(valid) >= RequestLimit
       THEN requestTimes' = [requestTimes EXCEPT ![ip] = valid] /\ UNCHANGED allowed
       ELSE /\ requestTimes' = [requestTimes EXCEPT ![ip] = WithNow(valid)]
            /\ allowed' = [allowed EXCEPT ![ip] = WithNow(@)]
    /\ UNCHANGED <<minute, LimiterState>>

\* Allow for a new one: a full map is cleaned first, then loses its oldest
\* address, whose requests are forgotten.
AllowNew(ip) ==
  LET kept == IF Cardinality(DOMAIN requestTimes) >= MaxEntries THEN CleanedRequests
              ELSE requestTimes
  IN  /\ ip \notin DOMAIN requestTimes
      /\ \E gone \in Oldest(kept) :
           /\ requestTimes' =
                Put(WithoutEntries(kept, gone), ip, WithNow(NoTimes))
           /\ allowed' = [a \in Addresses |->
                            IF a \in gone THEN NoTimes
                            ELSE IF a = ip THEN WithNow(allowed[a]) ELSE allowed[a]]
      /\ UNCHANGED <<minute, LimiterState>>

CleanupRequests ==
  /\ requestTimes' = CleanedRequests
  /\ UNCHANGED <<minute, allowed, LimiterState>>

Minute ==
  /\ minute < EndOfTime /\ minute' = minute + 1
  /\ UNCHANGED <<LimiterState, RequestState>>

LoginNext ==
  \/ \E l \in Logins, ip \in Addresses, account \in Accounts : CheckIP(l, ip, account)
  \/ \E l \in Logins : CheckAccount(l) \/ RecordAttempt(l) \/ ResetAccount(l)
                       \/ LoginFails(l)
  \/ Cleanup

RequestNext ==
  \/ \E ip \in Addresses : Allow(ip) \/ AllowNew(ip)
  \/ CleanupRequests

LimiterNext == LoginNext \/ RequestNext \/ Minute

LimiterSpec == LimiterInit /\ [][LimiterNext]_limiterVars

-----------------------------------------------------------------------------
(* A key that was refused is not judged again before the end of the lock it *)
(* was told of, whatever is cleaned, recorded or checked meanwhile; only a  *)
(* successful login of the account or an eviction ends a lock early.        *)
LocksHold ==
  [][\A l \in Logins :
       /\ logins[l].pc = "idle" /\ logins'[l].pc = "account"
            => minute >= refusedTill[logins'[l].ip]
       /\ logins[l].pc = "account" /\ logins'[l].pc = "judge"
            => minute >= refusedTill[logins[l].account]]_limiterVars

(* The limit of failures is passed at most by the logins that were being    *)
(* judged when it was reached.                                              *)
FailuresAreBounded ==
  \A k \in DOMAIN attempts :
    Number(attempts[k].times) <= MaxLoginAttempts - 1 + Cardinality(Logins)

(* In no stretch of the window's length, also one that straddles a cleanup, *)
(* does an address get more requests through than its limit, unless it was  *)
(* evicted in between.                                                      *)
RequestsAreBounded ==
  \A ip \in Addresses, t \in Minutes :
    SumFunctionOnSet(allowed[ip], {s \in Minutes : t <= s /\ s < t + RequestWindow})
      <= RequestLimit

(* No map outgrows its bound, however many addresses there are.             *)
MapsAreBounded ==
  /\ Cardinality(DOMAIN requestTimes) <= MaxEntries
  /\ Cardinality(DOMAIN attempts \cap Addresses) <= MaxEntries
  /\ Cardinality(DOMAIN attempts \cap Accounts) <= MaxEntries

(* The bounds together: what every limiter promises at every moment.        *)
LimitsHold == FailuresAreBounded /\ RequestsAreBounded /\ MapsAreBounded

=============================================================================
