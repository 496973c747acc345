------------------------------ MODULE Accounts ------------------------------
(***************************************************************************)
(* User accounts, their sessions, and the administrator's operations on    *)
(* them, on several API instances that share PostgreSQL and Redis.         *)
(*                                                                         *)
(* A session is the pair of tokens of one GenerateTokens call; it is named *)
(* by a number.  PostgreSQL holds the user rows; Redis holds one refresh   *)
(* token per user, the revoked access tokens and the login counter of the  *)
(* client's address; every instance caches the revocations it has seen.    *)
(* Each await of a handler is a step.  A Redis command may fail before or  *)
(* after it took effect; an instance may restart.  Names, addresses, audit *)
(* rows and the cost of hashing are left out.                              *)
(***************************************************************************)
EXTENDS Naturals, FiniteSets

CONSTANTS
    Users,
    Administrators,     \* the users with role 1 at the start
    Passwords,
    Instances,
    Calls,              \* HTTP requests; each is sent once
    MaxSession,         \* GenerateTokens calls that are followed
    AccessTtl,          \* ACCESS_TOKEN_TTL
    RefreshTtl,         \* REFRESH_TOKEN_TTL
    LockTime,           \* the 15 minutes of a temporary lock
    FailureLimit,       \* LOGIN_FAILURE_LIMIT
    AddressLimit,       \* logins of one address in AddressWindow
    AddressWindow,
    MaxTime,
    Nobody              \* no user, no instance

ASSUME AccountAssumption ==
    /\ Administrators \subseteq Users
    /\ Nobody \notin Users \cup Instances
    /\ {MaxSession, AccessTtl, RefreshTtl, LockTime, FailureLimit, AddressLimit,
        AddressWindow, MaxTime} \subseteq Nat
    /\ FailureLimit > 0 /\ MaxTime > 0 /\ Passwords # {}
    /\ IsFiniteSet(Administrators) /\ Cardinality(Administrators) <= MaxSession

VARIABLES
    clock,
    user,        \* table users
    session,     \* [user, role, access, refresh]: who, and when the tokens expire
    refreshKey,  \* Redis refresh_token:<user>: the session stored, and its expiry
    revoked,     \* Redis blacklist: session |-> expiry, 0 when absent
    address,     \* Redis login counter of the address
    seen,        \* m_revocation_cache of an instance
    call,        \* what a request is doing and what it has read
    loggedOut,   \* history: sessions whose logout reported success
    rotated      \* history: successful rotations of a refresh token

accountVars == <<clock, user, session, refreshKey, revoked, address, seen, call, loggedOut, rotated>>

Sessions == 1..MaxSession
Never    == 0
Disabled == 0
Active   == 1
Locked   == 2

IdleCall == [pc |-> "idle", at |-> Nobody, op |-> "none", sid |-> 0,
             who |-> Nobody, role |-> 0, pw |-> CHOOSE p \in Passwords : TRUE,
             given |-> CHOOSE p \in Passwords : TRUE, arg |-> 0]

\* The start: every administrator is logged in.
AccountInit ==
    /\ clock = 1
    /\ user = [u \in Users |->
          [role |-> IF u \in Administrators THEN 1 ELSE 0, status |-> Active,
           attempts |-> 0, lockedUntil |-> Never, pw |-> CHOOSE p \in Passwords : TRUE]]
    /\ \E s \in [Administrators -> 1..Cardinality(Administrators)] :
          /\ \A u, v \in Administrators : s[u] = s[v] => u = v
          /\ session = [n \in Sessions |->
                IF \E u \in Administrators : s[u] = n
                THEN [user |-> CHOOSE u \in Administrators : s[u] = n, role |-> 1,
                      access |-> clock + AccessTtl, refresh |-> clock + RefreshTtl]
                ELSE [user |-> Nobody, role |-> 0, access |-> Never, refresh |-> Never]]
          /\ refreshKey = [u \in Users |->
                IF u \in Administrators THEN [sid |-> s[u], exp |-> clock + RefreshTtl]
                ELSE [sid |-> 0, exp |-> Never]]
    /\ revoked = [n \in Sessions |-> Never]
    /\ address = [count |-> 0, exp |-> Never]
    /\ seen = [i \in Instances |-> [n \in Sessions |-> Never]]
    /\ call = [c \in Calls |-> IdleCall]
    /\ loggedOut = {}
    /\ rotated = [n \in Sessions |-> 0]

-----------------------------------------------------------------------------
(* Statements and commands.                                                *)

Issued == {n \in Sessions : session[n].user # Nobody}

\* ValidateAccountAccess, with the database's clock.
AccountLocked(u) ==
    \/ user[u].status = Locked /\ user[u].lockedUntil = Never
    \/ user[u].lockedUntil > clock
ValidateAccountAccess(u) == user[u].status # Disabled /\ ~AccountLocked(u)

\* The condition of the two updates a login makes.
LoginUpdatable(u) ==
    \/ user[u].status = Active /\ user[u].lockedUntil <= clock
    \/ user[u].status = Locked /\ user[u].lockedUntil # Never /\ user[u].lockedUntil <= clock

\* GenerateTokens: the next session, for a user with the role that was read.
GenerateTokens(u, role) ==
    /\ Issued # Sessions
    /\ \E n \in Sessions \ Issued :
          /\ \A m \in Sessions \ Issued : n <= m
          /\ session' = [session EXCEPT ![n] = [user |-> u, role |-> role,
                            access |-> clock + AccessTtl, refresh |-> clock + RefreshTtl]]

NewSession == CHOOSE n \in Sessions \ Issued : \A m \in Sessions \ Issued : n <= m

\* RedisService::Set, Delete, CompareAndSwap: done, failed, or done and
\* reported as failed because the answer was lost.
RedisOutcome == [done : BOOLEAN, reported : BOOLEAN] \ {[done |-> FALSE, reported |-> TRUE]}

StoredRefresh(u) == IF refreshKey[u].exp > clock THEN refreshKey[u].sid ELSE 0

\* A request that has been answered keeps nothing.
Becomes(c, r) == call' = [call EXCEPT ![c] = IF r.pc = "done" THEN [IdleCall EXCEPT !.pc = "done"] ELSE r]
Goes(c, pc)   == Becomes(c, [call[c] EXCEPT !.pc = pc])
Answered(c)   == Goes(c, "done")

-----------------------------------------------------------------------------
(* AuthService::Login                                                      *)

\* The address' counter (fails open), then FindUser.
LoginStart(c, i, u, p) ==
    /\ call[c].pc = "idle"
    /\ \E o \in RedisOutcome :
          LET fresh == address.exp <= clock
              count == IF fresh THEN 1 ELSE address.count + 1
          IN /\ address' = IF ~o.done THEN address
                           ELSE [count |-> count, exp |-> IF fresh THEN clock + AddressWindow ELSE address.exp]
             /\ Becomes(c,
                   [call[c] EXCEPT !.pc = IF o.reported /\ count > AddressLimit THEN "done" ELSE "access",
                             !.op = "login", !.at = i, !.who = u, !.given = p,
                             !.role = user[u].role, !.pw = user[u].pw])
    /\ UNCHANGED <<clock, user, session, refreshKey, revoked, seen, loggedOut, rotated>>

LoginAccess(c) ==
    /\ call[c].pc = "access" /\ call[c].op = "login"
    /\ Goes(c, IF ValidateAccountAccess(call[c].who) THEN "password" ELSE "done")
    /\ UNCHANGED <<clock, user, session, refreshKey, revoked, address, seen, loggedOut, rotated>>

\* failed_login_attempts after one more wrong password.
FailedAttempts(u) ==
    IF user[u].lockedUntil # Never /\ user[u].lockedUntil <= clock THEN 1 ELSE user[u].attempts + 1

\* The deadline is set with the count that reaches the limit.
LockDeadline_AfterLimit(n) == IF n > FailureLimit THEN clock + LockTime ELSE Never
LockDeadline(n) == IF n >= FailureLimit THEN clock + LockTime ELSE Never

\* A wrong password: IncrementLoginAttempts, one conditional UPDATE.
IncrementLoginAttempts(u) ==
    user' = IF ~LoginUpdatable(u) THEN user
            ELSE [user EXCEPT ![u] = [@ EXCEPT !.status = Active, !.attempts = FailedAttempts(u),
                                               !.lockedUntil = LockDeadline(FailedAttempts(u))]]

LoginRejected(c) ==
    /\ call[c].pc = "password" /\ call[c].given # call[c].pw
    /\ IncrementLoginAttempts(call[c].who)
    /\ Answered(c)
    /\ UNCHANGED <<clock, session, refreshKey, revoked, address, seen, loggedOut, rotated>>

\* The right one: UpdateLoginInfo, which also clears the address' counter.
UpdateLoginInfo(c) ==
    /\ call[c].pc = "password" /\ call[c].given = call[c].pw
    /\ IF LoginUpdatable(call[c].who)
       THEN /\ user' = [user EXCEPT ![call[c].who] =
                  [@ EXCEPT !.status = Active, !.attempts = 0, !.lockedUntil = Never]]
            /\ \E o \in RedisOutcome :
                  address' = IF o.done THEN [count |-> 0, exp |-> Never] ELSE address
            /\ Goes(c, "issue")
       ELSE Answered(c) /\ UNCHANGED <<user, address>>
    /\ UNCHANGED <<clock, session, refreshKey, revoked, seen, loggedOut, rotated>>

\* The tokens are returned also when the refresh token could not be stored.
LoginIssue(c) ==
    /\ call[c].pc = "issue"
    /\ GenerateTokens(call[c].who, call[c].role)
    /\ \E o \in RedisOutcome :
          refreshKey' = IF o.done
                        THEN [refreshKey EXCEPT ![call[c].who] = [sid |-> NewSession, exp |-> clock + RefreshTtl]]
                        ELSE refreshKey
    /\ Answered(c)
    /\ UNCHANGED <<clock, user, revoked, address, seen, loggedOut, rotated>>

-----------------------------------------------------------------------------
(* AuthService::RefreshTokens                                              *)

\* VerifyRefreshToken, then the user's row.
RefreshStart(c, i, n) ==
    /\ call[c].pc = "idle"
    /\ Becomes(c,
          [call[c] EXCEPT !.pc = IF session[n].refresh > clock THEN "access" ELSE "done",
                    !.op = "refresh", !.at = i, !.sid = n, !.who = session[n].user,
                    !.role = user[session[n].user].role])
    /\ UNCHANGED <<clock, user, session, refreshKey, revoked, address, seen, loggedOut, rotated>>

RefreshAccess(c) ==
    /\ call[c].pc = "access" /\ call[c].op = "refresh"
    /\ Goes(c, IF ValidateAccountAccess(call[c].who) THEN "swap" ELSE "done")
    /\ UNCHANGED <<clock, user, session, refreshKey, revoked, address, seen, loggedOut, rotated>>

TokenMatches(c) == StoredRefresh(call[c].who) = call[c].sid

\* RefreshRefreshToken: compare and swap in one Redis script.
RefreshRefreshToken(c) ==
    /\ call[c].pc = "swap"
    /\ GenerateTokens(call[c].who, call[c].role)
    /\ LET matches == TokenMatches(c)
       IN \E o \in RedisOutcome :
            /\ refreshKey' = IF matches /\ o.done
                  THEN [refreshKey EXCEPT ![call[c].who] = [sid |-> NewSession, exp |-> clock + RefreshTtl]]
                  ELSE refreshKey
            /\ rotated' = IF matches /\ o.reported
                          THEN [rotated EXCEPT ![call[c].sid] = @ + 1] ELSE rotated
    /\ Answered(c)
    /\ UNCHANGED <<clock, user, revoked, address, seen, loggedOut>>

-----------------------------------------------------------------------------
(* JwtAuthFilter, in front of every protected operation.                   *)

Operations == {"logout", "password", "status", "role", "delete"}

\* VerifyAccessToken, then IsAccessTokenRevoked: the instance's cache, then
\* Redis; an error of Redis refuses the request.
AccessRevoked_CacheOnly(i, n) == seen[i][n] > clock
AccessRevoked(i, n) == seen[i][n] > clock \/ revoked[n] > clock

JwtAuthFilter(c, i, n, op) ==
    /\ call[c].pc = "idle"
    /\ \E answers \in BOOLEAN :
          LET known  == seen[i][n] > clock
              passes == /\ session[n].access > clock /\ ~known /\ answers
                        /\ ~AccessRevoked(i, n)
          IN /\ Becomes(c,
                   [call[c] EXCEPT !.pc = IF passes THEN "admitted" ELSE "done",
                             !.op = op, !.at = i, !.sid = n, !.who = session[n].user, !.role = session[n].role])
             /\ seen' = IF session[n].access > clock /\ ~known /\ answers /\ revoked[n] > clock
                        THEN [seen EXCEPT ![i][n] = clock + AccessTtl] ELSE seen
    /\ UNCHANGED <<clock, user, session, refreshKey, revoked, address, loggedOut, rotated>>

\* InvalidateAccessToken: without the entry in Redis the logout fails.
LogoutInvalidate(c) ==
    /\ call[c].pc = "admitted" /\ call[c].op = "logout"
    /\ \E o \in RedisOutcome :
          /\ revoked' = IF o.done THEN [revoked EXCEPT ![call[c].sid] = clock + AccessTtl] ELSE revoked
          /\ seen' = IF o.reported THEN [seen EXCEPT ![call[c].at][call[c].sid] = clock + AccessTtl] ELSE seen
          /\ Goes(c, IF o.reported THEN "revoke" ELSE "done")
    /\ UNCHANGED <<clock, user, session, refreshKey, address, loggedOut, rotated>>

\* RevokeRefreshToken: a failure does not stop the logout.
LogoutRevoke(c) ==
    /\ call[c].pc = "revoke"
    /\ \E o \in RedisOutcome :
          refreshKey' = IF o.done THEN [refreshKey EXCEPT ![call[c].who] = [sid |-> 0, exp |-> Never]]
                        ELSE refreshKey
    /\ loggedOut' = loggedOut \cup {call[c].sid}
    /\ Answered(c)
    /\ UNCHANGED <<clock, user, session, revoked, address, seen, rotated>>

\* UserService::ChangePassword: the old hash is read, then the new one written.
ChangePasswordRead(c, old) ==
    /\ call[c].pc = "admitted" /\ call[c].op = "password"
    /\ Becomes(c, [call[c] EXCEPT !.pc = IF user[call[c].who].pw = old THEN "rehash" ELSE "done",
                                   !.given = old])
    /\ UNCHANGED <<clock, user, session, refreshKey, revoked, address, seen, loggedOut, rotated>>

ChangePasswordWrite(c, new) ==
    /\ call[c].pc = "rehash" /\ new # call[c].given
    /\ user' = [user EXCEPT ![call[c].who].pw = new]
    /\ Answered(c)
    /\ UNCHANGED <<clock, session, refreshKey, revoked, address, seen, loggedOut, rotated>>

-----------------------------------------------------------------------------
(* AdminService: status, role and deletion of a user.  AdminAuthFilter     *)
(* looks at the role in the token, not at the user's row.                  *)

AdminRequests == ({"status"} \X (Disabled..Locked)) \cup ({"role"} \X (0..1)) \cup {<<"delete", 0>>}

\* AdminAuthFilter, the check against oneself, and the read of the target.
AdminRead(c, u, arg) ==
    /\ call[c].pc = "admitted" /\ <<call[c].op, arg>> \in AdminRequests
    /\ Becomes(c,
          [call[c] EXCEPT !.pc = IF call[c].role # 1 \/ u = call[c].who THEN "done"
                           ELSE IF call[c].op = "role" /\ arg = 0 /\ user[u].role = 1 THEN "count"
                           ELSE "write",
                    !.who = u, !.arg = arg])
    /\ UNCHANGED <<clock, user, session, refreshKey, revoked, address, seen, loggedOut, rotated>>

\* ChangeUserRole counts the administrators before it demotes one.
AdminCount(c) ==
    /\ call[c].pc = "count"
    /\ Goes(c, IF Cardinality({u \in Users : user[u].role = 1}) <= 1 THEN "done" ELSE "write")
    /\ UNCHANGED <<clock, user, session, refreshKey, revoked, address, seen, loggedOut, rotated>>

ChangeUserStatus(u, status) ==
    user' = [user EXCEPT ![u] = [@ EXCEPT !.status = status, !.attempts = 0, !.lockedUntil = Never]]
ChangeUserRole(u, role) == user' = [user EXCEPT ![u].role = role]
SoftDeleteUser(u)       == user' = [user EXCEPT ![u].status = Disabled]

AdminWrite(c) ==
    /\ call[c].pc = "write"
    /\ \/ call[c].op = "status" /\ ChangeUserStatus(call[c].who, call[c].arg)
       \/ call[c].op = "role"   /\ ChangeUserRole(call[c].who, call[c].arg)
       \/ call[c].op = "delete" /\ SoftDeleteUser(call[c].who)
    /\ Answered(c)
    /\ UNCHANGED <<clock, session, refreshKey, revoked, address, seen, loggedOut, rotated>>

-----------------------------------------------------------------------------
(* Time, failures, restarts.                                               *)

Passes ==
    /\ clock < MaxTime
    /\ clock' = clock + 1
    /\ UNCHANGED <<user, session, refreshKey, revoked, address, seen, call, loggedOut, rotated>>

\* EvictExpiredCacheEntries, every maintenance interval.
EvictExpiredCacheEntries(i) ==
    /\ \E n \in Sessions : seen[i][n] # Never /\ seen[i][n] <= clock
    /\ seen' = [seen EXCEPT ![i] = [n \in Sessions |-> IF @[n] <= clock THEN Never ELSE @[n]]]
    /\ UNCHANGED <<clock, user, session, refreshKey, revoked, address, call, loggedOut, rotated>>

\* The process ends: its requests and its cache are gone.
InstanceRestarts(i) ==
    /\ seen' = [seen EXCEPT ![i] = [n \in Sessions |-> Never]]
    /\ call' = [c \in Calls |->
          IF call[c].at = i /\ call[c].pc # "idle" THEN [IdleCall EXCEPT !.pc = "done"] ELSE call[c]]
    /\ UNCHANGED <<clock, user, session, refreshKey, revoked, address, loggedOut, rotated>>

\* A statement of PostgreSQL fails: the handler answers with an error.
StatementFails(c) ==
    /\ call[c].pc \notin {"idle", "done", "issue", "swap", "revoke"}
    /\ Answered(c)
    /\ UNCHANGED <<clock, user, session, refreshKey, revoked, address, seen, loggedOut, rotated>>

AccountNext ==
    \/ Passes
    \/ \E i \in Instances : InstanceRestarts(i) \/ EvictExpiredCacheEntries(i)
    \/ \E c \in Calls :
        \/ \E i \in Instances :
            \/ \E u \in Users, p \in Passwords : LoginStart(c, i, u, p)
            \/ \E n \in Issued : RefreshStart(c, i, n)
            \/ \E n \in Issued, op \in Operations : JwtAuthFilter(c, i, n, op)
        \/ LoginAccess(c) \/ LoginRejected(c) \/ UpdateLoginInfo(c) \/ LoginIssue(c)
        \/ RefreshAccess(c) \/ RefreshRefreshToken(c)
        \/ LogoutInvalidate(c) \/ LogoutRevoke(c)
        \/ \E p \in Passwords : ChangePasswordRead(c, p) \/ ChangePasswordWrite(c, p)
        \/ \E u \in Users, a \in Disabled..Locked : AdminRead(c, u, a)
        \/ AdminCount(c) \/ AdminWrite(c) \/ StatementFails(c)

AccountSpec == AccountInit /\ [][AccountNext]_accountVars

-----------------------------------------------------------------------------
(* Properties                                                              *)

AccountTypeOK ==
    /\ clock \in 1..MaxTime
    /\ \A u \in Users :
          /\ user[u].role \in 0..1 /\ user[u].status \in Disabled..Locked
          /\ user[u].attempts \in 0..FailureLimit
          /\ user[u].pw \in Passwords
          /\ refreshKey[u].sid \in Sessions \cup {0}
    /\ \A n \in Sessions : session[n].user \in Users \cup {Nobody}
    /\ \A c \in Calls : call[c].pc \in {"idle", "access", "password", "issue", "swap", "admitted",
                                        "revoke", "rehash", "count", "write", "done"}

\* A refresh token is exchanged for a new one at most once, also when two
\* instances are asked at the same time and Redis fails in between.
RotatedOnce == \A n \in Sessions : rotated[n] <= 1

\* Five wrong passwords in a row always leave a lock deadline behind, whoever
\* sent them and however the logins and an administrator interleave.
FailuresLock ==
    \A u \in Users : user[u].attempts >= FailureLimit => user[u].lockedUntil # Never

\* What an account's sessions and locks rest on: a refresh token is good once,
\* and wrong passwords lock (TokenService::RefreshRefreshToken,
\* AuthService::IncrementLoginAttempts).
AccountsSound == AccountTypeOK /\ RotatedOnce /\ FailuresLock

\* An access token whose logout has reported success is not admitted any more:
\* not by an instance that never heard of it, nor by one that has restarted.
RefusesLoggedOut ==
    \A c \in Calls :
        call[c].pc = "idle" /\ call'[c].pc = "admitted" => call'[c].sid \notin loggedOut

\* A running lock is neither extended nor cut short by logins: its deadline
\* moves only by an administrator's change of the status.
KeepsLockDeadline ==
    \A u \in Users :
        user[u].lockedUntil > clock /\ user'[u].lockedUntil # user[u].lockedUntil =>
            \E c \in Calls : /\ call[c].pc = "write" /\ call'[c].pc = "done"
                             /\ call[c].op = "status" /\ call[c].who = u

\* No step of any instance takes back a logout or moves a running lock
\* (IsAccessTokenRevoked, UpdateLoginInfo, IncrementLoginAttempts).
WithdrawalsStand == [][RefusesLoggedOut /\ KeepsLockDeadline]_accountVars

=============================================================================
