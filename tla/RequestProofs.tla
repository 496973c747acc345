---------------------------- MODULE RequestProofs ----------------------------
(***************************************************************************)
(* Accounts and their tokens, for any number of users, instances, requests *)
(* and sessions: AccountsSound and WithdrawalsStand; what every request    *)
(* passes before a service sees it: GateSound; the sessions of the desktop *)
(* client: DeskConsistent; and the chunks of an accepted upload, for any   *)
(* width of a size: ChunksCoverFile.                                       *)
(*                                                                         *)
(* The properties of accounts need to know more than they say.  A refresh  *)
(* token is good once because a token that was exchanged is stored under   *)
(* nobody, which needs that one token is not stored under two users, which *)
(* needs that a stored token was issued to the user it is stored under.    *)
(* An access token stays refused because its entry in Redis outlives it,   *)
(* also between the two steps of the logout that has not reported yet.     *)
(***************************************************************************)
EXTENDS Accounts, RequestGate, RequestValidation, DesktopSession, SetSumsProofs,
        FiniteSetTheorems, TLAPS

-----------------------------------------------------------------------------
(* The inductive invariant.                                                *)

UserRow    == [role : 0..1, status : Disabled..Locked, attempts : Nat, lockedUntil : Nat, pw : Passwords]
SessionRow == [user : Users \cup {Nobody}, role : 0..1, access : Nat, refresh : Nat]
KeyRow     == [sid : 0..MaxSession, exp : Nat]
CallSteps  == {"idle", "access", "password", "issue", "swap", "admitted",
               "revoke", "rehash", "count", "write", "done"}
CallRow    == [pc : CallSteps, at : Instances \cup {Nobody}, op : Operations \cup {"none", "login", "refresh"},
               sid : 0..MaxSession, who : Users \cup {Nobody}, role : 0..1,
               pw : Passwords, given : Passwords, arg : Disabled..Locked]

AccountRows ==
    /\ clock \in 1..MaxTime
    /\ user \in [Users -> UserRow]
    /\ session \in [Sessions -> SessionRow]
    /\ refreshKey \in [Users -> KeyRow]
    /\ revoked \in [Sessions -> Nat]
    /\ loggedOut \subseteq Sessions
    /\ rotated \in [Sessions -> Nat]

\* Attempts never pass the limit, because reaching it sets the deadline.
AttemptsBounded == FailuresLock /\ \A u \in Users : user[u].attempts <= FailureLimit

\* What a running request has read: a user, a session that was issued, and a
\* role that is one.
HoldsToken(r) == r.pc \in {"swap", "admitted", "revoke"} \/ (r.pc = "access" /\ r.op = "refresh")
CallKnown(r) ==
    /\ r \in CallRow
    /\ r.pc \notin {"idle", "done"} => r.who \in Users
    /\ HoldsToken(r) => r.sid \in Issued
    /\ r.op = "role" /\ r.pc \in {"count", "write"} => r.arg \in 0..1
CallsKnown == call \in [Calls -> CallRow] /\ \A c \in Calls : CallKnown(call[c])

\* A stored refresh token was issued to the user it is stored under.
KeysOwned ==
    \A u \in Users : refreshKey[u].sid # 0 => session[refreshKey[u].sid].user = u

\* A refresh token that was exchanged is stored no more.
RotatedGone ==
    \A n \in Sessions :
        rotated[n] # 0 => n \in Issued /\ rotated[n] = 1 /\ \A u \in Users : refreshKey[u].sid # n

\* The entry of a token that is refused outlives the token.
Outlived(n) == n \in Issued /\ session[n].access <= revoked[n]
RevocationsLast ==
    /\ \A n \in Issued : session[n].access <= clock + AccessTtl
    /\ \A n \in loggedOut : Outlived(n)
    /\ \A c \in Calls : call[c].pc = "revoke" => Outlived(call[c].sid)

AccountInv ==
    /\ AccountRows /\ AttemptsBounded /\ CallsKnown
    /\ KeysOwned /\ RotatedGone /\ RevocationsLast

-----------------------------------------------------------------------------
(* Facts about the operators.                                              *)

\* A command that was reported as done was done.
LEMMA ReportedIsDone ==
    ASSUME NEW o \in RedisOutcome, o.reported
    PROVE  o.done
<1> SUFFICES ASSUME ~o.done PROVE FALSE
    OBVIOUS
<1>1. o \in [done : BOOLEAN, reported : BOOLEAN] /\ o # [done |-> FALSE, reported |-> TRUE]
    BY DEF RedisOutcome
<1>2. o.done = FALSE /\ o.reported = TRUE
    BY <1>1
<1> QED
    BY <1>1, <1>2

\* An answered request is known, whatever has been issued.
LEMMA DoneKnown == CallKnown([IdleCall EXCEPT !.pc = "done"]) /\ CallKnown(IdleCall)
<1> DEFINE p == CHOOSE p \in Passwords : TRUE
<1>1. p \in Passwords
    BY AccountAssumption
<1> HIDE DEF p
<1>2. IdleCall = [pc |-> "idle", at |-> Nobody, op |-> "none", sid |-> 0, who |-> Nobody,
                  role |-> 0, pw |-> p, given |-> p, arg |-> 0]
    BY DEF IdleCall, p
<1> QED
    BY <1>1, <1>2, AccountAssumption
    DEF CallKnown, CallRow, CallSteps, HoldsToken, Disabled, Locked

\* GenerateTokens issues NewSession and leaves every issued session alone.
LEMMA TokensFresh ==
    ASSUME AccountRows, NEW u \in Users, NEW role \in 0..1, GenerateTokens(u, role)
    PROVE  /\ NewSession \in Sessions \ Issued
           /\ session' = [session EXCEPT ![NewSession] = [user |-> u, role |-> role,
                             access |-> clock + AccessTtl, refresh |-> clock + RefreshTtl]]
<1>1. PICK n \in Sessions \ Issued :
          /\ \A m \in Sessions \ Issued : n <= m
          /\ session' = [session EXCEPT ![n] = [user |-> u, role |-> role,
                            access |-> clock + AccessTtl, refresh |-> clock + RefreshTtl]]
    BY DEF GenerateTokens
<1>2. NewSession \in Sessions \ Issued /\ \A m \in Sessions \ Issued : NewSession <= m
    BY <1>1 DEF NewSession
<1>3. NewSession = n
    BY <1>1, <1>2, AccountAssumption DEF Sessions
<1> QED
    BY <1>1, <1>2, <1>3

\* What that means for the table of sessions.
LEMMA TokensIssued ==
    ASSUME AccountRows, NEW u \in Users, NEW role \in 0..1, GenerateTokens(u, role)
    PROVE  /\ session' \in [Sessions -> SessionRow]
           /\ Issued' = Issued \cup {NewSession}
           /\ \A n \in Sessions : n # NewSession => session'[n] = session[n]
           /\ session'[NewSession].user = u
           /\ session'[NewSession].access = clock + AccessTtl
<1> DEFINE s == NewSession
           row == [user |-> u, role |-> role, access |-> clock + AccessTtl, refresh |-> clock + RefreshTtl]
<1>1. s \in Sessions \ Issued /\ session' = [session EXCEPT ![s] = row]
    BY TokensFresh
<1>2. row \in SessionRow /\ row.user = u /\ row.access = clock + AccessTtl
    BY AccountAssumption DEF SessionRow, AccountRows
<1> HIDE DEF s, row
<1>3. /\ session' \in [Sessions -> SessionRow]
      /\ \A n \in Sessions : n # s => session'[n] = session[n]
      /\ session'[s] = row
    BY <1>1, <1>2 DEF AccountRows
<1>4. u # Nobody
    BY AccountAssumption
<1>5. Issued' = Issued \cup {s}
    BY <1>1, <1>2, <1>3, <1>4 DEF Issued
<1> QED
    BY <1>2, <1>3, <1>5 DEF s

\* One request moves on to what it has read.
LEMMA CallMoves ==
    ASSUME CallsKnown, NEW c \in Calls, NEW r, CallKnown(r), Becomes(c, r), Issued \subseteq Issued'
    PROVE  /\ CallsKnown'
           /\ \A d \in Calls : d # c => call'[d] = call[d]
           /\ call'[c].pc = r.pc
           /\ r.pc # "done" => call'[c] = r
<1> DEFINE done == [IdleCall EXCEPT !.pc = "done"]
           q == IF r.pc = "done" THEN done ELSE r
<1>1. CallKnown(done) /\ done.pc = "done"
    BY DoneKnown DEF IdleCall
<1>2. call' = [call EXCEPT ![c] = q]
    BY DEF Becomes
<1>3. CallKnown(q) /\ q.pc = r.pc /\ (r.pc # "done" => q = r)
    BY <1>1
<1> HIDE DEF q, done
<1>4. call' \in [Calls -> CallRow] /\ call'[c] = q /\ \A d \in Calls : d # c => call'[d] = call[d]
    BY <1>2, <1>3 DEF CallsKnown, CallKnown
<1>5. \A d \in Calls : CallKnown(call'[d])
    BY <1>3, <1>4 DEF CallsKnown
<1>6. \A d \in Calls :
          /\ call'[d].pc \notin {"idle", "done"} => call'[d].who \in Users
          /\ HoldsToken(call'[d]) => call'[d].sid \in Issued'
          /\ call'[d].op = "role" /\ call'[d].pc \in {"count", "write"} => call'[d].arg \in 0..1
    BY <1>5 DEF CallKnown
<1>7. CallsKnown'
    BY <1>4, <1>6 DEF CallsKnown, CallKnown, HoldsToken
<1> QED
    BY <1>3, <1>4, <1>7

-----------------------------------------------------------------------------
(* The users' rows.                                                        *)

\* The steps that touch a user's row.
LEMMA UserWriters ==
    ASSUME AccountNext
    PROVE  \/ UNCHANGED user
           \/ \E c \in Calls : \/ LoginRejected(c) \/ UpdateLoginInfo(c) \/ AdminWrite(c)
                               \/ \E p \in Passwords : ChangePasswordWrite(c, p)
<1> SUFFICES ASSUME user' # user
             PROVE  \E c \in Calls : \/ LoginRejected(c) \/ UpdateLoginInfo(c) \/ AdminWrite(c)
                                    \/ \E p \in Passwords : ChangePasswordWrite(c, p)
    OBVIOUS
<1>1. ~Passes /\ \A i \in Instances : ~InstanceRestarts(i) /\ ~EvictExpiredCacheEntries(i)
    BY DEF Passes, InstanceRestarts, EvictExpiredCacheEntries
<1>2. PICK c \in Calls :
        \/ \E i \in Instances :
            \/ \E u \in Users, p \in Passwords : LoginStart(c, i, u, p)
            \/ \E n \in Issued : RefreshStart(c, i, n)
            \/ \E n \in Issued, op \in Operations : JwtAuthFilter(c, i, n, op)
        \/ LoginAccess(c) \/ LoginRejected(c) \/ UpdateLoginInfo(c) \/ LoginIssue(c)
        \/ RefreshAccess(c) \/ RefreshRefreshToken(c)
        \/ LogoutInvalidate(c) \/ LogoutRevoke(c)
        \/ \E p \in Passwords : ChangePasswordRead(c, p) \/ ChangePasswordWrite(c, p)
        \/ \E u \in Users, a \in Disabled..Locked : AdminRead(c, u, a)
        \/ AdminCount(c) \/ AdminWrite(c) \/ StatementFails(c)
    BY <1>1, Zenon DEF AccountNext
<1>3. \A i \in Instances :
          /\ \A u \in Users, p \in Passwords : ~LoginStart(c, i, u, p)
          /\ \A n \in Issued : ~RefreshStart(c, i, n)
          /\ \A n \in Issued, op \in Operations : ~JwtAuthFilter(c, i, n, op)
    BY Zenon DEF LoginStart, RefreshStart, JwtAuthFilter
<1>4. ~LoginAccess(c) /\ ~LoginIssue(c) /\ ~RefreshAccess(c) /\ ~RefreshRefreshToken(c)
    BY Zenon DEF LoginAccess, LoginIssue, RefreshAccess, RefreshRefreshToken
<1>5. ~LogoutInvalidate(c) /\ ~LogoutRevoke(c) /\ ~AdminCount(c) /\ ~StatementFails(c)
    BY Zenon DEF LogoutInvalidate, LogoutRevoke, AdminCount, StatementFails
<1>6. /\ \A p \in Passwords : ~ChangePasswordRead(c, p)
      /\ \A u \in Users, a \in Disabled..Locked : ~AdminRead(c, u, a)
    BY Zenon DEF ChangePasswordRead, AdminRead
<1> QED
    BY <1>2, <1>3, <1>4, <1>5, <1>6, Zenon

\* One row is replaced by a legal one.
LEMMA RowReplaced ==
    ASSUME AccountRows, AttemptsBounded, NEW u \in Users, NEW row \in UserRow,
           row.attempts <= FailureLimit,
           row.attempts = FailureLimit => row.lockedUntil # Never,
           user' = [user EXCEPT ![u] = row]
    PROVE  user' \in [Users -> UserRow] /\ AttemptsBounded'
<1>1. user' \in [Users -> UserRow] /\ user'[u] = row /\ \A v \in Users : v # u => user'[v] = user[v]
    BY DEF AccountRows
<1>2. \A v \in Users : /\ user'[v].attempts <= FailureLimit
                       /\ user'[v].attempts >= FailureLimit => user'[v].lockedUntil # Never
  <2> TAKE v \in Users
  <2>1. CASE v = u
      BY <2>1, <1>1, AccountAssumption DEF UserRow
  <2>2. CASE v # u
      BY <2>2, <1>1 DEF AttemptsBounded, FailuresLock
  <2> QED
      BY <2>1, <2>2
<1> QED
    BY <1>1, <1>2 DEF AttemptsBounded, FailuresLock

\* A wrong password: the row's lock has run out or there is none, so the row
\* is below the limit or the count starts again.
LEMMA WrongPassword ==
    ASSUME AccountRows, AttemptsBounded, NEW u \in Users, IncrementLoginAttempts(u)
    PROVE  user' \in [Users -> UserRow] /\ AttemptsBounded'
<1>1. CASE ~LoginUpdatable(u)
    BY <1>1 DEF IncrementLoginAttempts, AccountRows, AttemptsBounded, FailuresLock
<1>2. CASE LoginUpdatable(u)
  <2> DEFINE n == FailedAttempts(u)
             d == LockDeadline(n)
             row == [user[u] EXCEPT !.status = Active, !.attempts = n, !.lockedUntil = d]
  <2>1. user[u] \in UserRow /\ user[u].lockedUntil \in Nat /\ user[u].attempts \in Nat
      BY DEF AccountRows, UserRow
  <2>2. user[u].lockedUntil <= clock /\ clock \in Nat /\ clock > 0
      BY <1>2, <2>1 DEF LoginUpdatable, AccountRows
  <2>3. user[u].attempts <= FailureLimit /\ (user[u].attempts >= FailureLimit => user[u].lockedUntil # Never)
      BY DEF AttemptsBounded, FailuresLock
  <2>4. n \in Nat /\ n <= FailureLimit
      BY <2>1, <2>2, <2>3, AccountAssumption DEF FailedAttempts
  <2>5. d \in Nat /\ (n = FailureLimit => d # Never)
      BY <2>2, <2>4, AccountAssumption DEF LockDeadline, Never
  <2>6. user' = [user EXCEPT ![u] = row]
      BY <1>2, <2>1 DEF IncrementLoginAttempts, AccountRows
  <2> HIDE DEF n, d
  <2>7. Active \in Disabled..Locked
      BY DEF Disabled, Active, Locked
  <2>8. row \in UserRow /\ row.attempts = n /\ row.lockedUntil = d
      BY <2>1, <2>4, <2>5, <2>7 DEF UserRow
  <2> HIDE DEF row
  <2> QED
      BY <2>4, <2>5, <2>6, <2>8, RowReplaced
<1> QED
    BY <1>1, <1>2

\* An administrator's change: a new status forgets attempts and deadline, a
\* new role and a deletion leave them alone.
LEMMA AdminRewrites ==
    ASSUME AccountRows, AttemptsBounded, NEW u \in Users, NEW a \in Disabled..Locked,
           \/ ChangeUserStatus(u, a)
           \/ a \in 0..1 /\ ChangeUserRole(u, a)
           \/ SoftDeleteUser(u)
    PROVE  user' \in [Users -> UserRow] /\ AttemptsBounded'
<1>1. /\ user[u] \in UserRow /\ user[u].attempts \in Nat /\ user[u].attempts <= FailureLimit
      /\ user[u].attempts = FailureLimit => user[u].lockedUntil # Never
    BY AccountAssumption DEF AccountRows, UserRow, AttemptsBounded, FailuresLock
<1>2. CASE ChangeUserStatus(u, a)
  <2> DEFINE row == [user[u] EXCEPT !.status = a, !.attempts = 0, !.lockedUntil = Never]
  <2>1. user' = [user EXCEPT ![u] = row]
      BY <1>2 DEF ChangeUserStatus
  <2>2. row \in UserRow /\ row.attempts = 0
      BY <1>1 DEF UserRow, Never
  <2>3. row.attempts <= FailureLimit /\ row.attempts # FailureLimit
      BY <2>2, AccountAssumption
  <2> HIDE DEF row
  <2> QED
      BY <2>1, <2>2, <2>3, RowReplaced
<1>3. CASE a \in 0..1 /\ ChangeUserRole(u, a)
  <2> DEFINE row == [user[u] EXCEPT !.role = a]
  <2>1. user' = [user EXCEPT ![u] = row]
      BY <1>3 DEF ChangeUserRole
  <2>2. row \in UserRow /\ row.attempts = user[u].attempts /\ row.lockedUntil = user[u].lockedUntil
      BY <1>1, <1>3 DEF UserRow
  <2> HIDE DEF row
  <2> QED
      BY <2>1, <2>2, <1>1, RowReplaced
<1>4. CASE SoftDeleteUser(u)
  <2> DEFINE row == [user[u] EXCEPT !.status = Disabled]
  <2>1. user' = [user EXCEPT ![u] = row]
      BY <1>4 DEF SoftDeleteUser
  <2>2. row \in UserRow /\ row.attempts = user[u].attempts /\ row.lockedUntil = user[u].lockedUntil
      BY <1>1 DEF UserRow, Disabled, Locked
  <2> HIDE DEF row
  <2> QED
      BY <2>1, <2>2, <1>1, RowReplaced
<1> QED
    BY <1>2, <1>3, <1>4

\* Every step keeps the users' rows legal.
LEMMA UsersKept ==
    ASSUME AccountInv, AccountNext
    PROVE  user' \in [Users -> UserRow] /\ AttemptsBounded'
<1> USE DEF AccountInv
<1>1. CASE UNCHANGED user
    BY <1>1 DEF AccountRows, AttemptsBounded, FailuresLock
<1>2. ASSUME NEW c \in Calls, call[c].pc \notin {"idle", "done"}
      PROVE  /\ call[c].who \in Users /\ call[c].arg \in Disabled..Locked
             /\ call[c].op = "role" /\ call[c].pc = "write" => call[c].arg \in 0..1
    BY <1>2 DEF CallsKnown, CallKnown, CallRow
<1>3. ASSUME NEW c \in Calls, LoginRejected(c)
      PROVE  user' \in [Users -> UserRow] /\ AttemptsBounded'
    BY <1>2, <1>3, WrongPassword DEF LoginRejected
<1>4. ASSUME NEW c \in Calls, UpdateLoginInfo(c)
      PROVE  user' \in [Users -> UserRow] /\ AttemptsBounded'
  <2> DEFINE u == call[c].who
             row == [user[u] EXCEPT !.status = Active, !.attempts = 0, !.lockedUntil = Never]
  <2>1. u \in Users
      BY <1>2, <1>4 DEF UpdateLoginInfo
  <2>2. user' = user \/ user' = [user EXCEPT ![u] = row]
      BY <1>4 DEF UpdateLoginInfo
  <2>3. Active \in Disabled..Locked /\ 0 <= FailureLimit /\ 0 # FailureLimit
      BY AccountAssumption DEF Disabled, Active, Locked
  <2>4. row \in UserRow /\ row.attempts = 0
      BY <2>1, <2>3 DEF UserRow, AccountRows, Never
  <2> HIDE DEF u, row
  <2> QED
      BY <1>1, <2>1, <2>2, <2>3, <2>4, RowReplaced
<1>5. ASSUME NEW c \in Calls, AdminWrite(c)
      PROVE  user' \in [Users -> UserRow] /\ AttemptsBounded'
  <2>1. /\ call[c].who \in Users /\ call[c].arg \in Disabled..Locked
        /\ \/ ChangeUserStatus(call[c].who, call[c].arg)
           \/ call[c].arg \in 0..1 /\ ChangeUserRole(call[c].who, call[c].arg)
           \/ SoftDeleteUser(call[c].who)
      BY <1>2, <1>5 DEF AdminWrite
  <2> QED
      BY <2>1, AdminRewrites
<1>6. ASSUME NEW c \in Calls, NEW p \in Passwords, ChangePasswordWrite(c, p)
      PROVE  user' \in [Users -> UserRow] /\ AttemptsBounded'
  <2> DEFINE u == call[c].who
             row == [user[u] EXCEPT !.pw = p]
  <2>1. u \in Users
      BY <1>2, <1>6 DEF ChangePasswordWrite
  <2>2. user' = [user EXCEPT ![u] = row]
      BY <1>6 DEF ChangePasswordWrite
  <2>3. row \in UserRow /\ row.attempts = user[u].attempts /\ row.lockedUntil = user[u].lockedUntil
      BY <2>1 DEF UserRow, AccountRows
  <2>4. /\ user[u].attempts \in Nat /\ user[u].attempts <= FailureLimit
        /\ user[u].attempts = FailureLimit => user[u].lockedUntil # Never
      BY <2>1, AccountAssumption DEF AccountRows, UserRow, AttemptsBounded, FailuresLock
  <2> HIDE DEF u, row
  <2> QED
      BY <2>1, <2>2, <2>3, <2>4, RowReplaced
<1> QED
    BY <1>1, <1>3, <1>4, <1>5, <1>6, UserWriters

-----------------------------------------------------------------------------
(* Sessions and refresh tokens.                                            *)

\* What the steps do to sessions, refresh tokens and rotations: nothing, or
\* one of three.
LEMMA KeyWriters ==
    ASSUME AccountNext
    PROVE  \/ UNCHANGED <<session, refreshKey, rotated>>
           \/ \E c \in Calls : LoginIssue(c) \/ RefreshRefreshToken(c) \/ LogoutRevoke(c)
<1> SUFFICES ASSUME ~UNCHANGED <<session, refreshKey, rotated>>
             PROVE  \E c \in Calls : LoginIssue(c) \/ RefreshRefreshToken(c) \/ LogoutRevoke(c)
    OBVIOUS
<1>1. ~Passes /\ \A i \in Instances : ~InstanceRestarts(i) /\ ~EvictExpiredCacheEntries(i)
    BY DEF Passes, InstanceRestarts, EvictExpiredCacheEntries
<1>2. PICK c \in Calls :
        \/ \E i \in Instances :
            \/ \E u \in Users, p \in Passwords : LoginStart(c, i, u, p)
            \/ \E n \in Issued : RefreshStart(c, i, n)
            \/ \E n \in Issued, op \in Operations : JwtAuthFilter(c, i, n, op)
        \/ LoginAccess(c) \/ LoginRejected(c) \/ UpdateLoginInfo(c) \/ LoginIssue(c)
        \/ RefreshAccess(c) \/ RefreshRefreshToken(c)
        \/ LogoutInvalidate(c) \/ LogoutRevoke(c)
        \/ \E p \in Passwords : ChangePasswordRead(c, p) \/ ChangePasswordWrite(c, p)
        \/ \E u \in Users, a \in Disabled..Locked : AdminRead(c, u, a)
        \/ AdminCount(c) \/ AdminWrite(c) \/ StatementFails(c)
    BY <1>1, Zenon DEF AccountNext
<1>3. \A i \in Instances :
          /\ \A u \in Users, p \in Passwords : ~LoginStart(c, i, u, p)
          /\ \A n \in Issued : ~RefreshStart(c, i, n)
          /\ \A n \in Issued, op \in Operations : ~JwtAuthFilter(c, i, n, op)
    BY Zenon DEF LoginStart, RefreshStart, JwtAuthFilter
<1>4. ~LoginAccess(c) /\ ~LoginRejected(c) /\ ~UpdateLoginInfo(c) /\ ~RefreshAccess(c)
    BY Zenon DEF LoginAccess, LoginRejected, UpdateLoginInfo, RefreshAccess
<1>5. ~LogoutInvalidate(c) /\ ~AdminCount(c) /\ ~StatementFails(c) /\ ~AdminWrite(c)
    BY Zenon DEF LogoutInvalidate, AdminCount, StatementFails, AdminWrite
<1>6. /\ \A p \in Passwords : ~ChangePasswordRead(c, p) /\ ~ChangePasswordWrite(c, p)
      /\ \A u \in Users, a \in Disabled..Locked : ~AdminRead(c, u, a)
    BY Zenon DEF ChangePasswordRead, ChangePasswordWrite, AdminRead
<1> QED
    BY <1>2, <1>3, <1>4, <1>5, <1>6, Zenon

\* A user's new session is stored under that user, or not stored.
LEMMA SessionStored ==
    ASSUME AccountInv, NEW u \in Users, NEW role \in 0..1, GenerateTokens(u, role),
           \/ refreshKey' = refreshKey
           \/ refreshKey' = [refreshKey EXCEPT ![u] = [sid |-> NewSession, exp |-> clock + RefreshTtl]]
    PROVE  /\ refreshKey' \in [Users -> KeyRow]
           /\ \A v \in Users : v # u => refreshKey'[v] = refreshKey[v]
           /\ refreshKey'[u] = refreshKey[u] \/ refreshKey'[u].sid = NewSession
           /\ KeysOwned'
<1> USE DEF AccountInv
<1> DEFINE row == [sid |-> NewSession, exp |-> clock + RefreshTtl]
           s == NewSession
<1>1. /\ s \in Sessions \ Issued
      /\ \A n \in Sessions : n # s => session'[n] = session[n]
      /\ session'[s].user = u
    BY TokensFresh, TokensIssued
<1>2. s \in 0..MaxSession /\ s # 0
    BY <1>1, AccountAssumption DEF Sessions
<1>3. row \in KeyRow /\ row.sid = s
    BY <1>2, AccountAssumption DEF KeyRow, AccountRows
<1>4. refreshKey' = refreshKey \/ refreshKey' = [refreshKey EXCEPT ![u] = row]
    OBVIOUS
<1> HIDE DEF s, row
<1>5. /\ refreshKey' \in [Users -> KeyRow]
      /\ \A v \in Users : v # u => refreshKey'[v] = refreshKey[v]
      /\ refreshKey'[u] = refreshKey[u] \/ refreshKey'[u].sid = s
    BY <1>3, <1>4 DEF AccountRows
<1>6. ASSUME NEW v \in Users, refreshKey'[v].sid # 0
      PROVE  session'[refreshKey'[v].sid].user = v
  <2>1. CASE v = u /\ refreshKey'[v].sid = s
      BY <2>1, <1>1
  <2>2. CASE refreshKey'[v] = refreshKey[v]
    <3>1. session[refreshKey[v].sid].user = v /\ refreshKey[v].sid \in Sessions
        BY <2>2, <1>6, AccountAssumption DEF KeysOwned, AccountRows, KeyRow, Sessions
    <3>2. refreshKey[v].sid \in Issued
        BY <3>1, AccountAssumption DEF Issued
    <3> QED
        BY <2>2, <3>1, <3>2, <1>1
  <2> QED
      BY <2>1, <2>2, <1>5
<1> QED
    BY <1>5, <1>6 DEF KeysOwned, s

\* A login's session: it was not exchanged before it was issued.
LEMMA IssueKeepsKeys ==
    ASSUME AccountInv, NEW c \in Calls, LoginIssue(c)
    PROVE  /\ session' \in [Sessions -> SessionRow] /\ refreshKey' \in [Users -> KeyRow]
           /\ rotated' \in [Sessions -> Nat] /\ KeysOwned' /\ RotatedGone'
<1> USE DEF AccountInv
<1> DEFINE u == call[c].who
           s == NewSession
<1>1. u \in Users /\ call[c].role \in 0..1
    BY DEF LoginIssue, CallsKnown, CallKnown, CallRow
<1>2. GenerateTokens(u, call[c].role) /\ rotated' = rotated
    BY DEF LoginIssue
<1>3. \/ refreshKey' = refreshKey
      \/ refreshKey' = [refreshKey EXCEPT ![u] = [sid |-> NewSession, exp |-> clock + RefreshTtl]]
    BY DEF LoginIssue
<1>4. /\ refreshKey' \in [Users -> KeyRow]
      /\ \A v \in Users : v # u => refreshKey'[v] = refreshKey[v]
      /\ refreshKey'[u] = refreshKey[u] \/ refreshKey'[u].sid = s
      /\ KeysOwned'
    BY <1>1, <1>2, <1>3, SessionStored
<1>5. session' \in [Sessions -> SessionRow] /\ Issued' = Issued \cup {s} /\ s \in Sessions \ Issued
    BY <1>1, <1>2, TokensFresh, TokensIssued
<1> HIDE DEF u, s
<1>6. ASSUME NEW n \in Sessions, rotated[n] # 0
      PROVE  n \in Issued' /\ rotated[n] = 1 /\ \A v \in Users : refreshKey'[v].sid # n
  <2>1. n \in Issued /\ rotated[n] = 1 /\ \A v \in Users : refreshKey[v].sid # n
      BY <1>6 DEF RotatedGone
  <2>2. n # s
      BY <2>1, <1>5
  <2> QED
      BY <2>1, <2>2, <1>1, <1>4, <1>5
<1> QED
    BY <1>2, <1>4, <1>5, <1>6 DEF RotatedGone, AccountRows

\* The exchange: the token presented is the one stored, so nobody else stores
\* it, it was not exchanged before, and it is stored no more.
LEMMA SwapKeepsKeys ==
    ASSUME AccountInv, NEW c \in Calls, RefreshRefreshToken(c)
    PROVE  /\ session' \in [Sessions -> SessionRow] /\ refreshKey' \in [Users -> KeyRow]
           /\ rotated' \in [Sessions -> Nat] /\ KeysOwned' /\ RotatedGone'
<1> USE DEF AccountInv
<1> DEFINE u == call[c].who
           s == NewSession
           t == call[c].sid
           row == [sid |-> NewSession, exp |-> clock + RefreshTtl]
<1>1. u \in Users /\ call[c].role \in 0..1 /\ t \in Issued /\ t \in Sessions
    BY DEF RefreshRefreshToken, CallsKnown, CallKnown, CallRow, HoldsToken, Issued
<1>2. GenerateTokens(u, call[c].role)
    BY DEF RefreshRefreshToken
<1>3. \/ rotated' = rotated /\ (refreshKey' = refreshKey \/ refreshKey' = [refreshKey EXCEPT ![u] = row])
      \/ /\ TokenMatches(c) /\ rotated' = [rotated EXCEPT ![t] = @ + 1]
         /\ refreshKey' = [refreshKey EXCEPT ![u] = row]
  <2>1. PICK o \in RedisOutcome :
            /\ refreshKey' = IF TokenMatches(c) /\ o.done
                  THEN [refreshKey EXCEPT ![u] = row] ELSE refreshKey
            /\ rotated' = IF TokenMatches(c) /\ o.reported THEN [rotated EXCEPT ![t] = @ + 1] ELSE rotated
      BY DEF RefreshRefreshToken
  <2>2. o.reported => o.done
      BY ReportedIsDone
  <2> QED
      BY <2>1, <2>2
<1>4. /\ refreshKey' \in [Users -> KeyRow]
      /\ \A v \in Users : v # u => refreshKey'[v] = refreshKey[v]
      /\ refreshKey'[u] = refreshKey[u] \/ refreshKey'[u].sid = s
      /\ KeysOwned'
    BY <1>1, <1>2, <1>3, SessionStored
<1>5. session' \in [Sessions -> SessionRow] /\ Issued' = Issued \cup {s} /\ s \in Sessions \ Issued
    BY <1>1, <1>2, TokensFresh, TokensIssued
<1>6. s # 0 /\ t # 0
    BY <1>1, <1>5, AccountAssumption DEF Sessions
<1>7. TokenMatches(c) => refreshKey[u].sid = t
    BY <1>6 DEF TokenMatches, StoredRefresh
<1>8. refreshKey' = [refreshKey EXCEPT ![u] = row] => refreshKey'[u].sid = s
    BY <1>1 DEF AccountRows
<1> HIDE DEF u, s, t, row
<1>9. ASSUME NEW n \in Sessions, rotated[n] # 0
      PROVE  n \in Issued' /\ rotated[n] = 1 /\ \A v \in Users : refreshKey'[v].sid # n
  <2>1. n \in Issued /\ rotated[n] = 1 /\ \A v \in Users : refreshKey[v].sid # n
      BY <1>9 DEF RotatedGone
  <2>2. n # s
      BY <2>1, <1>5
  <2> QED
      BY <2>1, <2>2, <1>1, <1>4, <1>5
<1>10. CASE rotated' = rotated
    BY <1>4, <1>5, <1>9, <1>10 DEF RotatedGone, AccountRows
<1>11. CASE /\ TokenMatches(c) /\ rotated' = [rotated EXCEPT ![t] = @ + 1]
            /\ refreshKey' = [refreshKey EXCEPT ![u] = row]
  <2>1. refreshKey[u].sid = t /\ refreshKey'[u].sid = s
      BY <1>7, <1>8, <1>11
  <2>2. rotated[t] = 0 /\ rotated \in [Sessions -> Nat]
      BY <1>1, <2>1 DEF RotatedGone, AccountRows
  <2>3. /\ rotated' \in [Sessions -> Nat] /\ rotated'[t] = 1
        /\ \A n \in Sessions : n # t => rotated'[n] = rotated[n]
      BY <1>1, <1>11, <2>2
  <2>4. ASSUME NEW v \in Users PROVE refreshKey'[v].sid # t
    <3>1. CASE v = u
        BY <3>1, <2>1, <1>1, <1>5
    <3>2. CASE v # u
      <4>1. session[t].user = u
          BY <1>1, <1>6, <2>1 DEF KeysOwned
      <4>2. refreshKey[v].sid = t => session[t].user = v
          BY <1>6 DEF KeysOwned
      <4> QED
          BY <3>2, <4>1, <4>2, <1>4
    <3> QED
        BY <3>1, <3>2
  <2>5. RotatedGone'
    <3> SUFFICES ASSUME NEW n \in Sessions, rotated'[n] # 0
                 PROVE  n \in Issued' /\ rotated'[n] = 1 /\ \A v \in Users : refreshKey'[v].sid # n
        BY DEF RotatedGone
    <3>1. CASE n = t
        BY <3>1, <2>3, <2>4, <1>1, <1>5
    <3>2. CASE n # t
        BY <3>2, <2>3, <1>9
    <3> QED
        BY <3>1, <3>2
  <2> QED
      BY <1>4, <1>5, <2>3, <2>5
<1> QED
    BY <1>3, <1>10, <1>11

\* Every step keeps the refresh tokens in order, forgets no session and
\* changes none that was issued.
LEMMA KeysKept ==
    ASSUME AccountInv, AccountNext
    PROVE  /\ session' \in [Sessions -> SessionRow] /\ refreshKey' \in [Users -> KeyRow]
           /\ rotated' \in [Sessions -> Nat] /\ KeysOwned' /\ RotatedGone'
<1> USE DEF AccountInv
<1>1. CASE UNCHANGED <<session, refreshKey, rotated>>
    BY <1>1 DEF AccountRows, KeysOwned, RotatedGone, Issued
<1>2. ASSUME NEW c \in Calls, LogoutRevoke(c)
      PROVE  /\ session' \in [Sessions -> SessionRow] /\ refreshKey' \in [Users -> KeyRow]
             /\ rotated' \in [Sessions -> Nat] /\ KeysOwned' /\ RotatedGone'
  <2> DEFINE u == call[c].who
             row == [sid |-> 0, exp |-> Never]
  <2>1. /\ u \in Users /\ session' = session /\ rotated' = rotated
        /\ refreshKey' = refreshKey \/ refreshKey' = [refreshKey EXCEPT ![u] = row]
      BY <1>2 DEF LogoutRevoke, CallsKnown, CallKnown
  <2>2. row \in KeyRow /\ row.sid = 0
      BY AccountAssumption DEF KeyRow, Never
  <2> HIDE DEF u, row
  <2>3. /\ refreshKey' \in [Users -> KeyRow]
        /\ \A v \in Users : refreshKey'[v] = refreshKey[v] \/ refreshKey'[v].sid = 0
      BY <2>1, <2>2 DEF AccountRows
  <2>4. KeysOwned' /\ Issued' = Issued
      BY <2>1, <2>3 DEF KeysOwned, Issued
  <2>5. \A n \in Sessions : n # 0
      BY AccountAssumption DEF Sessions
  <2>6. RotatedGone'
      BY <2>1, <2>3, <2>4, <2>5 DEF RotatedGone
  <2> QED
      BY <2>1, <2>3, <2>4, <2>6 DEF AccountRows
<1> QED
    BY <1>1, <1>2, KeyWriters, IssueKeepsKeys, SwapKeepsKeys

\* No step forgets a session or changes one that was issued; a new one runs
\* out no later than its lifetime from now.
LEMMA IssuedStays ==
    ASSUME AccountInv, AccountNext
    PROVE  /\ Issued \subseteq Issued'
           /\ \A n \in Issued : session'[n] = session[n]
           /\ \A n \in Issued' \ Issued : session'[n].access = clock + AccessTtl
<1> USE DEF AccountInv
<1>1. ASSUME NEW c \in Calls, LoginIssue(c) \/ RefreshRefreshToken(c)
      PROVE  call[c].who \in Users /\ call[c].role \in 0..1 /\ GenerateTokens(call[c].who, call[c].role)
    BY <1>1 DEF LoginIssue, RefreshRefreshToken, CallsKnown, CallKnown, CallRow
<1>2. ASSUME NEW c \in Calls, LoginIssue(c) \/ RefreshRefreshToken(c)
      PROVE  /\ Issued \subseteq Issued'
             /\ \A n \in Issued : session'[n] = session[n]
             /\ \A n \in Issued' \ Issued : session'[n].access = clock + AccessTtl
  <2>1. /\ NewSession \in Sessions \ Issued
        /\ Issued' = Issued \cup {NewSession}
        /\ \A n \in Sessions : n # NewSession => session'[n] = session[n]
        /\ session'[NewSession].access = clock + AccessTtl
      BY <1>1, <1>2, TokensFresh, TokensIssued
  <2>2. Issued \subseteq Sessions
      BY DEF Issued
  <2> QED
      BY <2>1, <2>2
<1>3. session' = session => Issued' = Issued
    BY DEF Issued
<1>4. ASSUME NEW c \in Calls, LogoutRevoke(c) PROVE session' = session
    BY <1>4 DEF LogoutRevoke
<1> QED
    BY <1>2, <1>3, <1>4, KeyWriters

-----------------------------------------------------------------------------
(* What requests have read.                                                *)

\* A running request that moves on keeps what it has read.
LEMMA GoesKnown ==
    ASSUME CallsKnown, NEW c \in Calls, NEW pc \in CallSteps, call[c].pc \notin {"idle", "done"},
           pc \notin {"access", "count"},
           pc \in {"swap", "admitted", "revoke"} => HoldsToken(call[c]),
           pc = "write" => call[c].pc = "count"
    PROVE  LET r == [call[c] EXCEPT !.pc = pc]
           IN CallKnown(r) /\ r.pc = pc /\ r.sid = call[c].sid
<1> DEFINE r == [call[c] EXCEPT !.pc = pc]
<1>1. CallKnown(call[c]) /\ call[c] \in CallRow
    BY DEF CallsKnown
<1>2. /\ r \in CallRow /\ r.pc = pc /\ r.sid = call[c].sid /\ r.who = call[c].who
      /\ r.op = call[c].op /\ r.arg = call[c].arg
    BY <1>1 DEF CallRow
<1> HIDE DEF r
<1>3. CallKnown(r)
    BY <1>1, <1>2 DEF CallKnown, HoldsToken
<1> QED
    BY <1>2, <1>3 DEF r

\* The steps a request takes without reading anything new.
LEMMA GoesOn ==
    ASSUME CallsKnown, NEW c \in Calls,
           \/ LoginAccess(c) \/ LoginRejected(c) \/ UpdateLoginInfo(c) \/ LoginIssue(c)
           \/ RefreshAccess(c) \/ RefreshRefreshToken(c) \/ LogoutInvalidate(c) \/ LogoutRevoke(c)
           \/ (\E p \in Passwords : ChangePasswordWrite(c, p))
           \/ AdminCount(c) \/ AdminWrite(c) \/ StatementFails(c)
    PROVE  \E r : /\ CallKnown(r) /\ Becomes(c, r) /\ r.sid = call[c].sid
                  /\ r.pc = "revoke" => LogoutInvalidate(c) /\ call[c].pc # "revoke"
                  /\ call[c].pc # "idle"
<1> SUFFICES \E pc \in CallSteps :
                 /\ Goes(c, pc) /\ call[c].pc \notin {"idle", "done"} /\ pc \notin {"access", "count"}
                 /\ pc \in {"swap", "admitted", "revoke"} => HoldsToken(call[c])
                 /\ pc = "write" => call[c].pc = "count"
                 /\ pc = "revoke" => LogoutInvalidate(c) /\ call[c].pc # "revoke"
    BY GoesKnown DEF Goes
<1>1. CASE LoginAccess(c)
    BY <1>1 DEF LoginAccess, CallSteps
<1>2. CASE LoginRejected(c)
    BY <1>2 DEF LoginRejected, Answered, CallSteps
<1>3. CASE UpdateLoginInfo(c)
    BY <1>3 DEF UpdateLoginInfo, Answered, CallSteps
<1>4. CASE LoginIssue(c)
    BY <1>4 DEF LoginIssue, Answered, CallSteps
<1>5. CASE RefreshAccess(c)
    BY <1>5 DEF RefreshAccess, CallSteps, HoldsToken
<1>6. CASE RefreshRefreshToken(c)
    BY <1>6 DEF RefreshRefreshToken, Answered, CallSteps
<1>7. CASE LogoutInvalidate(c)
  <2>1. Goes(c, "revoke") \/ Goes(c, "done")
      BY <1>7 DEF LogoutInvalidate
  <2>2. call[c].pc = "admitted"
      BY <1>7 DEF LogoutInvalidate
  <2> QED
      BY <1>7, <2>1, <2>2 DEF CallSteps, HoldsToken
<1>8. CASE LogoutRevoke(c)
    BY <1>8 DEF LogoutRevoke, Answered, CallSteps
<1>9. CASE \E p \in Passwords : ChangePasswordWrite(c, p)
    BY <1>9 DEF ChangePasswordWrite, Answered, CallSteps
<1>10. CASE AdminCount(c)
  <2>1. Goes(c, "write") \/ Goes(c, "done")
      BY <1>10 DEF AdminCount
  <2> QED
      BY <1>10, <2>1 DEF AdminCount, CallSteps
<1>11. CASE AdminWrite(c)
    BY <1>11 DEF AdminWrite, Answered, CallSteps
<1>12. CASE StatementFails(c)
    BY <1>12 DEF StatementFails, Answered, CallSteps
<1> QED
    BY <1>1, <1>2, <1>3, <1>4, <1>5, <1>6, <1>7, <1>8, <1>9, <1>10, <1>11, <1>12

\* A login that starts has read its user's row.
LEMMA LoginKnown ==
    ASSUME AccountInv, NEW c \in Calls, NEW i \in Instances, NEW u \in Users, NEW p \in Passwords,
           LoginStart(c, i, u, p)
    PROVE  \E r : CallKnown(r) /\ Becomes(c, r) /\ r.pc \in {"access", "done"}
<1> USE DEF AccountInv
<1> DEFINE r(pc) == [call[c] EXCEPT !.pc = pc, !.op = "login", !.at = i, !.who = u, !.given = p,
                                    !.role = user[u].role, !.pw = user[u].pw]
<1>1. call[c] \in CallRow /\ user[u].role \in 0..1 /\ user[u].pw \in Passwords
    BY DEF CallsKnown, AccountRows, UserRow
<1>2. Becomes(c, r("done")) \/ Becomes(c, r("access"))
    BY DEF LoginStart
<1>3. ASSUME NEW pc \in {"access", "done"}
      PROVE  r(pc) \in CallRow /\ r(pc).pc = pc /\ r(pc).who = u /\ r(pc).op = "login"
    BY <1>1 DEF CallRow, CallSteps
<1> HIDE DEF r
<1>4. ASSUME NEW pc \in {"access", "done"} PROVE CallKnown(r(pc)) /\ r(pc).pc \in {"access", "done"}
    BY <1>3 DEF CallKnown, HoldsToken
<1> QED
    BY <1>2, <1>4

\* A refresh that starts has an issued session and its user.
LEMMA RefreshKnown ==
    ASSUME AccountInv, NEW c \in Calls, NEW i \in Instances, NEW n \in Issued, RefreshStart(c, i, n)
    PROVE  \E r : CallKnown(r) /\ Becomes(c, r) /\ r.pc \in {"access", "done"}
<1> USE DEF AccountInv
<1> DEFINE u == session[n].user
           r(pc) == [call[c] EXCEPT !.pc = pc, !.op = "refresh", !.at = i, !.sid = n, !.who = u,
                                    !.role = user[u].role]
<1>1. n \in Sessions /\ u \in Users /\ n \in 0..MaxSession
    BY AccountAssumption DEF Issued, AccountRows, SessionRow, Sessions
<1>2. call[c] \in CallRow /\ user[u].role \in 0..1
    BY <1>1 DEF CallsKnown, AccountRows, UserRow
<1>3. Becomes(c, r("done")) \/ Becomes(c, r("access"))
    BY DEF RefreshStart
<1>4. ASSUME NEW pc \in {"access", "done"}
      PROVE  /\ r(pc) \in CallRow /\ r(pc).pc = pc /\ r(pc).who = u /\ r(pc).op = "refresh"
             /\ r(pc).sid = n
    BY <1>1, <1>2 DEF CallRow, CallSteps
<1> HIDE DEF r, u
<1>5. ASSUME NEW pc \in {"access", "done"} PROVE CallKnown(r(pc)) /\ r(pc).pc \in {"access", "done"}
    BY <1>1, <1>4 DEF CallKnown, HoldsToken
<1> QED
    BY <1>3, <1>5

\* A request the filter admits has an issued session that is not refused.
LEMMA AdmittedKnown ==
    ASSUME AccountInv, NEW c \in Calls, NEW i \in Instances, NEW n \in Issued, NEW op \in Operations,
           JwtAuthFilter(c, i, n, op)
    PROVE  \E r : /\ CallKnown(r) /\ Becomes(c, r) /\ r.pc \in {"admitted", "done"} /\ r.sid = n
                  /\ r.pc = "admitted" => session[n].access > clock /\ ~(revoked[n] > clock)
<1> USE DEF AccountInv
<1> DEFINE u == session[n].user
           r(pc) == [call[c] EXCEPT !.pc = pc, !.op = op, !.at = i, !.sid = n, !.who = u,
                                    !.role = session[n].role]
<1>1. n \in Sessions /\ u \in Users /\ n \in 0..MaxSession /\ session[n].role \in 0..1
    BY AccountAssumption DEF Issued, AccountRows, SessionRow, Sessions
<1>2. call[c] \in CallRow
    BY DEF CallsKnown
<1>3. \/ Becomes(c, r("done"))
      \/ Becomes(c, r("admitted")) /\ session[n].access > clock /\ ~(revoked[n] > clock)
    BY DEF JwtAuthFilter, AccessRevoked
<1>4. ASSUME NEW pc \in {"admitted", "done"}
      PROVE  /\ r(pc) \in CallRow /\ r(pc).pc = pc /\ r(pc).who = u /\ r(pc).op = op
             /\ r(pc).sid = n
    BY <1>1, <1>2 DEF CallRow, CallSteps
<1> HIDE DEF r, u
<1>5. ASSUME NEW pc \in {"admitted", "done"} PROVE CallKnown(r(pc)) /\ r(pc).pc = pc /\ r(pc).sid = n
    BY <1>1, <1>4 DEF CallKnown, HoldsToken
<1> QED
    BY <1>3, <1>5

\* An administrator's request has the user it is about.
LEMMA AdminKnown ==
    ASSUME AccountInv, NEW c \in Calls, NEW u \in Users, NEW a \in Disabled..Locked, AdminRead(c, u, a)
    PROVE  \E r : CallKnown(r) /\ Becomes(c, r) /\ r.pc \in {"count", "write", "done"}
<1> USE DEF AccountInv
<1> DEFINE r(pc) == [call[c] EXCEPT !.pc = pc, !.who = u, !.arg = a]
<1>1. call[c] \in CallRow
    BY DEF CallsKnown
<1>2. Becomes(c, r("done")) \/ Becomes(c, r("count")) \/ Becomes(c, r("write"))
    BY DEF AdminRead
<1>3. call[c].op = "role" => a \in 0..1
    BY DEF AdminRead, AdminRequests
<1>4. ASSUME NEW pc \in {"count", "write", "done"}
      PROVE  r(pc) \in CallRow /\ r(pc).pc = pc /\ r(pc).who = u /\ r(pc).op = call[c].op /\ r(pc).arg = a
    BY <1>1 DEF CallRow, CallSteps
<1> HIDE DEF r
<1>5. ASSUME NEW pc \in {"count", "write", "done"} PROVE CallKnown(r(pc)) /\ r(pc).pc = pc
    BY <1>3, <1>4 DEF CallKnown, HoldsToken
<1> QED
    BY <1>2, <1>5

\* A change of password has the old one.
LEMMA PasswordKnown ==
    ASSUME AccountInv, NEW c \in Calls, NEW p \in Passwords, ChangePasswordRead(c, p)
    PROVE  \E r : CallKnown(r) /\ Becomes(c, r) /\ r.pc \in {"rehash", "done"}
<1> USE DEF AccountInv
<1> DEFINE r(pc) == [call[c] EXCEPT !.pc = pc, !.given = p]
<1>1. call[c] \in CallRow /\ call[c].who \in Users
    BY DEF CallsKnown, CallKnown, ChangePasswordRead
<1>2. Becomes(c, r("done")) \/ Becomes(c, r("rehash"))
    BY DEF ChangePasswordRead
<1>3. ASSUME NEW pc \in {"rehash", "done"}
      PROVE  r(pc) \in CallRow /\ r(pc).pc = pc /\ r(pc).who = call[c].who
    BY <1>1 DEF CallRow, CallSteps
<1> HIDE DEF r
<1>4. ASSUME NEW pc \in {"rehash", "done"} PROVE CallKnown(r(pc)) /\ r(pc).pc = pc
    BY <1>1, <1>3 DEF CallKnown, HoldsToken
<1> QED
    BY <1>2, <1>4

\* Every step moves at most one request, to something it knows; only a logout
\* comes to "revoke" and only the filter admits; or an instance restarts.
LEMMA CallReads ==
    ASSUME AccountInv, AccountNext
    PROVE  \/ UNCHANGED call
           \/ \E i \in Instances : InstanceRestarts(i)
           \/ \E c \in Calls : \E r :
                 /\ CallKnown(r) /\ Becomes(c, r)
                 /\ r.pc = "revoke" => LogoutInvalidate(c) /\ r.sid = call[c].sid
                 /\ call[c].pc = "idle" /\ r.pc = "admitted" =>
                        r.sid \in Issued /\ session[r.sid].access > clock /\ ~(revoked[r.sid] > clock)
<1> DEFINE Moves(c) == \E r :
                 /\ CallKnown(r) /\ Becomes(c, r)
                 /\ r.pc = "revoke" => LogoutInvalidate(c) /\ r.sid = call[c].sid
                 /\ call[c].pc = "idle" /\ r.pc = "admitted" =>
                        r.sid \in Issued /\ session[r.sid].access > clock /\ ~(revoked[r.sid] > clock)
<1>0. CallsKnown
    BY DEF AccountInv
<1>1. ASSUME NEW c \in Calls, NEW i \in Instances, NEW u \in Users, NEW p \in Passwords, LoginStart(c, i, u, p)
      PROVE  Moves(c)
    BY <1>1, LoginKnown
<1>2. ASSUME NEW c \in Calls, NEW i \in Instances, NEW n \in Issued, RefreshStart(c, i, n)
      PROVE  Moves(c)
    BY <1>2, RefreshKnown
<1>3. ASSUME NEW c \in Calls, NEW i \in Instances, NEW n \in Issued, NEW op \in Operations,
             JwtAuthFilter(c, i, n, op)
      PROVE  Moves(c)
    BY <1>3, AdmittedKnown
<1>4. ASSUME NEW c \in Calls,
             \/ LoginAccess(c) \/ LoginRejected(c) \/ UpdateLoginInfo(c) \/ LoginIssue(c)
             \/ RefreshAccess(c) \/ RefreshRefreshToken(c) \/ LogoutInvalidate(c) \/ LogoutRevoke(c)
             \/ (\E p \in Passwords : ChangePasswordWrite(c, p))
             \/ AdminCount(c) \/ AdminWrite(c) \/ StatementFails(c)
      PROVE  Moves(c)
    BY <1>0, <1>4, GoesOn
<1>5. ASSUME NEW c \in Calls, NEW p \in Passwords, ChangePasswordRead(c, p)
      PROVE  Moves(c)
    BY <1>5, PasswordKnown
<1>6. ASSUME NEW c \in Calls, NEW u \in Users, NEW a \in Disabled..Locked, AdminRead(c, u, a)
      PROVE  Moves(c)
    BY <1>6, AdminKnown
<1>7. Passes \/ (\E i \in Instances : EvictExpiredCacheEntries(i)) => UNCHANGED call
    BY DEF Passes, EvictExpiredCacheEntries
<1> HIDE DEF Moves
<1>8. UNCHANGED call \/ (\E i \in Instances : InstanceRestarts(i)) \/ \E c \in Calls : Moves(c)
    BY <1>1, <1>2, <1>3, <1>4, <1>5, <1>6, <1>7, Zenon DEF AccountNext
<1> QED
    BY <1>8 DEF Moves

\* A restart ends requests and starts none.
LEMMA RestartEnds ==
    ASSUME CallsKnown, NEW i \in Instances, InstanceRestarts(i), Issued \subseteq Issued'
    PROVE  /\ CallsKnown'
           /\ \A c \in Calls : call'[c] = call[c] \/ call'[c].pc = "done"
<1> DEFINE done == [IdleCall EXCEPT !.pc = "done"]
<1>1. CallKnown(done) /\ done.pc = "done" /\ done \in CallRow
    BY DoneKnown DEF IdleCall, CallKnown
<1>2. call' = [c \in Calls |-> IF call[c].at = i /\ call[c].pc # "idle" THEN done ELSE call[c]]
    BY DEF InstanceRestarts
<1> HIDE DEF done
<1>3. call' \in [Calls -> CallRow] /\ \A c \in Calls : call'[c] = done \/ call'[c] = call[c]
    BY <1>1, <1>2 DEF CallsKnown
<1>4. \A c \in Calls : CallKnown(call'[c])
    BY <1>1, <1>3 DEF CallsKnown
<1>5. \A d \in Calls :
          /\ call'[d].pc \notin {"idle", "done"} => call'[d].who \in Users
          /\ HoldsToken(call'[d]) => call'[d].sid \in Issued'
          /\ call'[d].op = "role" /\ call'[d].pc \in {"count", "write"} => call'[d].arg \in 0..1
    BY <1>4 DEF CallKnown
<1>6. CallsKnown'
    BY <1>3, <1>5 DEF CallsKnown, CallKnown, HoldsToken
<1> QED
    BY <1>1, <1>3, <1>6

\* What the steps mean for requests: known things stay known, a request that
\* comes to "revoke" is a logout's, and one that is admitted was not refused.
LEMMA CallsKept ==
    ASSUME AccountInv, AccountNext
    PROVE  /\ CallsKnown'
           /\ \A c \in Calls : call'[c].pc = "revoke" =>
                 \/ call'[c] = call[c]
                 \/ LogoutInvalidate(c) /\ call'[c].sid = call[c].sid
           /\ \A c \in Calls : call[c].pc = "idle" /\ call'[c].pc = "admitted" =>
                 /\ call'[c].sid \in Issued
                 /\ session[call'[c].sid].access > clock /\ ~(revoked[call'[c].sid] > clock)
<1>0. Issued \subseteq Issued' /\ CallsKnown
    BY IssuedStays DEF AccountInv
<1>1. CASE UNCHANGED call
  <2>1. \A c \in Calls : HoldsToken(call[c]) => call[c].sid \in Issued'
      BY <1>0 DEF CallsKnown, CallKnown
  <2>2. CallsKnown'
      BY <1>0, <1>1, <2>1 DEF CallsKnown, CallKnown, HoldsToken
  <2> QED
      BY <1>1, <2>2
<1>2. ASSUME NEW i \in Instances, InstanceRestarts(i)
      PROVE  /\ CallsKnown'
             /\ \A c \in Calls : call'[c] = call[c] \/ call'[c].pc = "done"
    BY <1>0, <1>2, RestartEnds
<1>3. ASSUME NEW c \in Calls, NEW r, CallKnown(r), Becomes(c, r),
             r.pc = "revoke" => LogoutInvalidate(c) /\ r.sid = call[c].sid,
             call[c].pc = "idle" /\ r.pc = "admitted" =>
                 r.sid \in Issued /\ session[r.sid].access > clock /\ ~(revoked[r.sid] > clock)
      PROVE  /\ CallsKnown'
             /\ \A d \in Calls : call'[d].pc = "revoke" =>
                   call'[d] = call[d] \/ (LogoutInvalidate(d) /\ call'[d].sid = call[d].sid)
             /\ \A d \in Calls : call[d].pc = "idle" /\ call'[d].pc = "admitted" =>
                 /\ call'[d].sid \in Issued
                 /\ session[call'[d].sid].access > clock /\ ~(revoked[call'[d].sid] > clock)
  <2>1. /\ CallsKnown'
        /\ \A d \in Calls : d # c => call'[d] = call[d]
        /\ call'[c].pc = r.pc
        /\ r.pc # "done" => call'[c] = r
      BY <1>0, <1>3, CallMoves
  <2> QED
      BY <2>1, <1>3
<1> QED
    BY <1>1, <1>2, <1>3, CallReads

-----------------------------------------------------------------------------
(* Revocations.                                                            *)

\* The clock, the entries of Redis and the record of logouts: what moves them.
LEMMA RevocationWriters ==
    ASSUME AccountNext
    PROVE  \/ UNCHANGED <<clock, revoked, loggedOut>>
           \/ Passes
           \/ \E c \in Calls : LogoutInvalidate(c) \/ LogoutRevoke(c)
<1> SUFFICES ASSUME ~UNCHANGED <<clock, revoked, loggedOut>>, ~Passes
             PROVE  \E c \in Calls : LogoutInvalidate(c) \/ LogoutRevoke(c)
    OBVIOUS
<1>1. \A i \in Instances : ~InstanceRestarts(i) /\ ~EvictExpiredCacheEntries(i)
    BY DEF InstanceRestarts, EvictExpiredCacheEntries
<1>2. PICK c \in Calls :
        \/ \E i \in Instances :
            \/ \E u \in Users, p \in Passwords : LoginStart(c, i, u, p)
            \/ \E n \in Issued : RefreshStart(c, i, n)
            \/ \E n \in Issued, op \in Operations : JwtAuthFilter(c, i, n, op)
        \/ LoginAccess(c) \/ LoginRejected(c) \/ UpdateLoginInfo(c) \/ LoginIssue(c)
        \/ RefreshAccess(c) \/ RefreshRefreshToken(c)
        \/ LogoutInvalidate(c) \/ LogoutRevoke(c)
        \/ \E p \in Passwords : ChangePasswordRead(c, p) \/ ChangePasswordWrite(c, p)
        \/ \E u \in Users, a \in Disabled..Locked : AdminRead(c, u, a)
        \/ AdminCount(c) \/ AdminWrite(c) \/ StatementFails(c)
    BY <1>1, Zenon DEF AccountNext
<1>3. \A i \in Instances :
          /\ \A u \in Users, p \in Passwords : ~LoginStart(c, i, u, p)
          /\ \A n \in Issued : ~RefreshStart(c, i, n)
          /\ \A n \in Issued, op \in Operations : ~JwtAuthFilter(c, i, n, op)
    BY Zenon DEF LoginStart, RefreshStart, JwtAuthFilter
<1>4. ~LoginAccess(c) /\ ~LoginRejected(c) /\ ~UpdateLoginInfo(c) /\ ~RefreshAccess(c)
    BY Zenon DEF LoginAccess, LoginRejected, UpdateLoginInfo, RefreshAccess
<1>5. ~LoginIssue(c) /\ ~RefreshRefreshToken(c)
    BY Zenon DEF LoginIssue, RefreshRefreshToken
<1>6. ~AdminCount(c) /\ ~StatementFails(c) /\ ~AdminWrite(c)
    BY Zenon DEF AdminCount, StatementFails, AdminWrite
<1>7. /\ \A p \in Passwords : ~ChangePasswordRead(c, p) /\ ~ChangePasswordWrite(c, p)
      /\ \A u \in Users, a \in Disabled..Locked : ~AdminRead(c, u, a)
    BY Zenon DEF ChangePasswordRead, ChangePasswordWrite, AdminRead
<1> QED
    BY <1>2, <1>3, <1>4, <1>5, <1>6, <1>7, Zenon

\* The clock only advances; an entry is only ever made to last the lifetime of
\* a token from now; what is recorded is the logout that waits for its record.
LEMMA RevocationWrites ==
    ASSUME AccountInv, AccountNext
    PROVE  /\ clock' \in 1..MaxTime /\ clock <= clock'
           /\ \/ revoked' = revoked
              \/ \E n \in Sessions : revoked' = [revoked EXCEPT ![n] = clock + AccessTtl]
           /\ \/ loggedOut' = loggedOut
              \/ \E c \in Calls : call[c].pc = "revoke" /\ loggedOut' = loggedOut \cup {call[c].sid}
<1> USE DEF AccountInv
<1>1. clock \in Nat /\ clock \in 1..MaxTime /\ MaxTime \in Nat
    BY AccountAssumption DEF AccountRows
<1>2. CASE UNCHANGED <<clock, revoked, loggedOut>>
    BY <1>1, <1>2
<1>3. CASE Passes
    BY <1>1, <1>3 DEF Passes
<1>4. ASSUME NEW c \in Calls, LogoutInvalidate(c)
      PROVE  /\ call[c].sid \in Sessions /\ clock' = clock /\ loggedOut' = loggedOut
             /\ revoked' = revoked \/ revoked' = [revoked EXCEPT ![call[c].sid] = clock + AccessTtl]
    BY <1>4 DEF LogoutInvalidate, CallsKnown, CallKnown, HoldsToken, Issued
<1>5. ASSUME NEW c \in Calls, LogoutRevoke(c)
      PROVE  /\ call[c].pc = "revoke" /\ clock' = clock /\ revoked' = revoked
             /\ loggedOut' = loggedOut \cup {call[c].sid}
    BY <1>5 DEF LogoutRevoke
<1> QED
    BY <1>1, <1>2, <1>3, <1>4, <1>5, RevocationWriters

\* An entry made by a logout outlives the token; later entries last longer.
LEMMA RevocationsKept ==
    ASSUME AccountInv, AccountNext
    PROVE  /\ clock' \in 1..MaxTime /\ revoked' \in [Sessions -> Nat] /\ loggedOut' \subseteq Sessions
           /\ RevocationsLast'
<1> USE DEF AccountInv
<1> DEFINE t == clock + AccessTtl
<1>1. /\ Issued \subseteq Issued' /\ Issued \subseteq Sessions /\ Issued' \subseteq Sessions
      /\ \A n \in Issued : session'[n] = session[n] /\ session[n].access \in Nat /\ session[n].access <= t
      /\ \A n \in Issued' \ Issued : session'[n].access = t
    BY IssuedStays DEF Issued, RevocationsLast, AccountRows, SessionRow
<1>2. /\ t \in Nat /\ clock' \in 1..MaxTime /\ t <= clock' + AccessTtl
    BY RevocationWrites, AccountAssumption DEF AccountRows
<1>3. /\ revoked' \in [Sessions -> Nat]
      /\ \A n \in Sessions : revoked'[n] = revoked[n] \/ revoked'[n] = t
  <2>1. CASE revoked' = revoked
      BY <2>1 DEF AccountRows
  <2>2. ASSUME NEW n \in Sessions, revoked' = [revoked EXCEPT ![n] = t]
        PROVE  /\ revoked' \in [Sessions -> Nat]
               /\ \A m \in Sessions : revoked'[m] = revoked[m] \/ revoked'[m] = t
      BY <1>2, <2>2 DEF AccountRows
  <2> QED
      BY <2>1, <2>2, RevocationWrites
<1> HIDE DEF t
<1>4. ASSUME NEW n \in Issued, session[n].access <= revoked[n]
      PROVE  n \in Issued' /\ session'[n].access <= revoked'[n]
    BY <1>1, <1>3, <1>4
<1>5. \A n \in Issued' : session'[n].access <= clock' + AccessTtl
  <2> TAKE n \in Issued'
  <2>1. session'[n].access \in Nat /\ session'[n].access <= t
      BY <1>1, <1>2
  <2> QED
      BY <2>1, <1>2, AccountAssumption
<1>6. ASSUME NEW n \in loggedOut' PROVE n \in Issued' /\ session'[n].access <= revoked'[n]
  <2>1. n \in loggedOut \/ \E c \in Calls : call[c].pc = "revoke" /\ n = call[c].sid
      BY <1>6, RevocationWrites
  <2>2. n \in Issued /\ session[n].access <= revoked[n]
      BY <2>1 DEF RevocationsLast, Outlived
  <2> QED
      BY <2>2, <1>4
<1>7. ASSUME NEW c \in Calls, call'[c].pc = "revoke"
      PROVE  call'[c].sid \in Issued' /\ session'[call'[c].sid].access <= revoked'[call'[c].sid]
  <2>1. CASE call'[c] = call[c]
      BY <2>1, <1>7, <1>4 DEF RevocationsLast, Outlived
  <2>2. CASE LogoutInvalidate(c) /\ call'[c].sid = call[c].sid
    <3> DEFINE n == call[c].sid
    <3>1. n \in Issued /\ n \in Sessions /\ call[c].pc = "admitted" /\ n \in Issued'
        BY <2>2, <1>1 DEF LogoutInvalidate, CallsKnown, CallKnown, HoldsToken
    <3>2. PICK o \in RedisOutcome :
              /\ revoked' = IF o.done THEN [revoked EXCEPT ![n] = t] ELSE revoked
              /\ Goes(c, IF o.reported THEN "revoke" ELSE "done")
        BY <2>2 DEF LogoutInvalidate, t
    <3>3. o.reported
      <4> SUFFICES ASSUME ~o.reported PROVE FALSE
          OBVIOUS
      <4>1. Goes(c, "done") /\ "done" \in CallSteps
          BY <3>2 DEF CallSteps
      <4>2. call' = [call EXCEPT ![c] = [IdleCall EXCEPT !.pc = "done"]]
        <5>1. [call[c] EXCEPT !.pc = "done"].pc = "done"
            BY DEF CallsKnown, CallRow
        <5> QED
            BY <4>1, <5>1 DEF Goes, Becomes
      <4>3. call'[c].pc = "done"
          BY <4>2 DEF CallsKnown, IdleCall
      <4> QED
          BY <4>3, <1>7
    <3>4. revoked'[n] = t
        BY <3>1, <3>2, <3>3, ReportedIsDone DEF AccountRows
    <3> QED
        BY <3>1, <3>4, <2>2, <1>1
  <2> QED
      BY <2>1, <2>2, <1>7, CallsKept
<1>8. RevocationsLast'
    BY <1>5, <1>6, <1>7 DEF RevocationsLast, Outlived
<1> QED
    BY <1>1, <1>2, <1>3, <1>6, <1>8

-----------------------------------------------------------------------------
(* The invariant and what follows from it.                                 *)

\* At the start every administrator is logged in with a session of his own.
LEMMA AccountInvInit == AccountInit => AccountInv
<1> SUFFICES ASSUME AccountInit PROVE AccountInv
    OBVIOUS
<1> DEFINE pass == CHOOSE p \in Passwords : TRUE
<1>0. /\ clock = 1 /\ pass \in Passwords /\ Cardinality(Administrators) \in Nat
      /\ MaxSession \in Nat /\ MaxTime \in Nat /\ MaxTime > 0 /\ FailureLimit \in Nat /\ FailureLimit > 0
      /\ AccessTtl \in Nat /\ RefreshTtl \in Nat
    BY AccountAssumption, FS_CardinalityType DEF AccountInit
<1>1. /\ user = [u \in Users |->
            [role |-> IF u \in Administrators THEN 1 ELSE 0, status |-> Active,
             attempts |-> 0, lockedUntil |-> Never, pw |-> pass]]
      /\ revoked = [n \in Sessions |-> Never] /\ rotated = [n \in Sessions |-> 0]
      /\ loggedOut = {} /\ call = [c \in Calls |-> IdleCall]
    BY DEF AccountInit
<1>2. PICK s \in [Administrators -> 1..Cardinality(Administrators)] :
          /\ \A u, v \in Administrators : s[u] = s[v] => u = v
          /\ session = [n \in Sessions |->
                IF \E u \in Administrators : s[u] = n
                THEN [user |-> CHOOSE u \in Administrators : s[u] = n, role |-> 1,
                      access |-> clock + AccessTtl, refresh |-> clock + RefreshTtl]
                ELSE [user |-> Nobody, role |-> 0, access |-> Never, refresh |-> Never]]
          /\ refreshKey = [u \in Users |->
                IF u \in Administrators THEN [sid |-> s[u], exp |-> clock + RefreshTtl]
                ELSE [sid |-> 0, exp |-> Never]]
    BY DEF AccountInit
<1> HIDE DEF pass
<1>3. user \in [Users -> UserRow] /\ AttemptsBounded
  <2>1. \A u \in Users : user[u] \in UserRow /\ user[u].attempts = 0
      BY <1>0, <1>1 DEF UserRow, Disabled, Active, Locked, Never
  <2>2. user \in [Users -> UserRow]
      BY <1>1, <2>1
  <2> QED
      BY <2>1, <2>2, <1>0 DEF AttemptsBounded, FailuresLock
<1>4. \A u \in Administrators : u \in Users /\ s[u] \in Sessions /\ s[u] \in 0..MaxSession
    BY <1>0, <1>2, AccountAssumption DEF Sessions
<1>5. ASSUME NEW n \in Sessions
      PROVE  /\ session[n] \in SessionRow /\ session[n].access <= clock + AccessTtl
             /\ \A u \in Administrators : s[u] = n => session[n].user = u
  <2>1. CASE \E u \in Administrators : s[u] = n
    <3> DEFINE v == CHOOSE u \in Administrators : s[u] = n
    <3>1. v \in Administrators /\ s[v] = n
        BY <2>1
    <3> HIDE DEF v
    <3>2. session[n] = [user |-> v, role |-> 1, access |-> clock + AccessTtl, refresh |-> clock + RefreshTtl]
        BY <1>2, <2>1 DEF v
    <3>3. session[n] \in SessionRow /\ session[n].access <= clock + AccessTtl /\ session[n].user = v
        BY <1>0, <1>4, <3>1, <3>2 DEF SessionRow
    <3> QED
        BY <1>2, <3>1, <3>3
  <2>2. CASE ~\E u \in Administrators : s[u] = n
    <3>1. session[n] = [user |-> Nobody, role |-> 0, access |-> Never, refresh |-> Never]
        BY <1>2, <2>2
    <3> QED
        BY <1>0, <2>2, <3>1 DEF SessionRow, Never
  <2> QED
      BY <2>1, <2>2
<1>6. session \in [Sessions -> SessionRow]
    BY <1>2, <1>5
<1>7. ASSUME NEW u \in Users
      PROVE  refreshKey[u] \in KeyRow /\ (refreshKey[u].sid # 0 => session[refreshKey[u].sid].user = u)
  <2>1. CASE u \in Administrators
    <3>1. refreshKey[u] = [sid |-> s[u], exp |-> clock + RefreshTtl]
        BY <1>2, <2>1
    <3> QED
        BY <1>0, <1>4, <1>5, <2>1, <3>1 DEF KeyRow
  <2>2. CASE u \notin Administrators
    <3>1. refreshKey[u] = [sid |-> 0, exp |-> Never]
        BY <1>2, <2>2
    <3> QED
        BY <1>0, <3>1 DEF KeyRow, Never
  <2> QED
      BY <2>1, <2>2
<1>8. refreshKey \in [Users -> KeyRow] /\ KeysOwned
    BY <1>2, <1>7 DEF KeysOwned
<1>9. AccountRows
    BY <1>0, <1>1, <1>3, <1>6, <1>8 DEF AccountRows, Never
<1>10. CallsKnown /\ \A c \in Calls : call[c].pc = "idle"
    BY <1>1, DoneKnown DEF CallsKnown, CallKnown, IdleCall
<1>11. RotatedGone
    BY <1>1 DEF RotatedGone
<1>12. RevocationsLast
    BY <1>1, <1>5, <1>10 DEF RevocationsLast, Issued
<1> QED
    BY <1>3, <1>8, <1>9, <1>10, <1>11, <1>12 DEF AccountInv

\* Every step keeps the invariant.
LEMMA AccountInvStep == AccountInv /\ [AccountNext]_accountVars => AccountInv'
<1> SUFFICES ASSUME AccountInv, [AccountNext]_accountVars PROVE AccountInv'
    OBVIOUS
<1>1. CASE AccountNext
  <2>1. user' \in [Users -> UserRow] /\ AttemptsBounded'
      BY <1>1, UsersKept
  <2>2. /\ session' \in [Sessions -> SessionRow] /\ refreshKey' \in [Users -> KeyRow]
        /\ rotated' \in [Sessions -> Nat] /\ KeysOwned' /\ RotatedGone'
      BY <1>1, KeysKept
  <2>3. CallsKnown'
      BY <1>1, CallsKept
  <2>4. /\ clock' \in 1..MaxTime /\ revoked' \in [Sessions -> Nat] /\ loggedOut' \subseteq Sessions
        /\ RevocationsLast'
      BY <1>1, RevocationsKept
  <2> QED
      BY <2>1, <2>2, <2>3, <2>4 DEF AccountInv, AccountRows
<1>2. CASE UNCHANGED accountVars
    BY <1>2 DEF accountVars, AccountInv, AccountRows, AttemptsBounded, FailuresLock, CallsKnown, CallKnown,
                HoldsToken, KeysOwned, RotatedGone, RevocationsLast, Outlived, Issued
<1> QED
    BY <1>1, <1>2

\* The invariant holds in every state of every behaviour.
LEMMA AccountInvHolds == AccountSpec => []AccountInv
BY AccountInvInit, AccountInvStep, PTL DEF AccountSpec

\* The invariant says what the run checks.
LEMMA AccountInvSound == AccountInv => AccountsSound
<1> SUFFICES ASSUME AccountInv PROVE AccountsSound
    OBVIOUS
<1> USE DEF AccountInv
<1>1. ASSUME NEW u \in Users
      PROVE  /\ user[u].role \in 0..1 /\ user[u].status \in Disabled..Locked
             /\ user[u].attempts \in 0..FailureLimit
             /\ user[u].pw \in Passwords
             /\ refreshKey[u].sid \in Sessions \cup {0}
  <2>1. user[u] \in UserRow /\ refreshKey[u] \in KeyRow /\ user[u].attempts <= FailureLimit
      BY DEF AccountRows, AttemptsBounded
  <2> QED
      BY <2>1, AccountAssumption DEF UserRow, KeyRow, Sessions
<1>2. \A n \in Sessions : session[n].user \in Users \cup {Nobody}
    BY DEF AccountRows, SessionRow
<1>3. \A c \in Calls : call[c].pc \in CallSteps
    BY DEF CallsKnown, CallRow
<1>4. AccountTypeOK
    BY <1>1, <1>2, <1>3 DEF AccountTypeOK, AccountRows, CallSteps
<1>5. RotatedOnce
    BY DEF RotatedOnce, RotatedGone, AccountRows
<1> QED
    BY <1>4, <1>5 DEF AccountsSound, AttemptsBounded

\* A refresh token is exchanged at most once and five wrong passwords leave a
\* deadline, for any number of instances, requests and sessions, and whatever
\* Redis loses (TokenService::RefreshRefreshToken,
\* AuthService::IncrementLoginAttempts).
THEOREM AccountsSoundHolds == AccountSpec => []AccountsSound
BY AccountInvHolds, AccountInvSound, PTL

\* A login's two updates apply only to a row whose lock has run out, so a
\* running lock is moved by an administrator's change of the status alone.
LEMMA LocksStand ==
    ASSUME AccountInv, AccountNext
    PROVE  KeepsLockDeadline
<1> USE DEF AccountInv
<1> SUFFICES ASSUME NEW u \in Users, user[u].lockedUntil > clock,
                    user'[u].lockedUntil # user[u].lockedUntil
             PROVE  \E c \in Calls : /\ call[c].pc = "write" /\ call'[c].pc = "done"
                                     /\ call[c].op = "status" /\ call[c].who = u
    BY DEF KeepsLockDeadline
<1>1. /\ user \in [Users -> UserRow] /\ user[u] \in UserRow
      /\ user[u].lockedUntil \in Nat /\ clock \in Nat
    BY DEF AccountRows, UserRow
<1>2. ~LoginUpdatable(u)
    BY <1>1 DEF LoginUpdatable
<1>3. ASSUME NEW v \in Users, IncrementLoginAttempts(v) PROVE FALSE
  <2>1. CASE v = u
      BY <1>2, <1>3, <2>1 DEF IncrementLoginAttempts
  <2>2. CASE v # u
      BY <1>1, <1>3, <2>2 DEF IncrementLoginAttempts
  <2> QED
      BY <2>1, <2>2
<1>4. ASSUME NEW c \in Calls, call[c].pc \notin {"idle", "done"} PROVE call[c].who \in Users
    BY <1>4 DEF CallsKnown, CallKnown
<1>5. ASSUME NEW c \in Calls PROVE ~LoginRejected(c)
    BY <1>3, <1>4 DEF LoginRejected
<1>6. ASSUME NEW c \in Calls PROVE ~UpdateLoginInfo(c)
  <2> SUFFICES ASSUME UpdateLoginInfo(c) PROVE FALSE
      OBVIOUS
  <2> DEFINE v == call[c].who
             row == [user[v] EXCEPT !.status = Active, !.attempts = 0, !.lockedUntil = Never]
  <2>1. user' = user \/ (LoginUpdatable(v) /\ user' = [user EXCEPT ![v] = row])
      BY DEF UpdateLoginInfo
  <2>2. v # u => user'[u] = user[u]
      BY <1>1, <2>1
  <2> QED
      BY <1>2, <2>1, <2>2
<1>7. ASSUME NEW c \in Calls, NEW p \in Passwords PROVE ~ChangePasswordWrite(c, p)
  <2> SUFFICES ASSUME ChangePasswordWrite(c, p) PROVE FALSE
      OBVIOUS
  <2> DEFINE v == call[c].who
             row == [user[v] EXCEPT !.pw = p]
  <2>1. user' = [user EXCEPT ![v] = row]
      BY DEF ChangePasswordWrite
  <2>2. v = u => row.lockedUntil = user[u].lockedUntil
      BY <1>1 DEF UserRow
  <2> HIDE DEF row, v
  <2>3. user'[u] = user[u] \/ (v = u /\ user'[u] = row)
      BY <1>1, <2>1
  <2> QED
      BY <2>2, <2>3
<1>8. PICK c \in Calls : AdminWrite(c)
    BY <1>5, <1>6, <1>7, UserWriters
<1> DEFINE v == call[c].who
<1>9. ~ChangeUserRole(v, call[c].arg) /\ ~SoftDeleteUser(v)
  <2> DEFINE r1 == [user[v] EXCEPT !.role = call[c].arg]
             r2 == [user[v] EXCEPT !.status = Disabled]
  <2>1. v = u => r1.lockedUntil = user[u].lockedUntil /\ r2.lockedUntil = user[u].lockedUntil
      BY <1>1 DEF UserRow
  <2>2. /\ ChangeUserRole(v, call[c].arg) => user' = [user EXCEPT ![v] = r1]
        /\ SoftDeleteUser(v) => user' = [user EXCEPT ![v] = r2]
      BY DEF ChangeUserRole, SoftDeleteUser
  <2> HIDE DEF r1, r2, v
  <2>3. /\ user' = [user EXCEPT ![v] = r1] => user'[u] = user[u] \/ (v = u /\ user'[u] = r1)
        /\ user' = [user EXCEPT ![v] = r2] => user'[u] = user[u] \/ (v = u /\ user'[u] = r2)
      BY <1>1
  <2> QED
      BY <2>1, <2>2, <2>3
<1>10. call[c].pc = "write" /\ call[c].op = "status" /\ ChangeUserStatus(v, call[c].arg)
    BY <1>8, <1>9 DEF AdminWrite
<1>11. v = u
  <2> DEFINE row == [user[v] EXCEPT !.status = call[c].arg, !.attempts = 0, !.lockedUntil = Never]
  <2>1. user' = [user EXCEPT ![v] = row]
      BY <1>10 DEF ChangeUserStatus
  <2> HIDE DEF row, v
  <2> QED
      BY <1>1, <2>1
<1>12. call'[c].pc = "done"
  <2>1. [call[c] EXCEPT !.pc = "done"].pc = "done"
      BY DEF CallsKnown, CallRow
  <2>2. call' = [call EXCEPT ![c] = [IdleCall EXCEPT !.pc = "done"]]
      BY <1>8, <2>1 DEF AdminWrite, Answered, Goes, Becomes
  <2> QED
      BY <2>2 DEF CallsKnown, IdleCall
<1> QED
    BY <1>10, <1>11, <1>12

\* A token that is admitted has not run out and has no entry, while the entry
\* of a logged-out token outlives it.
LEMMA LogoutsStand ==
    ASSUME AccountInv, AccountNext
    PROVE  RefusesLoggedOut
<1> SUFFICES ASSUME NEW c \in Calls, call[c].pc = "idle", call'[c].pc = "admitted",
                    call'[c].sid \in loggedOut
             PROVE  FALSE
    BY DEF RefusesLoggedOut
<1> DEFINE n == call'[c].sid
<1>1. n \in Issued /\ session[n].access > clock /\ ~(revoked[n] > clock)
    BY CallsKept
<1>2. session[n].access <= revoked[n]
    BY DEF AccountInv, RevocationsLast, Outlived
<1>3. session[n].access \in Nat /\ revoked[n] \in Nat /\ clock \in Nat
    BY <1>1 DEF AccountInv, AccountRows, SessionRow, Issued
<1> QED
    BY <1>1, <1>2, <1>3

\* No step of any instance takes back a logout or moves a running lock, for
\* any number of instances, requests and sessions (IsAccessTokenRevoked,
\* UpdateLoginInfo, IncrementLoginAttempts).
THEOREM WithdrawalsStandHolds == AccountSpec => WithdrawalsStand
<1>1. AccountInv /\ [AccountNext]_accountVars => [RefusesLoggedOut /\ KeepsLockDeadline]_accountVars
    BY LogoutsStand, LocksStand
<1> QED
    BY <1>1, AccountInvHolds, PTL DEF AccountSpec, WithdrawalsStand

-----------------------------------------------------------------------------
(* The gate.  Its inductive invariant: what is left of every request's     *)
(* program reads nothing that is not established before it is read, and    *)
(* meets no counter twice; a counter is never above the number of requests *)
(* that are past it, so that a request that finds it full is not among     *)
(* those it counts; and while a window lasts its counter has not expired   *)
(* and is at least the number of requests that passed in it.               *)

GateSteps == {"Jwt", "AdminAuth", "ShareAuth", "parse", "user", "share", "call", "access"} \cup Limits
Scopes == {"none", "view", "download"}

\* Which step of a request counts under which family of keys.
CountedBy ==
    {<<"api", "ApiLimit">>, <<"upload", "UploadLimit">>, <<"download", "DownloadLimit">>,
     <<"folder", "FolderLimit">>, <<"admin", "AdminLimit">>, <<"register", "RegisterLimit">>,
     <<"access", "ShareAccessLimit">>, <<"browse", "ShareLimit">>, <<"share_download", "ShareLimit">>,
     <<"password", "access">>}

Families == {"api", "upload", "download", "folder", "admin", "register", "access", "browse",
             "share_download", "password"}
Subjects == GateUsers \cup {Anonymous, "address"} \cup Scopes
GateKeys == Families \X Subjects \X Nat

\* What is left of a request's program: it ends with the call of the service
\* and nowhere else, what it reads has been or will be established before,
\* and no counter is met twice.
ProgramSound(route, s, attrs) ==
    /\ s \in Seq(GateSteps) /\ Len(s) > 0
    /\ \A i \in 1..Len(s) : s[i] \in {"call", "access"} <=> i = Len(s)
    /\ \A i \in 1..Len(s) : s[i] = "user" =>
          "user" \in attrs \/ (~IsPublicPath(route) /\ \E j \in 1..(i - 1) : s[j] = "Jwt")
    /\ \A i \in 1..Len(s) : s[i] = "share" => "share" \in attrs \/ \E j \in 1..(i - 1) : s[j] = "ShareAuth"
    /\ \A i, j \in 1..Len(s) : s[i] = s[j] /\ s[i] \in Limits => i = j
    /\ route = "share_browse" =>
          \A i \in 1..Len(s) : s[i] # "access" /\ (s[i] \in Limits => s[i] \in {"RegisterLimit", "ShareLimit"})

\* A key a request may count under.
OwnKey(q, k) ==
    /\ k[2] \in {q.sender, q.scope, "address"}
    /\ k[1] = "browse" <=> q.route = "share_browse"

GateRows ==
    [pc : {"running", "refused", "served"}, route : Routes, sender : GateUsers \cup {Anonymous},
     scope : Scopes, rest : Seq(GateSteps), attrs : SUBSET {"user", "share"}, missing : {{}},
     key : {<<>>} \cup GateKeys, passed : SUBSET [key : GateKeys, at : Nat], blocked : SUBSET GateKeys]

\* A request that was sent: what it is, what is left of it, the key it is
\* about to count under and the keys it was turned away for.
RequestSound(q) ==
    /\ q \in GateRows
    /\ q.pc = "running" => ProgramSound(q.route, q.rest, q.attrs)
    /\ q.pc # "running" => q.rest = <<>> /\ q.key = <<>>
    /\ q.key # <<>> =>
          /\ q.key[3] <= second /\ OwnKey(q, q.key)
          /\ Head(q.rest) \in Limits /\ <<q.key[1], Head(q.rest)>> \in CountedBy
    /\ \A k \in q.blocked : OwnKey(q, k)

RequestsSound == DOMAIN greq = GateRequests /\ \A r \in Sent : RequestSound(greq[r])

\* Requests that may have counted under a key: theirs, and not ahead of them.
Past(k) ==
    {s \in Sent : /\ OwnKey(greq[s], k)
                  /\ \A i \in 1..Len(greq[s].rest) : <<k[1], greq[s].rest[i]>> \notin CountedBy}

\* A counter counts requests that are past it, and lives to the end of its window.
CountersSound ==
    \A k \in DOMAIN counter :
        /\ k \in GateKeys
        /\ counter[k].count \in Nat \ {0} /\ counter[k].exp \in Nat
        /\ counter[k].count <= Cardinality(Past(k))
        /\ counter[k].exp >= k[3] + Window

\* Requests that have passed a limit in the window of the key.
InWindow(k) == {s \in Sent : \E x \in greq[s].passed : x.key = k /\ OnTime(x)}

WindowsSound ==
    \A k \in GateKeys :
        /\ Cardinality(InWindow(k)) <= Limit
        /\ InWindow(k) # {} /\ second < k[3] + Window =>
              k \in DOMAIN counter /\ Cardinality(InWindow(k)) <= counter[k].count

GateInv ==
    /\ second \in 0..MaxSecond
    /\ RequestsSound /\ CountersSound /\ WindowsSound /\ RefusedForOwnTraffic

-----------------------------------------------------------------------------
(* The tables of the routes.                                               *)

ShareRoutes == {"share_browse", "share_info", "share_download", "share_save"}
FilterLists ==
    {<<>>, <<"UploadLimit">>, <<"DownloadLimit">>, <<"FolderLimit">>, <<"ApiLimit">>,
     <<"AdminAuth", "AdminLimit">>, <<"ShareAccessLimit">>, <<"ShareAuth", "ShareLimit">>}
FiltersSound(f) ==
    \A r \in DOMAIN f : f[r] \in FilterLists /\ (r \in ShareRoutes => f[r] = <<"ShareAuth", "ShareLimit">>)

\* What holds for every table holds for the joined one.
LEMMA JoinedFilters ==
    ASSUME NEW ts, \A t \in ts : FiltersSound(t)
    PROVE  FiltersSound(Joined(ts))
<1> SUFFICES ASSUME NEW r \in DOMAIN Joined(ts)
             PROVE  \E t \in ts : r \in DOMAIN t /\ Joined(ts)[r] = t[r]
  BY DEF FiltersSound
<1>1. \E t \in ts : r \in DOMAIN t
  BY DEF Joined
<1>2. Joined(ts)[r] = (CHOOSE t \in ts : r \in DOMAIN t)[r]
  BY DEF Joined
<1> QED
  BY <1>1, <1>2

\* Every route has one of a few lists of filters; visitors' routes verify the
\* share token.
LEMMA FiltersKnown == FiltersSound(RouteFilters)
<1>1. FiltersSound(FileFilters)
  <2>1. \A t \in {Behind(<<"UploadLimit">>, {"upload_init", "upload_chunk", "upload_complete", "upload_cancel"}),
            Behind(<<"DownloadLimit">>, {"download_info", "download"}),
            Behind(<<>>, {"file_list", "file_detail", "file_rename", "file_move", "file_copy",
                     "file_delete", "file_search"})} : FiltersSound(t)
    BY DEF FiltersSound, FilterLists, ShareRoutes, Behind
  <2> QED
    BY <2>1, JoinedFilters DEF FileFilters
<1>2. FiltersSound(FolderFilters) /\ FiltersSound(TrashFilters) /\ FiltersSound(UserFilters)
      /\ FiltersSound(AuthFilters)
  BY DEF FolderFilters, TrashFilters, UserFilters, AuthFilters, FiltersSound, FilterLists, ShareRoutes, Behind
<1>3. FiltersSound(AdminRouteFilters) /\ FiltersSound(RecoveryFilters) /\ FiltersSound(StorageJobFilters)
      /\ FiltersSound(DiagnosticFilters)
  BY DEF AdminRouteFilters, RecoveryFilters, StorageJobFilters, DiagnosticFilters, AdminFilters,
         FiltersSound, FilterLists, ShareRoutes, Behind
<1>4. FiltersSound(ShareFilters)
  <2>1. \A t \in {Behind(<<>>, {"share_create", "share_list", "share_detail", "share_update", "share_cancel"}),
            Behind(<<"ShareAccessLimit">>, {"share_access"}),
            Behind(<<"ShareAuth", "ShareLimit">>, {"share_browse", "share_info", "share_download", "share_save"})}
         : FiltersSound(t)
    BY DEF FiltersSound, FilterLists, ShareRoutes, Behind
  <2> QED
    BY <2>1, JoinedFilters DEF ShareFilters
<1>5. FiltersSound(OpenFilters)
  BY DEF OpenFilters, FiltersSound, FilterLists, ShareRoutes, Behind
<1> QED
  BY <1>1, <1>2, <1>3, <1>4, <1>5, JoinedFilters DEF RouteFilters

HandlerLists ==
    {<<"parse", "user", "call">>, <<"user", "parse", "call">>, <<"user", "call">>, <<"parse", "call">>,
     <<"call">>, <<"parse", "access">>, <<"parse", "share", "call">>, <<"parse", "user", "share", "call">>}
UserHandlerLists ==
    {<<"parse", "user", "call">>, <<"user", "parse", "call">>, <<"user", "call">>,
     <<"parse", "user", "share", "call">>}
ShareHandlerLists == {<<"parse", "share", "call">>, <<"parse", "user", "share", "call">>}
HandlersSound(f) ==
    \A r \in DOMAIN f :
        /\ f[r] \in HandlerLists
        /\ f[r] \in UserHandlerLists => ~IsPublicPath(r)
        /\ f[r] \in ShareHandlerLists => r \in ShareRoutes
        /\ f[r] = <<"parse", "access">> => r = "share_access"

LEMMA JoinedHandlers ==
    ASSUME NEW ts, \A t \in ts : HandlersSound(t)
    PROVE  HandlersSound(Joined(ts))
<1> SUFFICES ASSUME NEW r \in DOMAIN Joined(ts)
             PROVE  \E t \in ts : r \in DOMAIN t /\ Joined(ts)[r] = t[r]
  BY DEF HandlersSound
<1>1. \E t \in ts : r \in DOMAIN t
  BY DEF Joined
<1>2. Joined(ts)[r] = (CHOOSE t \in ts : r \in DOMAIN t)[r]
  BY DEF Joined
<1> QED
  BY <1>1, <1>2

\* Routes with the same handler.
LEMMA DoingSound ==
    ASSUME NEW steps \in HandlerLists, NEW routes,
           steps \in UserHandlerLists => \A r \in routes : ~IsPublicPath(r),
           steps \in ShareHandlerLists => routes \subseteq ShareRoutes,
           steps = <<"parse", "access">> => routes \subseteq {"share_access"}
    PROVE  HandlersSound(Doing(steps, routes))
BY DEF HandlersSound, Doing

\* A handler reads the user on routes that are not public only, and the share
\* on visitors' routes only.
LEMMA HandlersKnown == HandlersSound(Handlers)
<1> USE DEF HandlerLists, UserHandlerLists, ShareHandlerLists, ShareRoutes, IsPublicPath, OpenRoutes,
            VisitorRoutes, ParseFirst, UserFirst
<1>1. HandlersSound(UploadHandlers)
  <2>1. HandlersSound(Doing(ParseFirst, {"upload_init"})) /\ HandlersSound(Doing(UserFirst, {"upload_chunk"}))
    BY DoingSound
  <2> QED
    BY <2>1, JoinedHandlers DEF UploadHandlers
<1>2. HandlersSound(UploadEndHandlers) /\ HandlersSound(FileHandlers) /\ HandlersSound(DownloadHandler)
  BY DoingSound DEF UploadEndHandlers, FileHandlers, DownloadHandler
<1>3. HandlersSound(FileMutationHandlers) /\ HandlersSound(FileRemovalHandlers)
      /\ HandlersSound(FolderHandlers) /\ HandlersSound(FolderRenameHandler)
  BY DoingSound DEF FileMutationHandlers, FileRemovalHandlers, FolderHandlers, FolderRenameHandler
<1>4. HandlersSound(TrashHandlers)
  <2>1. /\ HandlersSound(Doing(UserFirst, {"trash_list", "trash_restore", "trash_delete"}))
        /\ HandlersSound(Doing(<<"user", "call">>, {"trash_empty"}))
    BY DoingSound
  <2> QED
    BY <2>1, JoinedHandlers DEF TrashHandlers
<1>5. HandlersSound(UserHandlers)
  <2>1. /\ HandlersSound(Doing(<<"user", "call">>, {"profile", "storage"}))
        /\ HandlersSound(Doing(UserFirst, {"password", "profile_update"}))
    BY DoingSound
  <2> QED
    BY <2>1, JoinedHandlers DEF UserHandlers
<1>6. HandlersSound(LogHandler) /\ HandlersSound(SystemHandler)
  BY DoingSound DEF LogHandler, SystemHandler
<1>7. HandlersSound(AuthHandlers)
  <2>1. /\ HandlersSound(Doing(<<"parse", "call">>, {"register", "login", "refresh"}))
        /\ HandlersSound(Doing(ParseFirst, {"logout"}))
    BY DoingSound
  <2> QED
    BY <2>1, JoinedHandlers DEF AuthHandlers
<1>8. HandlersSound(AdminUserHandlers) /\ HandlersSound(AdminChangeHandlers)
  <2>1. /\ HandlersSound(Doing(<<"parse", "call">>, {"admin_users", "admin_user"}))
        /\ HandlersSound(Doing(UserFirst, {"admin_status"}))
        /\ HandlersSound(Doing(UserFirst, {"admin_role", "admin_space", "admin_delete"}))
    BY DoingSound
  <2> QED
    BY <2>1, JoinedHandlers DEF AdminUserHandlers, AdminChangeHandlers
<1>9. HandlersSound(AdminShareHandlers)
  <2>1. /\ HandlersSound(Doing(<<"user", "call">>, {"admin_stats"}))
        /\ HandlersSound(Doing(ParseFirst, {"admin_shares", "admin_share"}))
        /\ HandlersSound(Doing(UserFirst, {"admin_cancel"}))
    BY DoingSound
  <2> QED
    BY <2>1, JoinedHandlers DEF AdminShareHandlers
<1>10. HandlersSound(AdminStatusHandlers)
  <2>1. /\ HandlersSound(Doing(<<"call">>, {"admin_overview", "admin_system", "admin_cleanup"}))
        /\ HandlersSound(Doing(<<"parse", "call">>, {"admin_logs"}))
    BY DoingSound
  <2> QED
    BY <2>1, JoinedHandlers DEF AdminStatusHandlers
<1>11. HandlersSound(RecoveryHandlers) /\ HandlersSound(DiagnosticHandler)
  BY DoingSound DEF RecoveryHandlers, DiagnosticHandler
<1>12. HandlersSound(StorageJobHandlers)
  <2>1. /\ HandlersSound(Doing(<<"parse", "call">>, {"job_list", "job"}))
        /\ HandlersSound(Doing(ParseFirst, {"job_replay"}))
    BY DoingSound
  <2> QED
    BY <2>1, JoinedHandlers DEF StorageJobHandlers
<1>13. HandlersSound(ShareOwnerHandlers)
  BY DoingSound DEF ShareOwnerHandlers
<1>14. HandlersSound(ShareVisitorHandlers)
  <2>1. /\ HandlersSound(Doing(<<"parse", "access">>, {"share_access"}))
        /\ HandlersSound(Doing(<<"parse", "share", "call">>, {"share_browse", "share_info"}))
    BY DoingSound
  <2> QED
    BY <2>1, JoinedHandlers DEF ShareVisitorHandlers
<1>15. HandlersSound(ShareContentHandlers)
  <2>1. /\ HandlersSound(Doing(<<"parse", "share", "call">>, {"share_download"}))
        /\ HandlersSound(Doing(<<"parse", "user", "share", "call">>, {"share_save"}))
    BY DoingSound
  <2> QED
    BY <2>1, JoinedHandlers DEF ShareContentHandlers
<1>16. HandlersSound(HealthHandlers) /\ HandlersSound(MetricsHandler)
  BY DoingSound DEF HealthHandlers, MetricsHandler
<1> QED
  BY <1>1, <1>2, <1>3, <1>4, <1>5, <1>6, <1>7, <1>8, <1>9, <1>10, <1>11, <1>12, <1>13, <1>14, <1>15,
     <1>16, JoinedHandlers DEF Handlers

\* The filters of a route: no handler's step, no counter twice.
LEMMA FilterFacts ==
    ASSUME NEW F \in FilterLists
    PROVE  /\ F \in Seq(GateSteps) /\ Len(F) \in Nat
           /\ \A i \in 1..Len(F) : F[i] \in (Limits \ {"RegisterLimit"}) \cup {"AdminAuth", "ShareAuth"}
           /\ \A i, j \in 1..Len(F) : F[i] = F[j] => i = j
           /\ F = <<"ShareAuth", "ShareLimit">> => Len(F) = 2 /\ F[1] = "ShareAuth" /\ F[2] = "ShareLimit"
<1> USE DEF GateSteps, Limits
<1>1. CASE F = <<>>
  BY <1>1
<1>2. CASE F = <<"UploadLimit">>
  BY <1>2
<1>3. CASE F = <<"DownloadLimit">>
  BY <1>3
<1>4. CASE F = <<"FolderLimit">>
  BY <1>4
<1>5. CASE F = <<"ApiLimit">>
  BY <1>5
<1>6. CASE F = <<"AdminAuth", "AdminLimit">>
  BY <1>6
<1>7. CASE F = <<"ShareAccessLimit">>
  BY <1>7
<1>8. CASE F = <<"ShareAuth", "ShareLimit">>
  BY <1>8
<1> QED
  BY <1>1, <1>2, <1>3, <1>4, <1>5, <1>6, <1>7, <1>8, Zenon DEF FilterLists

\* A handler ends with its call, and what it reads is known from its list.
LEMMA HandlerFacts ==
    ASSUME NEW H \in HandlerLists
    PROVE  /\ H \in Seq(GateSteps) /\ Len(H) \in Nat /\ Len(H) >= 1
           /\ \A i \in 1..Len(H) : H[i] \in {"parse", "user", "share", "call", "access"}
           /\ \A i \in 1..Len(H) : H[i] \in {"call", "access"} <=> i = Len(H)
           /\ (\E i \in 1..Len(H) : H[i] = "user") => H \in UserHandlerLists
           /\ (\E i \in 1..Len(H) : H[i] = "share") => H \in ShareHandlerLists
           /\ (\E i \in 1..Len(H) : H[i] = "access") => H = <<"parse", "access">>
<1> USE DEF GateSteps, UserHandlerLists, ShareHandlerLists
<1>1. CASE H = <<"parse", "user", "call">>
  BY <1>1
<1>2. CASE H = <<"user", "parse", "call">>
  BY <1>2
<1>3. CASE H = <<"user", "call">>
  BY <1>3
<1>4. CASE H = <<"parse", "call">>
  BY <1>4
<1>5. CASE H = <<"call">>
  BY <1>5
<1>6. CASE H = <<"parse", "access">>
  BY <1>6
<1>7. CASE H = <<"parse", "share", "call">>
  BY <1>7
<1>8. CASE H = <<"parse", "user", "share", "call">>
  BY <1>8
<1> QED
  BY <1>1, <1>2, <1>3, <1>4, <1>5, <1>6, <1>7, <1>8, Zenon DEF HandlerLists

\* The program of every route is sound when it starts.
LEMMA ProgramsSound ==
    ASSUME NEW route \in Routes
    PROVE  ProgramSound(route, Program(route), {})
<1> DEFINE F == RouteFilters[route]
           H == Handlers[route]
           G == GlobalFilters \o F
<1>1. F \in FilterLists /\ (route \in ShareRoutes => F = <<"ShareAuth", "ShareLimit">>)
  BY FiltersKnown, RouteAssumption DEF FiltersSound
<1>2. /\ H \in HandlerLists /\ (H \in UserHandlerLists => ~IsPublicPath(route))
      /\ H \in ShareHandlerLists => route \in ShareRoutes
      /\ H = <<"parse", "access">> => route = "share_access"
  BY HandlersKnown, RouteAssumption DEF HandlersSound
<1>3. /\ F \in Seq(GateSteps) /\ Len(F) \in Nat
      /\ \A i \in 1..Len(F) : F[i] \in (Limits \ {"RegisterLimit"}) \cup {"AdminAuth", "ShareAuth"}
      /\ \A i, j \in 1..Len(F) : F[i] = F[j] => i = j
      /\ route \in ShareRoutes => Len(F) = 2 /\ F[1] = "ShareAuth" /\ F[2] = "ShareLimit"
  <2> HIDE DEF F
  <2> QED
    BY <1>1, FilterFacts
<1>6. /\ H \in Seq(GateSteps) /\ Len(H) \in Nat /\ Len(H) >= 1
      /\ \A i \in 1..Len(H) : H[i] \in {"parse", "user", "share", "call", "access"}
      /\ \A i \in 1..Len(H) : H[i] \in {"call", "access"} <=> i = Len(H)
      /\ \A i \in 1..Len(H) : H[i] = "user" => ~IsPublicPath(route)
      /\ \A i \in 1..Len(H) : H[i] = "share" => route \in ShareRoutes
      /\ \A i \in 1..Len(H) : H[i] = "access" => route = "share_access"
  <2> HIDE DEF H
  <2> QED
    BY <1>2, HandlerFacts
<1>4. Program(route) = G \o H
  BY DEF Program
<1> HIDE DEF F, H
<1>5. /\ G \in Seq(GateSteps) /\ Len(G) = Len(F) + 2
      /\ G[1] = "Jwt" /\ G[2] = "RegisterLimit"
      /\ \A i \in 3..Len(G) : G[i] = F[i - 2] /\ i - 2 \in 1..Len(F)
  <2>1. /\ GlobalFilters \in Seq(GateSteps) /\ Len(GlobalFilters) = 2
        /\ GlobalFilters[1] = "Jwt" /\ GlobalFilters[2] = "RegisterLimit"
    BY DEF GlobalFilters, GateSteps, Limits
  <2>2. /\ G \in Seq(GateSteps) /\ Len(G) = 2 + Len(F)
        /\ \A i \in 1..2 : G[i] = GlobalFilters[i]
        /\ \A i \in 3..Len(G) : G[i] = F[i - 2] /\ i - 2 \in 1..Len(F)
    <3>1. /\ G \in Seq(GateSteps) /\ Len(G) = Len(GlobalFilters) + Len(F)
          /\ \A i \in 1..Len(GlobalFilters) : G[i] = GlobalFilters[i]
          /\ \A i \in (Len(GlobalFilters) + 1)..Len(G) :
                G[i] = F[i - Len(GlobalFilters)] /\ i - Len(GlobalFilters) \in 1..Len(F)
      <4>1. GlobalFilters \in Seq(GateSteps) /\ F \in Seq(GateSteps)
        BY <2>1, <1>3
      <4> QED
        BY <4>1
    <3> HIDE DEF G
    <3>2. Len(GlobalFilters) + 1 = 3
      BY <2>1
    <3> QED
      BY <3>1, <3>2, <2>1
  <2> HIDE DEF G
  <2> QED
    BY <2>1, <2>2, <1>3
<1> HIDE DEF G
<1>50. \A i \in 1..Len(G) : i = 1 \/ i = 2 \/ i \in 3..Len(G)
  BY <1>3, <1>5
<1>51. \A i \in 1..Len(G) : G[i] \in Limits \cup {"Jwt", "AdminAuth", "ShareAuth"}
  <2> SUFFICES ASSUME NEW i \in 1..Len(G)
               PROVE  G[i] \in Limits \cup {"Jwt", "AdminAuth", "ShareAuth"}
    OBVIOUS
  <2>1. CASE i = 1 \/ i = 2
    BY <2>1, <1>5 DEF Limits
  <2>2. CASE i \in 3..Len(G)
    BY <2>2, <1>5, <1>3, Zenon
  <2> QED
    BY <2>1, <2>2, <1>50
<1>54. \A i \in 3..Len(G) : G[i] # "Jwt" /\ G[i] # "RegisterLimit"
  <2> SUFFICES ASSUME NEW i \in 3..Len(G)
               PROVE  G[i] # "Jwt" /\ G[i] # "RegisterLimit"
    OBVIOUS
  <2>1. G[i] \in (Limits \ {"RegisterLimit"}) \cup {"AdminAuth", "ShareAuth"}
    BY <1>5, <1>3, Zenon
  <2> QED
    BY <2>1 DEF Limits
<1>52. \A i, j \in 1..Len(G) : G[i] = G[j] => i = j
  <2> SUFFICES ASSUME NEW i \in 1..Len(G), NEW j \in 1..Len(G), G[i] = G[j]
               PROVE  i = j
    OBVIOUS
  <2>1. CASE i \in 3..Len(G) /\ j \in 3..Len(G)
    <3>1. i - 2 = j - 2
      BY <2>1, <1>5, <1>3, Zenon
    <3> QED
      BY <3>1
  <2>2. CASE i = 1 \/ i = 2 \/ j = 1 \/ j = 2
    BY <2>2, <1>5, <1>54, <1>50
  <2> QED
    BY <2>1, <2>2, <1>50
<1>53. route \in ShareRoutes =>
          /\ Len(G) = 4 /\ G[3] = "ShareAuth"
          /\ \A i \in 1..Len(G) : G[i] \in Limits => G[i] \in {"RegisterLimit", "ShareLimit"}
  <2> SUFFICES ASSUME route \in ShareRoutes
               PROVE  /\ Len(G) = 4 /\ G[3] = "ShareAuth"
                      /\ \A i \in 1..Len(G) : G[i] \in Limits => G[i] \in {"RegisterLimit", "ShareLimit"}
    OBVIOUS
  <2>1. Len(F) = 2 /\ F[1] = "ShareAuth" /\ F[2] = "ShareLimit"
    BY <1>3
  <2>2. Len(G) = 4
    BY <2>1, <1>5
  <2>3. G[3] = F[3 - 2] /\ G[4] = F[4 - 2]
    BY <2>2, <1>5
  <2>4. G[3] = "ShareAuth" /\ G[4] = "ShareLimit"
    BY <2>1, <2>3
  <2> QED
    BY <2>2, <2>4, <1>5 DEF Limits
<1> DEFINE s == G \o H
<1>7. /\ s \in Seq(GateSteps) /\ Len(s) = Len(G) + Len(H) /\ Len(G) \in Nat
      /\ \A i \in 1..Len(G) : s[i] = G[i]
      /\ \A i \in (Len(G) + 1)..Len(s) : s[i] = H[i - Len(G)] /\ i - Len(G) \in 1..Len(H)
  <2>1. G \in Seq(GateSteps) /\ H \in Seq(GateSteps)
    BY <1>5, <1>6
  <2> QED
    BY <2>1
<1> HIDE DEF s
<1>8. \A i \in 1..Len(s) : i \in 1..Len(G) \/ i \in (Len(G) + 1)..Len(s)
  BY <1>6, <1>7
<1>81. \A i \in 1..Len(G) : s[i] \in Limits \cup {"Jwt", "AdminAuth", "ShareAuth"}
  BY <1>51, <1>7, Zenon
<1>82. \A i \in (Len(G) + 1)..Len(s) : s[i] \in {"parse", "user", "share", "call", "access"}
  BY <1>6, <1>7, Zenon
<1>83. \A i \in 1..Len(s) : s[i] \in {"parse", "user", "share", "call", "access"} => i \in (Len(G) + 1)..Len(s)
  BY <1>81, <1>8 DEF Limits
<1>84. \A i \in 1..Len(s) : s[i] \in Limits => i \in 1..Len(G)
  BY <1>82, <1>8 DEF Limits
<1>9. \A i \in 1..Len(s) : s[i] \in {"call", "access"} <=> i = Len(s)
  <2> SUFFICES ASSUME NEW i \in 1..Len(s)
               PROVE  s[i] \in {"call", "access"} <=> i = Len(s)
    OBVIOUS
  <2>1. CASE i \in 1..Len(G)
    <3>1. s[i] \notin {"call", "access"}
      BY <2>1, <1>81 DEF Limits
    <3>2. i # Len(s)
      BY <2>1, <1>7, <1>6
    <3> QED
      BY <3>1, <3>2
  <2>2. CASE i \in (Len(G) + 1)..Len(s)
    <3>1. s[i] = H[i - Len(G)] /\ i - Len(G) \in 1..Len(H)
      BY <2>2, <1>7
    <3>2. H[i - Len(G)] \in {"call", "access"} <=> i - Len(G) = Len(H)
      BY <3>1, <1>6, Zenon
    <3>3. i - Len(G) = Len(H) <=> i = Len(s)
      BY <1>7, <1>6
    <3> QED
      BY <3>1, <3>2, <3>3, Zenon
  <2> QED
    BY <2>1, <2>2, <1>8
<1>10. \A i \in 1..Len(s) : s[i] = "user" => ~IsPublicPath(route) /\ \E j \in 1..(i - 1) : s[j] = "Jwt"
  <2> SUFFICES ASSUME NEW i \in 1..Len(s), s[i] = "user"
               PROVE  ~IsPublicPath(route) /\ 1 \in 1..(i - 1) /\ s[1] = "Jwt"
    OBVIOUS
  <2>1. i \in (Len(G) + 1)..Len(s)
    BY <1>83
  <2>2. ~IsPublicPath(route)
    BY <2>1, <1>7, <1>6
  <2>3. 1 \in 1..Len(G) /\ 1 \in 1..(i - 1)
    BY <2>1, <1>5, <1>3, <1>7
  <2> QED
    BY <2>2, <2>3, <1>5, <1>7
<1>11. \A i \in 1..Len(s) : s[i] = "share" => \E j \in 1..(i - 1) : s[j] = "ShareAuth"
  <2> SUFFICES ASSUME NEW i \in 1..Len(s), s[i] = "share"
               PROVE  3 \in 1..(i - 1) /\ s[3] = "ShareAuth"
    OBVIOUS
  <2>1. i \in (Len(G) + 1)..Len(s)
    BY <1>83
  <2>2. route \in ShareRoutes
    BY <2>1, <1>7, <1>6
  <2>3. Len(G) = 4 /\ G[3] = "ShareAuth"
    BY <2>2, <1>53
  <2> QED
    BY <2>1, <2>3, <1>7
<1>12. \A i, j \in 1..Len(s) : s[i] = s[j] /\ s[i] \in Limits => i = j
  BY <1>52, <1>7, <1>84
<1>13. route = "share_browse" =>
          \A i \in 1..Len(s) : s[i] # "access" /\ (s[i] \in Limits => s[i] \in {"RegisterLimit", "ShareLimit"})
  <2> SUFFICES ASSUME route = "share_browse", NEW i \in 1..Len(s)
               PROVE  s[i] # "access" /\ (s[i] \in Limits => s[i] \in {"RegisterLimit", "ShareLimit"})
    OBVIOUS
  <2>1. s[i] # "access"
    BY <1>83, <1>7, <1>6
  <2>2. s[i] \in Limits => s[i] \in {"RegisterLimit", "ShareLimit"}
    BY <1>84, <1>7, <1>53 DEF ShareRoutes
  <2> QED
    BY <2>1, <2>2
<1>14. Len(s) > 0
  BY <1>6, <1>7
<1>15. Program(route) = s
  BY <1>4 DEF s
<1> QED
  BY <1>15, <1>14, <1>7, <1>9, <1>10, <1>11, <1>12, <1>13, ZenonT(30) DEF ProgramSound

-----------------------------------------------------------------------------
(* Steps.                                                                  *)

\* What is left after a step: the attributes the step was to set are set.
LEMMA TailSound ==
    ASSUME NEW route, NEW s, NEW attrs, NEW more, ProgramSound(route, s, attrs), attrs \subseteq more,
           s[1] \notin {"call", "access"},
           s[1] = "Jwt" /\ ~IsPublicPath(route) => "user" \in more,
           s[1] = "ShareAuth" => "share" \in more
    PROVE  /\ ProgramSound(route, Tail(s), more)
           /\ Len(Tail(s)) = Len(s) - 1
           /\ \A i \in 1..Len(Tail(s)) : i + 1 \in 1..Len(s) /\ Tail(s)[i] = s[i + 1]
<1> DEFINE t == Tail(s)
<1>1. s \in Seq(GateSteps) /\ Len(s) > 0 /\ Len(s) \in Nat
  BY DEF ProgramSound
<1>2. 1 \in 1..Len(s) /\ Len(s) # 1
  BY <1>1 DEF ProgramSound
<1>3. /\ t \in Seq(GateSteps) /\ Len(t) = Len(s) - 1
      /\ \A i \in 1..Len(t) : i + 1 \in 1..Len(s) /\ t[i] = s[i + 1]
  BY <1>1, <1>2
<1> HIDE DEF t
<1>4. Len(t) > 0
  BY <1>1, <1>2, <1>3
<1>5. \A i \in 1..Len(t) : t[i] \in {"call", "access"} <=> i = Len(t)
  <2> SUFFICES ASSUME NEW i \in 1..Len(t)
               PROVE  t[i] \in {"call", "access"} <=> i = Len(t)
    OBVIOUS
  <2>1. s[i + 1] \in {"call", "access"} <=> i + 1 = Len(s)
    BY <1>3 DEF ProgramSound
  <2>2. i + 1 = Len(s) <=> i = Len(t)
    BY <1>1, <1>3
  <2> QED
    BY <2>1, <2>2, <1>3, Zenon
<1>6. \A i \in 1..Len(t) : t[i] = "user" =>
          "user" \in more \/ (~IsPublicPath(route) /\ \E j \in 1..(i - 1) : t[j] = "Jwt")
  <2> SUFFICES ASSUME NEW i \in 1..Len(t), t[i] = "user", "user" \notin more
               PROVE  ~IsPublicPath(route) /\ \E j \in 1..(i - 1) : t[j] = "Jwt"
    OBVIOUS
  <2>1. ~IsPublicPath(route) /\ \E j \in 1..i : s[j] = "Jwt"
    <3>1. s[i + 1] = "user" /\ i + 1 \in 1..Len(s) /\ (i + 1) - 1 = i
      BY <1>1, <1>3
    <3> QED
      BY <3>1 DEF ProgramSound
  <2>2. PICK j \in 1..i : s[j] = "Jwt"
    BY <2>1
  <2>3. j # 1
    BY <2>1, <2>2
  <2>4. j - 1 \in 1..(i - 1) /\ j - 1 \in 1..Len(t) /\ (j - 1) + 1 = j
    BY <2>3, <1>1, <1>3
  <2>5. t[j - 1] = "Jwt"
    BY <2>4, <2>2, <1>3
  <2> QED
    BY <2>1, <2>4, <2>5
<1>7. \A i \in 1..Len(t) : t[i] = "share" => "share" \in more \/ \E j \in 1..(i - 1) : t[j] = "ShareAuth"
  <2> SUFFICES ASSUME NEW i \in 1..Len(t), t[i] = "share", "share" \notin more
               PROVE  \E j \in 1..(i - 1) : t[j] = "ShareAuth"
    OBVIOUS
  <2>1. \E j \in 1..i : s[j] = "ShareAuth"
    <3>1. s[i + 1] = "share" /\ i + 1 \in 1..Len(s) /\ (i + 1) - 1 = i
      BY <1>1, <1>3
    <3> QED
      BY <3>1 DEF ProgramSound
  <2>2. PICK j \in 1..i : s[j] = "ShareAuth"
    BY <2>1
  <2>3. j # 1
    BY <2>1, <2>2
  <2>4. j - 1 \in 1..(i - 1) /\ j - 1 \in 1..Len(t) /\ (j - 1) + 1 = j
    BY <2>3, <1>1, <1>3
  <2>5. t[j - 1] = "ShareAuth"
    BY <2>4, <2>2, <1>3
  <2> QED
    BY <2>4, <2>5
<1>8. \A i, j \in 1..Len(t) : t[i] = t[j] /\ t[i] \in Limits => i = j
  <2> SUFFICES ASSUME NEW i \in 1..Len(t), NEW j \in 1..Len(t), t[i] = t[j], t[i] \in Limits
               PROVE  i = j
    OBVIOUS
  <2>1. i + 1 = j + 1
    BY <1>3 DEF ProgramSound
  <2> QED
    BY <2>1
<1>9. route = "share_browse" =>
          \A i \in 1..Len(t) : t[i] # "access" /\ (t[i] \in Limits => t[i] \in {"RegisterLimit", "ShareLimit"})
  BY <1>3 DEF ProgramSound
<1>10. ProgramSound(route, t, more)
  BY <1>3, <1>4, <1>5, <1>6, <1>7, <1>8, <1>9, Zenon DEF ProgramSound
<1> QED
  BY <1>10, <1>3 DEF t

\* A request that goes on is the same request with less ahead of it.
Advances(r, q) ==
    /\ RequestSound(q)
    /\ q.route = greq[r].route /\ q.sender = greq[r].sender /\ q.scope = greq[r].scope
    /\ \A i \in 1..Len(q.rest) : \E j \in 1..Len(greq[r].rest) : q.rest[i] = greq[r].rest[j]

\* Whom a request's refusal under a key is blamed on.
Traffic(r, k) ==
    {s \in Sent \ {r} : /\ k[2] \in {greq[s].sender, greq[s].scope, "address"}
                        /\ greq[s].route = "share_browse" <=> greq[r].route = "share_browse"}

LEMMA GateFinite ==
    ASSUME DOMAIN greq = GateRequests
    PROVE  /\ IsFiniteSet(Sent)
           /\ \A k : IsFiniteSet(Past(k)) /\ IsFiniteSet(InWindow(k))
           /\ \A r, k : IsFiniteSet(Traffic(r, k))
<1>1. IsFiniteSet(Sent)
  BY FS_Subset, GateAssumption DEF Sent
<1>2. \A k : Past(k) \subseteq Sent /\ InWindow(k) \subseteq Sent
  BY DEF Past, InWindow
<1>3. \A r, k : Traffic(r, k) \subseteq Sent
  BY DEF Traffic
<1> QED
  BY <1>1, <1>2, <1>3, FS_Subset

\* A step of one request leaves the others what they are.
LEMMA RequestAdvances ==
    ASSUME RequestsSound, NEW r \in Sent, NEW q, Advances(r, q), greq' = [greq EXCEPT ![r] = q], second' = second
    PROVE  /\ Sent' = Sent /\ greq'[r] = q /\ \A s \in GateRequests \ {r} : greq'[s] = greq[s]
           /\ RequestsSound'
           /\ \A k : Past(k) \subseteq Past(k)'
           /\ \A k : \A s \in Sent : Traffic(s, k)' = Traffic(s, k)
<1>1. DOMAIN greq = GateRequests /\ r \in GateRequests
  BY DEF RequestsSound, Sent
<1>2. /\ DOMAIN greq' = GateRequests /\ greq'[r] = q
      /\ \A s \in GateRequests \ {r} : greq'[s] = greq[s]
  BY <1>1
<1>3. q.pc # "unsent" /\ greq[r].pc # "unsent"
  BY DEF Advances, RequestSound, GateRows, Sent
<1>4. Sent' = Sent
  <2>1. \A s \in GateRequests : greq'[s].pc # "unsent" <=> greq[s].pc # "unsent"
    BY <1>2, <1>3
  <2> QED
    BY <2>1 DEF Sent
<1>5. \A x : RequestSound(x)' <=> RequestSound(x)
  BY DEF RequestSound
<1>6. RequestsSound'
  <2>1. \A s \in Sent : RequestSound(greq'[s])
    <3> TAKE s \in Sent
    <3>1. CASE s = r
      BY <3>1, <1>2 DEF Advances
    <3>2. CASE s # r
      BY <3>2, <1>2 DEF RequestsSound, Sent
    <3> QED
      BY <3>1, <3>2
  <2> QED
    BY <2>1, <1>2, <1>4, <1>5 DEF RequestsSound, RequestSound
<1>7. \A s \in Sent : /\ greq'[s].route = greq[s].route /\ greq'[s].sender = greq[s].sender
                      /\ greq'[s].scope = greq[s].scope
                      /\ \A i \in 1..Len(greq'[s].rest) :
                            \E j \in 1..Len(greq[s].rest) : greq'[s].rest[i] = greq[s].rest[j]
  <2> TAKE s \in Sent
  <2>1. CASE s = r
    BY <2>1, <1>2 DEF Advances
  <2>2. CASE s # r
    BY <2>2, <1>2 DEF Sent
  <2> QED
    BY <2>1, <2>2
<1>8. \A k : Past(k) \subseteq Past(k)'
  <2> SUFFICES ASSUME NEW k, NEW s \in Past(k)
               PROVE  s \in Past(k)'
    OBVIOUS
  <2>1. s \in Sent /\ OwnKey(greq[s], k)
        /\ \A i \in 1..Len(greq[s].rest) : <<k[1], greq[s].rest[i]>> \notin CountedBy
    BY DEF Past
  <2>2. OwnKey(greq[s], k)'
    BY <2>1, <1>7 DEF OwnKey
  <2>3. \A i \in 1..Len(greq'[s].rest) : <<k[1], greq'[s].rest[i]>> \notin CountedBy
    BY <2>1, <1>7
  <2> QED
    BY <2>1, <2>2, <2>3, <1>4 DEF Past
<1>9. \A k : \A s \in Sent : Traffic(s, k)' = Traffic(s, k)
  BY <1>7, <1>4 DEF Traffic
<1> QED
  BY <1>2, <1>4, <1>6, <1>8, <1>9

\* A subset of what has passed stays within the limit.
LEMMA CardinalityGrows ==
    ASSUME NEW S, NEW T, IsFiniteSet(T), S \subseteq T
    PROVE  IsFiniteSet(S) /\ Cardinality(S) \in Nat /\ Cardinality(T) \in Nat /\ Cardinality(S) <= Cardinality(T)
BY FS_Subset, FS_CardinalityType

\* A step that does not count.
LEMMA QuietStep ==
    ASSUME GateInv, NEW r \in Sent, NEW q, Advances(r, q), greq' = [greq EXCEPT ![r] = q],
           q.passed \subseteq greq[r].passed, q.blocked \subseteq greq[r].blocked,
           UNCHANGED <<second, counter>>
    PROVE  GateInv'
<1>1. /\ Sent' = Sent /\ greq'[r] = q /\ \A s \in GateRequests \ {r} : greq'[s] = greq[s]
      /\ RequestsSound'
      /\ \A k : Past(k) \subseteq Past(k)'
      /\ \A k : \A s \in Sent : Traffic(s, k)' = Traffic(s, k)
  BY RequestAdvances DEF GateInv
<1>2. DOMAIN greq = GateRequests /\ DOMAIN greq' = GateRequests
  BY <1>1 DEF GateInv, RequestsSound
<1>3. /\ \A k : IsFiniteSet(Past(k)) /\ IsFiniteSet(InWindow(k))
      /\ \A k : IsFiniteSet(Past(k)')
  <2>1. \A k : IsFiniteSet(Past(k)) /\ IsFiniteSet(InWindow(k))
    BY <1>2, GateFinite
  <2>2. IsFiniteSet(Sent')
    BY <1>1, <1>2, GateFinite
  <2>3. \A k : Past(k)' \subseteq Sent'
    BY DEF Past
  <2> QED
    BY <2>1, <2>2, <2>3, FS_Subset
<1>4. CountersSound'
  <2>1. \A k : Cardinality(Past(k)) \in Nat /\ Cardinality(Past(k)') \in Nat
               /\ Cardinality(Past(k)) <= Cardinality(Past(k)')
    BY <1>1, <1>3, CardinalityGrows
  <2>2. \A k \in DOMAIN counter : counter[k].count \in Nat /\ counter[k].count <= Cardinality(Past(k)')
    BY <2>1 DEF GateInv, CountersSound
  <2> QED
    BY <2>2 DEF GateInv, CountersSound
<1>5. WindowsSound'
  <2>1. \A k : InWindow(k)' \subseteq InWindow(k)
    <3> SUFFICES ASSUME NEW k, NEW s \in InWindow(k)'
                 PROVE  s \in InWindow(k)
      OBVIOUS
    <3>1. s \in Sent /\ \E x \in greq'[s].passed : x.key = k /\ OnTime(x)
      BY <1>1 DEF InWindow, OnTime
    <3>2. \E x \in greq[s].passed : x.key = k /\ OnTime(x)
      <4>1. CASE s = r
        BY <4>1, <3>1, <1>1
      <4>2. CASE s # r
        BY <4>2, <3>1, <1>1 DEF Sent
      <4> QED
        BY <4>1, <4>2
    <3> QED
      BY <3>1, <3>2 DEF InWindow
  <2>2. \A k : Cardinality(InWindow(k)') \in Nat /\ Cardinality(InWindow(k)) \in Nat
               /\ Cardinality(InWindow(k)') <= Cardinality(InWindow(k))
    BY <2>1, <1>3, CardinalityGrows
  <2> SUFFICES ASSUME NEW k \in GateKeys
               PROVE  /\ Cardinality(InWindow(k)') <= Limit
                      /\ InWindow(k)' # {} /\ second < k[3] + Window =>
                            k \in DOMAIN counter /\ Cardinality(InWindow(k)') <= counter[k].count
    BY DEF WindowsSound
  <2>3. Cardinality(InWindow(k)) <= Limit
        /\ (InWindow(k) # {} /\ second < k[3] + Window =>
              k \in DOMAIN counter /\ Cardinality(InWindow(k)) <= counter[k].count)
    BY DEF GateInv, WindowsSound
  <2>4. k \in DOMAIN counter => counter[k].count \in Nat
    BY DEF GateInv, CountersSound
  <2> QED
    BY <2>1, <2>2, <2>3, <2>4, GateAssumption
<1>6. RefusedForOwnTraffic'
  <2> SUFFICES ASSUME NEW s \in Sent, NEW k \in greq'[s].blocked
               PROVE  Cardinality(Traffic(s, k)') >= Limit
    BY <1>1 DEF RefusedForOwnTraffic, Traffic
  <2>1. k \in greq[s].blocked
    <3>1. CASE s = r
      BY <3>1, <1>1
    <3>2. CASE s # r
      BY <3>2, <1>1 DEF Sent
    <3> QED
      BY <3>1, <3>2
  <2>2. Cardinality(Traffic(s, k)) >= Limit
    BY <2>1 DEF GateInv, RefusedForOwnTraffic, Traffic
  <2> QED
    BY <2>2, <1>1
<1> QED
  BY <1>1, <1>4, <1>5, <1>6 DEF GateInv

\* A window holds the second it is computed from.
LEMMA WindowHolds ==
    ASSUME NEW t \in Nat, NEW w \in Nat \ {0}
    PROVE  (t \div w) * w \in Nat /\ (t \div w) * w <= t /\ t < (t \div w) * w + w
<1>1. (t \div w) * w <= t /\ t \div w \in Nat
  OBVIOUS
<1>2. t < (t \div w) * w + w
  OBVIOUS
<1> DEFINE n == t \div w
<1>3. n \in Nat => n * w \in Nat
  <2> HIDE DEF n
  <2> QED
    OBVIOUS
<1> QED
  BY <1>1, <1>2, <1>3

\* A step that counts under a key the request has not counted under before.
LEMMA CountingStep ==
    ASSUME GateInv, NEW r \in Sent, NEW q, Advances(r, q), greq' = [greq EXCEPT ![r] = q],
           NEW k \in GateKeys, k[3] <= second, IncrWithExpire(k), second' = second,
           OwnKey(q, k), r \notin Past(k),
           \A i \in 1..Len(q.rest) : <<k[1], q.rest[i]>> \notin CountedBy,
           \A x \in q.passed : \/ x \in greq[r].passed
                               \/ x = [key |-> k, at |-> second] /\ ~OverLimit(IncrCount(k)),
           \A b \in q.blocked : b \in greq[r].blocked \/ (b = k /\ OverLimit(IncrCount(k)))
    PROVE  GateInv'
<1>1. /\ Sent' = Sent /\ greq'[r] = q /\ \A s \in GateRequests \ {r} : greq'[s] = greq[s]
      /\ RequestsSound'
      /\ \A x : Past(x) \subseteq Past(x)'
      /\ \A x : \A s \in Sent : Traffic(s, x)' = Traffic(s, x)
  BY RequestAdvances DEF GateInv
<1>2. DOMAIN greq = GateRequests /\ DOMAIN greq' = GateRequests
  BY <1>1 DEF GateInv, RequestsSound
<1>3. /\ \A x : IsFiniteSet(Past(x)) /\ IsFiniteSet(InWindow(x))
      /\ \A x : IsFiniteSet(Past(x)')
  <2>1. \A x : IsFiniteSet(Past(x)) /\ IsFiniteSet(InWindow(x))
    BY <1>2, GateFinite
  <2>2. IsFiniteSet(Sent')
    BY <1>1, <1>2, GateFinite
  <2>3. \A x : Past(x)' \subseteq Sent'
    BY DEF Past
  <2> QED
    BY <2>1, <2>2, <2>3, FS_Subset
<1>4. \A x : Cardinality(Past(x)) \in Nat /\ Cardinality(Past(x)') \in Nat
             /\ Cardinality(Past(x)) <= Cardinality(Past(x)')
  BY <1>1, <1>3, CardinalityGrows
<1>5. Cardinality(Past(k)') >= Cardinality(Past(k)) + 1
  <2>1. r \in Past(k)'
    BY <1>1 DEF Past, OwnKey
  <2>2. Past(k) \cup {r} \subseteq Past(k)'
    BY <2>1, <1>1
  <2>3. IsFiniteSet(Past(k) \cup {r}) /\ Cardinality(Past(k) \cup {r}) = Cardinality(Past(k)) + 1
    BY <1>3, FS_AddElement
  <2>4. Cardinality(Past(k) \cup {r}) <= Cardinality(Past(k)')
    BY <2>2, <1>3, CardinalityGrows
  <2> QED
    BY <2>3, <2>4
<1>6. /\ second \in Nat /\ Window \in Nat /\ Window > 0 /\ k[3] \in Nat /\ Limit \in Nat
      /\ \A x \in GateKeys : x[3] \in Nat
  BY GateAssumption DEF GateInv, GateKeys
<1>7. \A x \in DOMAIN counter :
        /\ x \in GateKeys /\ counter[x].count \in Nat /\ counter[x].count >= 1 /\ counter[x].exp \in Nat
        /\ counter[x].count <= Cardinality(Past(x)) /\ counter[x].exp >= x[3] + Window
  BY DEF GateInv, CountersSound
<1>8. /\ DOMAIN counter' = DOMAIN counter \cup {k}
      /\ counter'[k].count = IncrCount(k) /\ counter'[k].exp = IncrExpire(k)
      /\ \A x \in DOMAIN counter \ {k} : counter'[x] = counter[x]
  BY DEF IncrWithExpire
<1>9. /\ IncrCount(k) \in Nat /\ IncrCount(k) >= 1 /\ IncrCount(k) <= Cardinality(Past(k)) + 1
      /\ IncrExpire(k) \in Nat /\ IncrExpire(k) >= k[3] + Window
  <2>1. CASE k \in DOMAIN counter /\ counter[k].exp > second
    <3>1. IncrCount(k) = counter[k].count + 1
      BY <2>1 DEF IncrCount
    <3>2. IncrExpire(k) = counter[k].exp
      BY <3>1, <2>1, <1>7 DEF IncrExpire
    <3> QED
      BY <3>1, <3>2, <2>1, <1>7, <1>4
  <2>2. CASE ~(k \in DOMAIN counter /\ counter[k].exp > second)
    <3>1. IncrCount(k) = 1
      BY <2>2 DEF IncrCount
    <3>2. IncrExpire(k) = second + Window
      BY <3>1 DEF IncrExpire
    <3> QED
      BY <3>1, <3>2, <1>6, <1>4
  <2> QED
    BY <2>1, <2>2
<1>10. CountersSound'
  <2> SUFFICES ASSUME NEW x \in DOMAIN counter'
               PROVE  /\ x \in GateKeys
                      /\ counter'[x].count \in Nat \ {0} /\ counter'[x].exp \in Nat
                      /\ counter'[x].count <= Cardinality(Past(x)') /\ counter'[x].exp >= x[3] + Window
    BY DEF CountersSound
  <2>1. CASE x = k
    BY <2>1, <1>4, <1>5, <1>8, <1>9
  <2>2. CASE x # k
    BY <2>2, <1>4, <1>7, <1>8
  <2> QED
    BY <2>1, <2>2
<1>11. \A s \in Sent : \A x \in greq'[s].passed :
          x \in greq[s].passed \/ (s = r /\ x = [key |-> k, at |-> second] /\ ~OverLimit(IncrCount(k)))
  <2> TAKE s \in Sent
  <2>1. CASE s = r
    BY <2>1, <1>1
  <2>2. CASE s # r
    BY <2>2, <1>1 DEF Sent
  <2> QED
    BY <2>1, <2>2
<1>12. \A y : InWindow(y)' \subseteq InWindow(y) \/
          /\ y = k /\ ~OverLimit(IncrCount(k)) /\ second < k[3] + Window
          /\ InWindow(y)' \subseteq InWindow(y) \cup {r}
  <2> TAKE y
  <2> SUFFICES ASSUME NEW z \in InWindow(y)', z \notin InWindow(y)
               PROVE  /\ y = k /\ ~OverLimit(IncrCount(k)) /\ second < k[3] + Window
                      /\ InWindow(y)' \subseteq InWindow(y) \cup {r}
    OBVIOUS
  <2>1. \A s \in InWindow(y)' : s \notin InWindow(y) =>
            s = r /\ y = k /\ ~OverLimit(IncrCount(k)) /\ second < k[3] + Window
    <3> SUFFICES ASSUME NEW s \in InWindow(y)', s \notin InWindow(y)
                 PROVE  s = r /\ y = k /\ ~OverLimit(IncrCount(k)) /\ second < k[3] + Window
      OBVIOUS
    <3>1. PICK x \in greq'[s].passed : x.key = y /\ OnTime(x) /\ s \in Sent
      BY <1>1 DEF InWindow, OnTime
    <3>2. x \notin greq[s].passed
      BY <3>1 DEF InWindow
    <3>3. s = r /\ x = [key |-> k, at |-> second] /\ ~OverLimit(IncrCount(k))
      BY <3>1, <3>2, <1>11
    <3>4. y = k /\ k[3] = (second \div Window) * Window
      BY <3>1, <3>3 DEF OnTime
    <3>5. second < k[3] + Window
      <4>1. second < (second \div Window) * Window + Window
        <5>1. second \in Nat /\ Window \in Nat \ {0}
          BY <1>6, GateAssumption
        <5> QED
          BY <5>1, WindowHolds, Zenon
      <4> QED
        BY <4>1, <3>4
    <3> QED
      BY <3>3, <3>4, <3>5
  <2> QED
    BY <2>1
<1>13. WindowsSound'
  <2> SUFFICES ASSUME NEW y \in GateKeys
               PROVE  /\ Cardinality(InWindow(y)') <= Limit
                      /\ InWindow(y)' # {} /\ second < y[3] + Window =>
                            y \in DOMAIN counter' /\ Cardinality(InWindow(y)') <= counter'[y].count
    BY DEF WindowsSound
  <2>1. Cardinality(InWindow(y)) <= Limit
        /\ (InWindow(y) # {} /\ second < y[3] + Window =>
              y \in DOMAIN counter /\ Cardinality(InWindow(y)) <= counter[y].count)
    BY DEF GateInv, WindowsSound
  <2>2. y = k /\ InWindow(k) # {} /\ second < k[3] + Window =>
            IncrCount(k) = counter[k].count + 1 /\ Cardinality(InWindow(k)) <= counter[k].count
            /\ counter[k].count \in Nat
    BY <2>1, <1>6, <1>7 DEF IncrCount
  <2>3. CASE InWindow(y)' \subseteq InWindow(y)
    <3>1. Cardinality(InWindow(y)') \in Nat /\ Cardinality(InWindow(y)) \in Nat
          /\ Cardinality(InWindow(y)') <= Cardinality(InWindow(y))
      BY <2>3, <1>3, CardinalityGrows
    <3>2. CASE y = k
      BY <3>1, <3>2, <2>1, <2>2, <2>3, <1>6, <1>7, <1>8
    <3>3. CASE y # k
      BY <3>1, <3>3, <2>1, <2>3, <1>6, <1>7, <1>8
    <3> QED
      BY <3>2, <3>3
  <2>4. CASE /\ y = k /\ ~OverLimit(IncrCount(k)) /\ second < k[3] + Window
             /\ InWindow(y)' \subseteq InWindow(y) \cup {r}
    <3>1. IncrCount(k) <= Limit
      BY <2>4, <1>6, <1>9 DEF OverLimit
    <3>2. IsFiniteSet(InWindow(k) \cup {r}) /\ Cardinality(InWindow(k) \cup {r}) <= Cardinality(InWindow(k)) + 1
          /\ Cardinality(InWindow(k)) \in Nat
      <4>1. IsFiniteSet(InWindow(k))
        BY <1>3
      <4>2. Cardinality(InWindow(k)) \in Nat
        BY <4>1, FS_CardinalityType
      <4> QED
        <5>1. /\ IsFiniteSet(InWindow(k) \cup {r})
              /\ Cardinality(InWindow(k) \cup {r}) =
                    IF r \in InWindow(k) THEN Cardinality(InWindow(k)) ELSE Cardinality(InWindow(k)) + 1
          BY <4>1, FS_AddElement, Zenon
        <5> QED
          BY <5>1, <4>2
    <3>3. Cardinality(InWindow(k)') \in Nat /\ Cardinality(InWindow(k) \cup {r}) \in Nat
          /\ Cardinality(InWindow(k)') <= Cardinality(InWindow(k) \cup {r})
      BY <3>2, <2>4, CardinalityGrows
    <3>4. Cardinality(InWindow(k)) + 1 <= IncrCount(k)
      <4>1. CASE InWindow(k) = {}
        BY <4>1, <1>9, FS_EmptySet
      <4>2. CASE InWindow(k) # {}
        BY <4>2, <2>2, <2>4, <3>2
      <4> QED
        BY <4>1, <4>2
    <3>5. Cardinality(InWindow(k)') <= IncrCount(k)
      BY <3>2, <3>3, <3>4, <1>9
    <3>6. Cardinality(InWindow(k)') <= Limit
      BY <3>1, <3>3, <3>5, <1>6, <1>9
    <3> QED
      BY <3>5, <3>6, <2>4, <1>8
  <2> QED
    BY <2>3, <2>4, <1>12
<1>14. RefusedForOwnTraffic'
  <2> SUFFICES ASSUME NEW s \in Sent, NEW b \in greq'[s].blocked
               PROVE  Cardinality(Traffic(s, b)') >= Limit
    BY <1>1 DEF RefusedForOwnTraffic, Traffic
  <2>1. CASE b \in greq[s].blocked
    <3>1. Cardinality(Traffic(s, b)) >= Limit
      BY <2>1 DEF GateInv, RefusedForOwnTraffic, Traffic
    <3> QED
      BY <3>1, <1>1
  <2>2. CASE b \notin greq[s].blocked
    <3>1. s = r /\ b = k /\ OverLimit(IncrCount(k))
      BY <2>2, <1>1 DEF Sent
    <3>2. Past(k) \subseteq Traffic(r, k)
      <4>1. OwnKey(greq[r], k)
        BY DEF OwnKey, Advances
      <4> QED
        BY <4>1 DEF Past, Traffic, OwnKey
    <3>3. IsFiniteSet(Traffic(r, k))
      BY <1>2, GateFinite
    <3>4. Cardinality(Traffic(r, k)) \in Nat /\ Cardinality(Past(k)) <= Cardinality(Traffic(r, k))
      BY <3>2, <3>3, CardinalityGrows
    <3>5. Limit <= Cardinality(Past(k))
      BY <3>1, <1>4, <1>6, <1>9 DEF OverLimit
    <3> QED
      BY <3>1, <3>4, <3>5, <1>1, <1>4, <1>6
  <2> QED
    BY <2>1, <2>2
<1> QED
  BY <1>1, <1>10, <1>13, <1>14 DEF GateInv

\* A request at one of its steps.
LEMMA AtStep ==
    ASSUME GateInv, NEW r \in GateRequests, Head_(r) \in GateSteps
    PROVE  /\ r \in Sent /\ greq[r].pc = "running" /\ RequestSound(greq[r])
           /\ greq[r] \in GateRows /\ ProgramSound(greq[r].route, greq[r].rest, greq[r].attrs)
           /\ greq[r].rest[1] = Head_(r) /\ Head(greq[r].rest) = Head_(r)
           /\ 1 \in 1..Len(greq[r].rest)
           /\ Head_(r) \notin Limits => greq[r].key = <<>>
           /\ DOMAIN greq = GateRequests
<1>1. greq[r].pc = "running" /\ Head_(r) = Head(greq[r].rest)
  BY DEF Head_, GateSteps, Limits
<1>2. r \in Sent /\ RequestSound(greq[r]) /\ DOMAIN greq = GateRequests
  BY <1>1 DEF Sent, GateInv, RequestsSound
<1>3. ProgramSound(greq[r].route, greq[r].rest, greq[r].attrs) /\ greq[r] \in GateRows
  BY <1>1, <1>2 DEF RequestSound
<1>4. greq[r].rest \in Seq(GateSteps) /\ Len(greq[r].rest) > 0
  BY <1>3 DEF ProgramSound
<1>5. greq[r].rest[1] = Head_(r) /\ 1 \in 1..Len(greq[r].rest)
  BY <1>1, <1>4
<1>6. Head_(r) \notin Limits => greq[r].key = <<>>
  BY <1>1, <1>2 DEF RequestSound
<1> QED
  BY <1>1, <1>2, <1>3, <1>5, <1>6

\* A request that takes a step of its program, and is not at the last.
LEMMA LeavesSound ==
    ASSUME GateInv, NEW r \in GateRequests, Head_(r) \in GateSteps \ {"call", "access"},
           NEW q \in GateRows, q.pc = "running", q.route = greq[r].route, q.sender = greq[r].sender,
           q.scope = greq[r].scope, q.rest = Tail(greq[r].rest), q.key = <<>>,
           greq[r].attrs \subseteq q.attrs,
           Head_(r) = "Jwt" /\ ~IsPublicPath(greq[r].route) => "user" \in q.attrs,
           Head_(r) = "ShareAuth" => "share" \in q.attrs,
           \A k \in q.blocked : OwnKey(q, k)
    PROVE  Advances(r, q) /\ \A i \in 1..Len(q.rest) : i + 1 \in 1..Len(greq[r].rest) /\ q.rest[i] = greq[r].rest[i + 1]
<1>1. /\ r \in Sent /\ RequestSound(greq[r]) /\ ProgramSound(greq[r].route, greq[r].rest, greq[r].attrs)
      /\ greq[r].rest[1] = Head_(r)
  BY AtStep
<1>2. /\ ProgramSound(q.route, q.rest, q.attrs)
      /\ \A i \in 1..Len(q.rest) : i + 1 \in 1..Len(greq[r].rest) /\ q.rest[i] = greq[r].rest[i + 1]
  BY <1>1, TailSound
<1>3. RequestSound(q)
  BY <1>2 DEF RequestSound
<1> QED
  BY <1>2, <1>3 DEF Advances

\* A request that is answered.
LEMMA AnsweredSound ==
    ASSUME GateInv, NEW r \in GateRequests, Head_(r) \in GateSteps,
           NEW q \in GateRows, q.pc \in {"refused", "served"}, q.route = greq[r].route,
           q.sender = greq[r].sender, q.scope = greq[r].scope, q.rest = <<>>, q.key = <<>>,
           \A k \in q.blocked : OwnKey(q, k)
    PROVE  Advances(r, q) /\ Len(q.rest) = 0
<1>1. RequestSound(q)
  BY DEF RequestSound
<1>2. Len(q.rest) = 0
  OBVIOUS
<1> QED
  BY <1>1, <1>2 DEF Advances

\* Leaves, with attributes that only grow.
LEMMA LeavingQuiet ==
    ASSUME GateInv, NEW r \in GateRequests, Head_(r) \in GateSteps \ {"call", "access"},
           greq[r].key = <<>>,
           NEW more \in SUBSET {"user", "share"}, greq[r].attrs \subseteq more,
           Head_(r) = "Jwt" /\ ~IsPublicPath(greq[r].route) => "user" \in more,
           Head_(r) = "ShareAuth" => "share" \in more,
           NEW q, q = [greq[r] EXCEPT !.attrs = more, !.rest = Tail(@)],
           greq' = [greq EXCEPT ![r] = q], UNCHANGED <<second, counter>>
    PROVE  GateInv'
<1>1. /\ r \in Sent /\ RequestSound(greq[r]) /\ ProgramSound(greq[r].route, greq[r].rest, greq[r].attrs)
      /\ greq[r].rest[1] = Head_(r) /\ greq[r] \in GateRows /\ greq[r].pc = "running"
  BY AtStep
<1>2. Tail(greq[r].rest) \in Seq(GateSteps)
  BY <1>1 DEF ProgramSound
<1>3. /\ q \in GateRows /\ q.pc = "running" /\ q.route = greq[r].route /\ q.sender = greq[r].sender
      /\ q.scope = greq[r].scope /\ q.rest = Tail(greq[r].rest) /\ q.key = <<>> /\ q.attrs = more
      /\ q.passed = greq[r].passed /\ q.blocked = greq[r].blocked
  BY <1>1, <1>2 DEF GateRows
<1>4. \A k \in q.blocked : OwnKey(q, k)
  BY <1>1, <1>3 DEF RequestSound, OwnKey
<1>5. Advances(r, q)
  BY <1>3, <1>4, LeavesSound
<1> QED
  BY <1>1, <1>3, <1>5, QuietStep

\* Answers, without a count.
LEMMA AnswerRow ==
    ASSUME GateInv, NEW r \in GateRequests, Head_(r) \in GateSteps, Head_(r) \notin Limits,
           NEW end \in {"refused", "served"}, Answers(r, end)
    PROVE  LET q == [greq[r] EXCEPT !.pc = end, !.rest = <<>>, !.attrs = {}]
           IN  /\ greq' = [greq EXCEPT ![r] = q] /\ Advances(r, q) /\ Len(q.rest) = 0
               /\ q.passed = greq[r].passed /\ q.blocked = greq[r].blocked
               /\ q.route = greq[r].route
<1> DEFINE q == [greq[r] EXCEPT !.pc = end, !.rest = <<>>, !.attrs = {}]
<1>1. /\ r \in Sent /\ RequestSound(greq[r]) /\ greq[r] \in GateRows /\ greq[r].key = <<>>
      /\ DOMAIN greq = GateRequests
  BY AtStep
<1>2. greq' = [greq EXCEPT ![r] = q]
  BY <1>1 DEF Answers
<1>3. /\ q \in GateRows /\ q.pc = end /\ q.route = greq[r].route /\ q.sender = greq[r].sender
      /\ q.scope = greq[r].scope /\ q.rest = <<>> /\ q.key = <<>>
      /\ q.passed = greq[r].passed /\ q.blocked = greq[r].blocked
  <2>1. <<>> \in Seq(GateSteps) /\ end \in {"running", "refused", "served"} /\ {} \in SUBSET {"user", "share"}
    OBVIOUS
  <2>2. q \in GateRows
    BY <2>1, <1>1 DEF GateRows
  <2> QED
    BY <2>2, <1>1 DEF GateRows
<1>4. \A k \in q.blocked : OwnKey(q, k)
  BY <1>1, <1>3 DEF RequestSound, OwnKey
<1> HIDE DEF q
<1>5. Advances(r, q) /\ Len(q.rest) = 0
  BY <1>3, <1>4, AnsweredSound
<1> QED
  BY <1>2, <1>3, <1>5 DEF q

LEMMA AnswersQuiet ==
    ASSUME GateInv, NEW r \in GateRequests, Head_(r) \in GateSteps, Head_(r) \notin Limits,
           NEW end \in {"refused", "served"}, Answers(r, end), UNCHANGED <<second, counter>>
    PROVE  GateInv'
<1> DEFINE q == [greq[r] EXCEPT !.pc = end, !.rest = <<>>, !.attrs = {}]
<1>1. /\ greq' = [greq EXCEPT ![r] = q] /\ Advances(r, q)
      /\ q.passed = greq[r].passed /\ q.blocked = greq[r].blocked
  BY AnswerRow
<1>2. r \in Sent
  BY AtStep
<1> HIDE DEF q
<1> QED
  BY <1>1, <1>2, QuietStep

\* Leaves alone.
LEMMA LeavesQuiet ==
    ASSUME GateInv, NEW r \in GateRequests, Head_(r) \in GateSteps \ {"call", "access", "ShareAuth"},
           greq[r].key = <<>>, Head_(r) = "Jwt" => IsPublicPath(greq[r].route),
           Leaves(r), UNCHANGED <<second, counter>>
    PROVE  GateInv'
<1>1. greq[r] \in GateRows
  BY AtStep
<1> DEFINE q == [greq[r] EXCEPT !.attrs = greq[r].attrs, !.rest = Tail(@)]
<1>2. q = [greq[r] EXCEPT !.rest = Tail(@)] /\ greq[r].attrs \in SUBSET {"user", "share"}
  BY <1>1 DEF GateRows
<1>3. greq' = [greq EXCEPT ![r] = q]
  BY <1>2 DEF Leaves, Passes_
<1> QED
  BY <1>2, <1>3, LeavingQuiet

LEMMA StepNames ==
    /\ {"Jwt", "AdminAuth", "ShareAuth", "parse", "user", "share", "call", "access"} \subseteq GateSteps
    /\ Limits \subseteq GateSteps
    /\ {"Jwt", "AdminAuth", "ShareAuth", "parse", "user", "share", "call", "access", "none"} \cap Limits = {}
BY DEF GateSteps, Limits

\* The filters that identify the sender.
LEMMA IdentityFilters ==
    ASSUME GateInv, NEW r \in GateRequests, JwtFilter(r) \/ AdminAuthFilter(r) \/ ShareTokenFilter(r)
    PROVE  GateInv'
<1>1. CASE JwtFilter(r)
  <2>1. /\ Head_(r) = "Jwt" /\ Head_(r) \in GateSteps \ {"call", "access", "ShareAuth"} /\ Head_(r) \notin Limits
        /\ UNCHANGED <<second, counter>>
    BY <1>1, StepNames DEF JwtFilter
  <2>2. greq[r].key = <<>> /\ greq[r] \in GateRows
    BY <2>1, AtStep
  <2>3. CASE IsPublicPath(greq[r].route) /\ Leaves(r)
    BY <2>1, <2>2, <2>3, LeavesQuiet
  <2>4. CASE ~IsPublicPath(greq[r].route) /\ Answers(r, "refused")
    BY <2>1, <2>4, AnswersQuiet
  <2>5. CASE Passes_(r, [greq[r] EXCEPT !.attrs = @ \cup {"user"}])
    <3> DEFINE more == greq[r].attrs \cup {"user"}
               q == [greq[r] EXCEPT !.attrs = more, !.rest = Tail(@)]
    <3>1. more \in SUBSET {"user", "share"}
      BY <2>2 DEF GateRows
    <3>2. [[greq[r] EXCEPT !.attrs = @ \cup {"user"}] EXCEPT !.rest = Tail(@)] = q
      BY <2>2 DEF GateRows
    <3>3. greq' = [greq EXCEPT ![r] = q]
      BY <2>5, <3>2 DEF Passes_
    <3> QED
      BY <2>1, <2>2, <3>1, <3>3, LeavingQuiet
  <2> QED
    BY <1>1, <2>3, <2>4, <2>5 DEF JwtFilter
<1>2. CASE AdminAuthFilter(r)
  <2>1. /\ Head_(r) = "AdminAuth" /\ Head_(r) \in GateSteps \ {"call", "access", "ShareAuth"} /\ Head_(r) \notin Limits
        /\ UNCHANGED <<second, counter>> /\ (Leaves(r) \/ Answers(r, "refused"))
    BY <1>2, StepNames DEF AdminAuthFilter
  <2>2. greq[r].key = <<>>
    BY <2>1, AtStep
  <2> QED
    BY <2>1, <2>2, LeavesQuiet, AnswersQuiet
<1>3. CASE ShareTokenFilter(r)
  <2>1. /\ Head_(r) = "ShareAuth" /\ Head_(r) \in GateSteps \ {"call", "access"} /\ Head_(r) \notin Limits
        /\ UNCHANGED <<second, counter>>
    BY <1>3, StepNames DEF ShareTokenFilter
  <2>2. greq[r].key = <<>> /\ greq[r] \in GateRows
    BY <2>1, AtStep
  <2>4. CASE Answers(r, "refused")
    BY <2>1, <2>4, AnswersQuiet
  <2>5. CASE Passes_(r, [greq[r] EXCEPT !.attrs = @ \cup {"share"}])
    <3> DEFINE more == greq[r].attrs \cup {"share"}
               q == [greq[r] EXCEPT !.attrs = more, !.rest = Tail(@)]
    <3>1. more \in SUBSET {"user", "share"}
      BY <2>2 DEF GateRows
    <3>2. [[greq[r] EXCEPT !.attrs = @ \cup {"share"}] EXCEPT !.rest = Tail(@)] = q
      BY <2>2 DEF GateRows
    <3>3. greq' = [greq EXCEPT ![r] = q]
      BY <2>5, <3>2 DEF Passes_
    <3> QED
      BY <2>1, <2>2, <3>1, <3>3, LeavingQuiet
  <2> QED
    BY <1>3, <2>4, <2>5 DEF ShareTokenFilter
<1> QED
  BY <1>1, <1>2, <1>3

\* The steps of a handler that do not count.
LEMMA HandlerSteps ==
    ASSUME GateInv, NEW r \in GateRequests,
           Parse(r) \/ ReadAttribute(r) \/ ShareMismatch(r) \/ Serve(r)
    PROVE  GateInv'
<1>1. CASE Parse(r)
  <2>1. /\ Head_(r) = "parse" /\ Head_(r) \in GateSteps \ {"call", "access", "ShareAuth"} /\ Head_(r) \notin Limits
        /\ UNCHANGED <<second, counter>> /\ (Leaves(r) \/ Answers(r, "refused"))
    BY <1>1, StepNames DEF Parse
  <2>2. greq[r].key = <<>>
    BY <2>1, AtStep
  <2> QED
    BY <2>1, <2>2, LeavesQuiet, AnswersQuiet
<1>2. CASE ReadAttribute(r)
  <2>1. /\ Head_(r) \in {"user", "share"} /\ Head_(r) \in GateSteps \ {"call", "access", "ShareAuth"}
        /\ Head_(r) \notin Limits /\ UNCHANGED <<second, counter>>
    BY <1>2, StepNames DEF ReadAttribute
  <2>2. /\ greq[r].key = <<>> /\ greq[r] \in GateRows /\ 1 \in 1..Len(greq[r].rest)
        /\ ProgramSound(greq[r].route, greq[r].rest, greq[r].attrs) /\ greq[r].rest[1] = Head_(r)
    BY <2>1, AtStep
  <2>3. Head_(r) \in greq[r].attrs
    BY <2>1, <2>2 DEF ProgramSound
  <2>4. [greq[r] EXCEPT !.missing = IF Head_(r) \in greq[r].attrs THEN @ ELSE @ \cup {Head_(r)}] = greq[r]
    BY <2>2, <2>3 DEF GateRows
  <2>5. Leaves(r)
    BY <1>2, <2>4 DEF ReadAttribute, Leaves
  <2> QED
    BY <2>1, <2>2, <2>5, LeavesQuiet
<1>3. CASE ShareMismatch(r)
  BY <1>3, StepNames, AnswersQuiet DEF ShareMismatch
<1>4. CASE Serve(r)
  BY <1>4, StepNames, AnswersQuiet DEF Serve
<1> QED
  BY <1>1, <1>2, <1>3, <1>4

\* A filter's key is the request's own, and of the window the clock is in.
LEMMA LimitKeySound ==
    ASSUME GateInv, NEW r \in GateRequests, Head_(r) \in Limits, NEW k \in LimitKey(r)
    PROVE  /\ k \in GateKeys /\ k # <<>> /\ k[3] <= second /\ OwnKey(greq[r], k)
           /\ <<k[1], Head_(r)>> \in CountedBy
<1>1. /\ greq[r] \in GateRows /\ greq[r].rest[1] = Head_(r) /\ 1 \in 1..Len(greq[r].rest)
      /\ ProgramSound(greq[r].route, greq[r].rest, greq[r].attrs)
  BY StepNames, AtStep
<1>2. greq[r].route = "share_browse" => Head_(r) \in {"RegisterLimit", "ShareLimit"}
  BY <1>1 DEF ProgramSound
<1>3. GetFixedWindowStart \in Nat /\ GetFixedWindowStart <= second
  <2>1. second \in Nat /\ Window \in Nat \ {0}
    BY GateAssumption DEF GateInv
  <2> QED
    BY <2>1, WindowHolds, Zenon DEF GetFixedWindowStart
<1>4. greq[r].sender \in GateUsers \cup {Anonymous} /\ greq[r].scope \in Scopes
  BY <1>1 DEF GateRows
<1>5. \A family, subject :
        /\ family \in Families /\ subject \in {greq[r].sender, greq[r].scope, "address"}
        /\ <<family, Head_(r)>> \in CountedBy /\ (family = "browse" <=> greq[r].route = "share_browse")
        /\ k = <<family, subject, GetFixedWindowStart>>
        => /\ k \in GateKeys /\ k # <<>> /\ k[3] <= second /\ OwnKey(greq[r], k)
           /\ <<k[1], Head_(r)>> \in CountedBy
  BY <1>3, <1>4 DEF GateKeys, Subjects, OwnKey
<1> DEFINE Fits(family, subject) ==
        /\ family \in Families /\ subject \in {greq[r].sender, greq[r].scope, "address"}
        /\ <<family, Head_(r)>> \in CountedBy /\ (family = "browse" <=> greq[r].route = "share_browse")
        /\ k = <<family, subject, GetFixedWindowStart>>
<1> HIDE DEF GetFixedWindowStart
<1>6. CASE Head_(r) \in {"ApiLimit", "UploadLimit", "DownloadLimit", "FolderLimit", "AdminLimit"}
  <2>1. \E family \in {"api", "upload", "download", "folder", "admin"} :
            <<family, Head_(r)>> \in CountedBy /\ k = <<family, greq[r].sender, GetFixedWindowStart>>
    BY <1>6 DEF LimitKey, ApiLimitKey, UploadLimitKey, DownloadLimitKey, FolderLimitKey, AdminLimitKey,
                UserKey, CountedBy
  <2>2. PICK family \in {"api", "upload", "download", "folder", "admin"} :
            <<family, Head_(r)>> \in CountedBy /\ k = <<family, greq[r].sender, GetFixedWindowStart>>
    BY <2>1
  <2>3. Fits(family, greq[r].sender)
    BY <2>2, <1>2, <1>6 DEF Families
  <2> QED
    BY <2>3, <1>5
<1>7. CASE Head_(r) = "RegisterLimit"
  <2>1. greq[r].route = "register" /\ k = <<"register", "address", GetFixedWindowStart>>
    BY <1>7 DEF LimitKey, RegisterLimitKey
  <2>2. Fits("register", "address")
    BY <2>1, <1>7 DEF Families, CountedBy
  <2> QED
    BY <2>2, <1>5
<1>8. CASE Head_(r) = "ShareAccessLimit"
  <2>1. k = <<"access", "address", GetFixedWindowStart>>
    BY <1>8 DEF LimitKey, ShareAccessLimitKey
  <2>2. Fits("access", "address")
    BY <2>1, <1>2, <1>8 DEF Families, CountedBy
  <2> QED
    BY <2>2, <1>5
<1>9. CASE Head_(r) = "ShareLimit"
  <2>1. k = <<IF greq[r].route = "share_browse" THEN "browse" ELSE "share_download", greq[r].scope, GetFixedWindowStart>>
    BY <1>9 DEF LimitKey, ShareOperationLimitKey
  <2>2. Fits(IF greq[r].route = "share_browse" THEN "browse" ELSE "share_download", greq[r].scope)
    BY <2>1, <1>9 DEF Families, CountedBy
  <2> QED
    BY <2>2, <1>5
<1> QED
  BY <1>6, <1>7, <1>8, <1>9 DEF Limits

LEMMA LimitStartKeeps ==
    ASSUME GateInv, NEW r \in GateRequests, LimitStart(r)
    PROVE  GateInv'
<1>1. /\ Head_(r) \in Limits /\ Head_(r) \in GateSteps \ {"call", "access", "ShareAuth", "Jwt"}
      /\ greq[r].key = <<>> /\ UNCHANGED <<second, counter>>
  BY StepNames DEF LimitStart
<1>2. CASE Leaves(r)
  BY <1>1, <1>2, LeavesQuiet
<1>3. CASE \E k \in LimitKey(r) : greq' = [greq EXCEPT ![r].key = k]
  <2>1. PICK k \in LimitKey(r) : greq' = [greq EXCEPT ![r].key = k]
    BY <1>3
  <2>2. /\ k \in GateKeys /\ k # <<>> /\ k[3] <= second /\ OwnKey(greq[r], k)
        /\ <<k[1], Head_(r)>> \in CountedBy
    BY <1>1, LimitKeySound
  <2>3. /\ r \in Sent /\ RequestSound(greq[r]) /\ greq[r] \in GateRows /\ greq[r].pc = "running"
        /\ Head(greq[r].rest) = Head_(r) /\ ProgramSound(greq[r].route, greq[r].rest, greq[r].attrs)
    BY <1>1, AtStep
  <2> DEFINE q == [greq[r] EXCEPT !.key = k]
  <2>4. /\ q \in GateRows /\ q.pc = "running" /\ q.route = greq[r].route /\ q.sender = greq[r].sender
        /\ q.scope = greq[r].scope /\ q.rest = greq[r].rest /\ q.attrs = greq[r].attrs /\ q.key = k
        /\ q.passed = greq[r].passed /\ q.blocked = greq[r].blocked
    BY <2>2, <2>3 DEF GateRows
  <2>5. greq' = [greq EXCEPT ![r] = q]
    BY <2>1
  <2> HIDE DEF q
  <2>6. RequestSound(q)
    BY <2>2, <2>3, <2>4, <1>1 DEF RequestSound, OwnKey
  <2>7. Advances(r, q)
    BY <2>4, <2>6 DEF Advances
  <2> QED
    BY <2>3, <2>4, <2>5, <2>7, <1>1, QuietStep
<1> QED
  BY <1>2, <1>3 DEF LimitStart

\* A family is counted by one step only.
LEMMA CountedOnce ==
    ASSUME NEW f, NEW a, NEW b, <<f, a>> \in CountedBy, <<f, b>> \in CountedBy
    PROVE  a = b
BY DEF CountedBy

LEMMA LimitCountKeeps ==
    ASSUME GateInv, NEW r \in GateRequests, LimitCount(r)
    PROVE  GateInv'
<1> DEFINE k == greq[r].key
           n == [greq[r] EXCEPT !.key = <<>>]
<1>1. /\ Head_(r) \in Limits /\ Head_(r) \in GateSteps \ {"call", "access", "ShareAuth", "Jwt"}
      /\ k # <<>> /\ second' = second
  BY StepNames DEF LimitCount
<1>2. /\ r \in Sent /\ RequestSound(greq[r]) /\ greq[r] \in GateRows /\ greq[r].pc = "running"
      /\ greq[r].rest[1] = Head_(r) /\ ProgramSound(greq[r].route, greq[r].rest, greq[r].attrs)
      /\ Head(greq[r].rest) = Head_(r) /\ 1 \in 1..Len(greq[r].rest)
  BY <1>1, AtStep
<1>3. k \in GateKeys /\ k[3] <= second /\ OwnKey(greq[r], k) /\ <<k[1], Head_(r)>> \in CountedBy
  BY <1>1, <1>2 DEF RequestSound, GateRows
<1>4. r \notin Past(k)
  BY <1>2, <1>3 DEF Past
<1>5. Tail(greq[r].rest) \in Seq(GateSteps)
  BY <1>2 DEF ProgramSound
<1>6. ASSUME NEW q \in GateRows, q.pc = "running", q.route = greq[r].route, q.sender = greq[r].sender,
             q.scope = greq[r].scope, q.rest = Tail(greq[r].rest), q.key = <<>>, q.attrs = greq[r].attrs,
             q.blocked = greq[r].blocked
      PROVE  /\ Advances(r, q) /\ OwnKey(q, k)
             /\ \A i \in 1..Len(q.rest) : <<k[1], q.rest[i]>> \notin CountedBy
  <2>1. \A b \in q.blocked : OwnKey(q, b)
    BY <1>6, <1>2 DEF RequestSound, OwnKey
  <2>2. /\ Advances(r, q)
        /\ \A i \in 1..Len(q.rest) : i + 1 \in 1..Len(greq[r].rest) /\ q.rest[i] = greq[r].rest[i + 1]
    BY <1>6, <1>1, <2>1, LeavesSound
  <2>3. OwnKey(q, k)
    BY <1>6, <1>3 DEF OwnKey
  <2>4. ASSUME NEW i \in 1..Len(q.rest), <<k[1], q.rest[i]>> \in CountedBy
        PROVE  FALSE
    <3>1. greq[r].rest[i + 1] = greq[r].rest[1] /\ i + 1 \in 1..Len(greq[r].rest)
      BY <2>2, <2>4, <1>2, <1>3, CountedOnce
    <3>2. i + 1 = 1
      BY <3>1, <1>1, <1>2 DEF ProgramSound
    <3> QED
      BY <3>2
  <2> QED
    BY <2>2, <2>3, <2>4
<1>7. CASE IncrWithExpire(k) /\ ~OverLimit(IncrCount(k))
           /\ Passes_(r, [n EXCEPT !.passed = {[key |-> k, at |-> second]}])
  <2> DEFINE q == [[n EXCEPT !.passed = {[key |-> k, at |-> second]}] EXCEPT !.rest = Tail(@)]
  <2>1. second \in Nat
    BY GateAssumption DEF GateInv
  <2>2. /\ q \in GateRows /\ q.pc = "running" /\ q.route = greq[r].route /\ q.sender = greq[r].sender
        /\ q.scope = greq[r].scope /\ q.rest = Tail(greq[r].rest) /\ q.attrs = greq[r].attrs /\ q.key = <<>>
        /\ q.passed = {[key |-> k, at |-> second]} /\ q.blocked = greq[r].blocked
    <3>1. {[key |-> k, at |-> second]} \in SUBSET [key : GateKeys, at : Nat]
      BY <2>1, <1>3
    <3>2. q \in GateRows
      BY <3>1, <1>2, <1>5 DEF GateRows
    <3> QED
      BY <3>2, <1>2 DEF GateRows
  <2>3. greq' = [greq EXCEPT ![r] = q]
    BY <1>7 DEF Passes_
  <2> HIDE DEF q, n
  <2>4. /\ Advances(r, q) /\ OwnKey(q, k)
        /\ \A i \in 1..Len(q.rest) : <<k[1], q.rest[i]>> \notin CountedBy
    BY <2>2, <1>6
  <2> QED
    BY <2>2, <2>3, <2>4, <1>1, <1>2, <1>3, <1>4, <1>7, CountingStep
<1>8. CASE IncrWithExpire(k) /\ OverLimit(IncrCount(k))
           /\ greq' = [greq EXCEPT ![r] = [n EXCEPT !.pc = "refused", !.rest = <<>>, !.attrs = {}, !.blocked = {k}]]
  <2> DEFINE q == [n EXCEPT !.pc = "refused", !.rest = <<>>, !.attrs = {}, !.blocked = {k}]
  <2>1. <<>> \in Seq(GateSteps) /\ {} \in SUBSET {"user", "share"}
    OBVIOUS
  <2>2. q \in GateRows
    BY <2>1, <1>2, <1>3 DEF GateRows
  <2>3. /\ q.pc = "refused" /\ q.route = greq[r].route /\ q.sender = greq[r].sender
        /\ q.scope = greq[r].scope /\ q.rest = <<>> /\ q.key = <<>>
        /\ q.passed = greq[r].passed /\ q.blocked = {k}
    BY <2>2, <1>2 DEF GateRows
  <2>4. greq' = [greq EXCEPT ![r] = q]
    BY <1>8
  <2> HIDE DEF q, n
  <2>5. OwnKey(q, k)
    BY <2>3, <1>3 DEF OwnKey
  <2>6. Advances(r, q) /\ Len(q.rest) = 0
    BY <2>2, <2>3, <2>5, <1>1, AnsweredSound
  <2>7. /\ \A i \in 1..Len(q.rest) : <<k[1], q.rest[i]>> \notin CountedBy
        /\ \A x \in q.passed : x \in greq[r].passed
        /\ \A b \in q.blocked : b = k /\ OverLimit(IncrCount(k))
    BY <2>3, <2>6, <1>8
  <2> HIDE DEF k
  <2> QED
    BY <2>4, <2>5, <2>6, <2>7, <1>1, <1>2, <1>3, <1>4, <1>8, CountingStep
<1>9. CASE Passes_(r, n) /\ (UNCHANGED counter \/ IncrWithExpire(k))
  <2> DEFINE q == [n EXCEPT !.rest = Tail(@)]
  <2>1. /\ q \in GateRows /\ q.pc = "running" /\ q.route = greq[r].route /\ q.sender = greq[r].sender
        /\ q.scope = greq[r].scope /\ q.rest = Tail(greq[r].rest) /\ q.attrs = greq[r].attrs /\ q.key = <<>>
        /\ q.passed = greq[r].passed /\ q.blocked = greq[r].blocked
    BY <1>2, <1>5 DEF GateRows
  <2>2. greq' = [greq EXCEPT ![r] = q]
    BY <1>9 DEF Passes_
  <2> HIDE DEF q, n
  <2>3. /\ Advances(r, q) /\ OwnKey(q, k)
        /\ \A i \in 1..Len(q.rest) : <<k[1], q.rest[i]>> \notin CountedBy
    BY <2>1, <1>6
  <2>4. CASE UNCHANGED counter
    BY <2>1, <2>2, <2>3, <2>4, <1>1, <1>2, QuietStep
  <2>5. CASE IncrWithExpire(k)
    BY <2>1, <2>2, <2>3, <2>5, <1>1, <1>2, <1>3, <1>4, CountingStep
  <2> QED
    BY <1>9, <2>4, <2>5
<1> QED
  BY <1>7, <1>8, <1>9 DEF LimitCount

LEMMA ShareAccessKeeps ==
    ASSUME GateInv, NEW r \in GateRequests, ShareAccess(r)
    PROVE  GateInv'
<1>1. /\ Head_(r) = "access" /\ Head_(r) \in GateSteps /\ Head_(r) \notin Limits /\ second' = second
  BY StepNames DEF ShareAccess
<1>2. CASE UNCHANGED counter /\ (Answers(r, "served") \/ Answers(r, "refused"))
  BY <1>1, <1>2, AnswersQuiet
<1>3. CASE Answers(r, "refused") /\ IncrWithExpire(FailureKey)
  <2> DEFINE q == [greq[r] EXCEPT !.pc = "refused", !.rest = <<>>, !.attrs = {}]
  <2>1. /\ greq' = [greq EXCEPT ![r] = q] /\ Advances(r, q) /\ Len(q.rest) = 0
        /\ q.passed = greq[r].passed /\ q.blocked = greq[r].blocked /\ q.route = greq[r].route
    BY <1>1, <1>3, AnswerRow
  <2>2. /\ r \in Sent /\ greq[r].rest[1] = "access" /\ 1 \in 1..Len(greq[r].rest)
        /\ ProgramSound(greq[r].route, greq[r].rest, greq[r].attrs)
    BY <1>1, AtStep
  <2> HIDE DEF q
  <2>3. FailureKey \in GateKeys /\ FailureKey[3] <= second /\ FailureKey[1] = "password" /\ FailureKey[2] = "address"
    BY GateAssumption DEF GateInv, FailureKey, GateKeys, Families, Subjects
  <2>4. greq[r].route # "share_browse"
    BY <2>2 DEF ProgramSound
  <2>5. OwnKey(q, FailureKey)
    BY <2>1, <2>3, <2>4 DEF OwnKey
  <2>6. r \notin Past(FailureKey)
    BY <2>2, <2>3 DEF Past, CountedBy
  <2>7. /\ \A i \in 1..Len(q.rest) : <<FailureKey[1], q.rest[i]>> \notin CountedBy
        /\ \A x \in q.passed : x \in greq[r].passed
        /\ \A b \in q.blocked : b \in greq[r].blocked
    BY <2>1
  <2> QED
    BY <2>1, <2>2, <2>3, <2>5, <2>6, <2>7, <1>1, <1>3, CountingStep
<1> QED
  BY <1>2, <1>3 DEF ShareAccess

LEMMA ArriveKeeps ==
    ASSUME GateInv, NEW r \in GateRequests, NEW route \in Routes, NEW u \in GateUsers \cup {Anonymous},
           NEW scope \in Scopes, Arrive(r, route, u, scope)
    PROVE  GateInv'
<1> DEFINE q == [pc |-> "running", route |-> route, sender |-> u, scope |-> scope, rest |-> Program(route),
                 attrs |-> {}, missing |-> {}, key |-> <<>>, passed |-> {}, blocked |-> {}]
<1>1. /\ greq[r].pc = "unsent" /\ greq' = [greq EXCEPT ![r] = q] /\ UNCHANGED <<second, counter>>
      /\ DOMAIN greq = GateRequests
  BY DEF Arrive, GateInv, RequestsSound
<1>2. ProgramSound(route, Program(route), {})
  BY ProgramsSound
<1>3. RequestSound(q)
  <2>1. Program(route) \in Seq(GateSteps)
    BY <1>2 DEF ProgramSound
  <2>2. q \in GateRows
    BY <2>1 DEF GateRows
  <2> QED
    BY <1>2, <2>2 DEF RequestSound
<1>4. q.pc = "running" /\ q.passed = {} /\ q.blocked = {}
  OBVIOUS
<1> HIDE DEF q
<1>5. /\ DOMAIN greq' = GateRequests /\ greq'[r] = q /\ \A s \in Sent : greq'[s] = greq[s]
      /\ Sent' = Sent \cup {r} /\ r \notin Sent
  <2>1. DOMAIN greq' = GateRequests /\ greq'[r] = q /\ \A s \in GateRequests \ {r} : greq'[s] = greq[s]
    BY <1>1
  <2> QED
    BY <2>1, <1>1, <1>4 DEF Sent
<1>6. RequestsSound'
  <2>1. \A s \in Sent' : RequestSound(greq'[s])
    BY <1>3, <1>5 DEF GateInv, RequestsSound
  <2> QED
    BY <2>1, <1>1, <1>5 DEF RequestsSound, RequestSound
<1>7. IsFiniteSet(Sent) /\ IsFiniteSet(Sent')
  BY <1>1, <1>5, GateFinite, FS_AddElement
<1>8. CountersSound'
  <2>1. \A k : Past(k) \subseteq Past(k)'
    BY <1>5 DEF Past, OwnKey
  <2>2. \A k : Past(k)' \subseteq Sent'
    BY DEF Past
  <2>3. \A k : Cardinality(Past(k)) \in Nat /\ Cardinality(Past(k)') \in Nat
               /\ Cardinality(Past(k)) <= Cardinality(Past(k)')
    BY <2>1, <2>2, <1>7, CardinalityGrows, FS_Subset
  <2>4. \A k \in DOMAIN counter : counter[k].count \in Nat /\ counter[k].count <= Cardinality(Past(k)')
    BY <2>3 DEF GateInv, CountersSound
  <2> QED
    BY <2>4, <1>1 DEF GateInv, CountersSound
<1>9. WindowsSound'
  <2>1. \A k : InWindow(k)' = InWindow(k)
    BY <1>4, <1>5 DEF InWindow, OnTime
  <2> QED
    BY <2>1, <1>1 DEF GateInv, WindowsSound
<1>10. RefusedForOwnTraffic'
  <2> SUFFICES ASSUME NEW s \in Sent', NEW k \in greq'[s].blocked
               PROVE  Cardinality(Traffic(s, k)') >= Limit
    BY DEF RefusedForOwnTraffic, Traffic
  <2>1. s \in Sent /\ k \in greq[s].blocked
    BY <1>4, <1>5
  <2>2. Cardinality(Traffic(s, k)) >= Limit
    BY <2>1 DEF GateInv, RefusedForOwnTraffic, Traffic
  <2>3. Traffic(s, k) \subseteq Traffic(s, k)'
    BY <2>1, <1>5 DEF Traffic
  <2>4. IsFiniteSet(Traffic(s, k)')
    <3>1. Traffic(s, k)' \subseteq Sent'
      BY DEF Traffic
    <3> QED
      BY <3>1, <1>7, FS_Subset
  <2>5. Cardinality(Traffic(s, k)) \in Nat /\ Cardinality(Traffic(s, k)') \in Nat
        /\ Cardinality(Traffic(s, k)) <= Cardinality(Traffic(s, k)')
    BY <2>3, <2>4, CardinalityGrows
  <2> QED
    BY <2>2, <2>5, GateAssumption
<1> QED
  BY <1>1, <1>6, <1>8, <1>9, <1>10 DEF GateInv

LEMMA SecondPassesKeeps ==
    ASSUME GateInv, SecondPasses
    PROVE  GateInv'
<1>1. second' = second + 1 /\ second' \in 0..MaxSecond /\ second \in Nat /\ counter' = counter /\ greq' = greq
  BY GateAssumption DEF GateInv, SecondPasses
<1>2. Sent' = Sent /\ (\A k : Past(k)' = Past(k)) /\ (\A k : InWindow(k)' = InWindow(k))
  BY <1>1 DEF Sent, Past, OwnKey, InWindow, OnTime
<1>3. RequestsSound'
  <2> SUFFICES ASSUME NEW s \in Sent
               PROVE  RequestSound(greq[s])'
    BY <1>1, <1>2 DEF GateInv, RequestsSound
  <2>1. RequestSound(greq[s])
    BY DEF GateInv, RequestsSound
  <2>2. greq[s].key # <<>> => greq[s].key[3] \in Nat /\ greq[s].key[3] <= second
    BY <2>1 DEF RequestSound, GateRows, GateKeys
  <2>3. greq[s].key # <<>> => greq[s].key[3] <= second'
    BY <2>2, <1>1
  <2> QED
    BY <2>1, <2>3, <1>1 DEF RequestSound, OwnKey
<1>4. CountersSound'
  BY <1>1, <1>2 DEF GateInv, CountersSound
<1>5. WindowsSound'
  <2> SUFFICES ASSUME NEW k \in GateKeys
               PROVE  /\ Cardinality(InWindow(k)) <= Limit
                      /\ InWindow(k) # {} /\ second' < k[3] + Window =>
                            k \in DOMAIN counter /\ Cardinality(InWindow(k)) <= counter[k].count
    BY <1>1, <1>2 DEF WindowsSound
  <2>1. k[3] + Window \in Nat
    BY GateAssumption DEF GateKeys
  <2>2. second' < k[3] + Window => second < k[3] + Window
    BY <2>1, <1>1
  <2> QED
    BY <2>2 DEF GateInv, WindowsSound
<1>6. RefusedForOwnTraffic'
  BY <1>1, <1>2 DEF GateInv, RefusedForOwnTraffic
<1> QED
  BY <1>1, <1>3, <1>4, <1>5, <1>6 DEF GateInv

LEMMA GateInitially == GateInit => GateInv
<1> SUFFICES ASSUME GateInit
             PROVE  GateInv
  OBVIOUS
<1>1. Sent = {} /\ DOMAIN greq = GateRequests /\ second = 0 /\ DOMAIN counter = {}
  BY DEF GateInit, Sent
<1>2. RequestsSound /\ CountersSound /\ RefusedForOwnTraffic
  BY <1>1 DEF RequestsSound, CountersSound, RefusedForOwnTraffic
<1>3. \A k : InWindow(k) = {} /\ Cardinality(InWindow(k)) = 0
  BY <1>1, FS_EmptySet DEF InWindow
<1>4. WindowsSound
  BY <1>3, GateAssumption DEF WindowsSound
<1> QED
  BY <1>1, <1>2, <1>4, GateAssumption DEF GateInv

LEMMA GateStep == GateInv /\ [GateNext]_gateVars => GateInv'
<1> SUFFICES ASSUME GateInv, [GateNext]_gateVars
             PROVE  GateInv'
  OBVIOUS
<1>1. CASE SecondPasses
  BY <1>1, SecondPassesKeeps
<1>2. ASSUME NEW r \in GateRequests, NEW route \in Routes, NEW u \in GateUsers \cup {Anonymous},
             NEW s \in {"none", "view", "download"}, Arrive(r, route, u, s)
      PROVE  GateInv'
  BY <1>2, ArriveKeeps DEF Scopes
<1>3. ASSUME NEW r \in GateRequests, JwtFilter(r) \/ AdminAuthFilter(r) \/ ShareTokenFilter(r)
      PROVE  GateInv'
  BY <1>3, IdentityFilters
<1>4. ASSUME NEW r \in GateRequests, LimitStart(r) \/ LimitCount(r)
      PROVE  GateInv'
  BY <1>4, LimitStartKeeps, LimitCountKeeps
<1>5. ASSUME NEW r \in GateRequests, Parse(r) \/ ReadAttribute(r) \/ ShareMismatch(r) \/ Serve(r)
      PROVE  GateInv'
  BY <1>5, HandlerSteps
<1>6. ASSUME NEW r \in GateRequests, ShareAccess(r)
      PROVE  GateInv'
  BY <1>6, ShareAccessKeeps
<1>7. CASE UNCHANGED gateVars
  <2>1. second' = second /\ counter' = counter /\ greq' = greq
    BY <1>7 DEF gateVars
  <2>2. Sent' = Sent
    BY <2>1 DEF Sent
  <2>3. \A x : RequestSound(x)' <=> RequestSound(x)
    BY <2>1 DEF RequestSound
  <2>4. RequestsSound'
    BY <2>1, <2>2 DEF GateInv, RequestsSound, RequestSound
  <2>5. (\A k : Past(k)' = Past(k)) /\ (\A k : InWindow(k)' = InWindow(k))
    BY <2>1, <2>2 DEF Past, OwnKey, InWindow, OnTime
  <2>6. CountersSound' /\ WindowsSound' /\ RefusedForOwnTraffic'
    BY <2>1, <2>2, <2>5 DEF GateInv, CountersSound, WindowsSound, RefusedForOwnTraffic
  <2> QED
    BY <2>1, <2>4, <2>6 DEF GateInv
<1> QED
  BY <1>1, <1>2, <1>3, <1>4, <1>5, <1>6, <1>7, Zenon DEF GateNext

LEMMA GateInvSuffices == GateInv => GateSound
<1> SUFFICES ASSUME GateInv
             PROVE  GateSound
  OBVIOUS
<1>1. GateTypeOK
  <2>1. \A k \in DOMAIN counter : counter[k].count \in 1..Cardinality(GateRequests)
    <3> TAKE k \in DOMAIN counter
    <3>1. Past(k) \subseteq GateRequests
      BY DEF Past, Sent
    <3>2. Cardinality(Past(k)) \in Nat /\ Cardinality(GateRequests) \in Nat
          /\ Cardinality(Past(k)) <= Cardinality(GateRequests)
      BY <3>1, GateAssumption, CardinalityGrows
    <3> QED
      BY <3>2 DEF GateInv, CountersSound
  <2>2. \A r \in Sent : /\ greq[r].pc \in {"running", "refused", "served"}
                        /\ greq[r].pc = "running" => greq[r].rest # <<>>
    <3> TAKE r \in Sent
    <3>1. greq[r] \in GateRows /\ (greq[r].pc = "running" => ProgramSound(greq[r].route, greq[r].rest, greq[r].attrs))
      BY DEF GateInv, RequestsSound, RequestSound
    <3>2. greq[r].pc = "running" => Len(greq[r].rest) > 0
      BY <3>1 DEF ProgramSound
    <3>3. greq[r].pc \in {"running", "refused", "served"}
      BY <3>1 DEF GateRows
    <3> QED
      BY <3>2, <3>3
  <2> QED
    BY <2>1, <2>2 DEF GateTypeOK, GateInv
<1>2. IdentityEstablished
  BY DEF GateInv, RequestsSound, RequestSound, GateRows, IdentityEstablished
<1>3. LimitPerWindow
  <2> SUFFICES ASSUME NEW r \in Sent, NEW p \in greq[r].passed
               PROVE  Cardinality(InWindow(p.key)) <= Limit
    BY DEF LimitPerWindow, InWindow
  <2>1. p.key \in GateKeys
    BY DEF GateInv, RequestsSound, RequestSound, GateRows
  <2> QED
    BY <2>1 DEF GateInv, WindowsSound
<1> QED
  BY <1>1, <1>2, <1>3 DEF GateSound, GateInv

\* The gate, for any set of requests, users and routes, any limit and any
\* length of the windows: a handler works with no identity a filter of its
\* route has not established, no subject passes a limit more often than it
\* allows in one window, and nobody is refused for someone else's traffic
\* (the filter lists of the controllers, JwtAuthFilter, CheckFixedWindowLimit).
THEOREM GateSoundHolds == GateSpec => []GateSound
<1>1. GateSpec => []GateInv
  BY GateInitially, GateStep, PTL DEF GateSpec
<1> QED
  BY <1>1, GateInvSuffices, PTL

-----------------------------------------------------------------------------
(* The desktop client's sessions: the inductive invariant.                 *)

OwnerStates   == {"LoggedOut", "Authenticating", "Active", "Refreshing", "LogoutPending", "ReauthRequired"}
VisitorStates == {"Idle", "Unverified", "Verifying", "Active", "ReverifyRequired"}
AnyShare      == ShareIds \cup {NoShare}
AuthOps       == {"login", "refresh", "logout", "access"}
DeskRow ==
    [own : OwnerStates, role : {0, 1}, ownerToken : BOOLEAN, refreshToken : BOOLEAN,
     vis : VisitorStates, share : AnyShare, visitorToken : AnyShare, domain : {"", "owner", "visitor"},
     shell : {"login", "splash", "register", "owner", "admin", "visitor"},
     out : SUBSET [op : AuthOps, arg : AnyShare]]

\* The shell of a signed-in account is not left up without one.
ShellSound(w) == w.shell \in {"owner", "admin"} => w.own \in SignedIn \cup {"LogoutPending"}

\* Both tokens come and go together, and the role is out of a token.
TokensSound(w) ==
    /\ w.refreshToken = w.ownerToken
    /\ w.role # 0 => w.ownerToken
    /\ w.own \in {"LoggedOut", "ReauthRequired"} => ~w.ownerToken

DeskSound(w) == w \in DeskRow /\ ShellSound(w) /\ TokensSound(w)

\* What waits for the server has a request, under way or asked for by the cascade.
Asked(w, c, op) == (\E q \in c : q.op = op) \/ (\E q \in w.out : q.op = op)
AnswersComing(w, c) ==
    /\ w.own = "Authenticating" => Asked(w, c, "login")
    /\ w.own = "Refreshing" => Asked(w, c, "refresh")
    /\ w.own = "LogoutPending" => Asked(w, c, "logout")
    /\ w.vis \in {"Verifying", "ReverifyRequired"} => Asked(w, c, "access")

AuthCallsKnown(c) == \A q \in c : q.op \in AuthOps /\ q.arg \in AnyShare

SessionsSound ==
    /\ DeskSound(desk) /\ desk.out = {} /\ AuthCallsKnown(calls) /\ AnswersComing(desk, calls)

ManagersSound ==
    /\ made \in Nat /\ told \in [{"apiError", "done"} -> Nat] /\ IsFiniteSet(pending)
    /\ \A q \in pending : q.n \in Nat /\ q.n < made
    /\ OutcomePerCall

DeskInv == SessionsSound /\ ManagersSound

-----------------------------------------------------------------------------
(* What the cascades do to a desk.                                         *)

\* The account's side of two desks is the same, and so are the requests.
SameOwner(w, r) ==
    r.own = w.own /\ r.role = w.role /\ r.ownerToken = w.ownerToken /\ r.refreshToken = w.refreshToken
        /\ r.out = w.out

LEMMA HomeShellSound ==
    ASSUME NEW w \in DeskRow
    PROVE  /\ HomeShell(w) \in {"login", "owner", "admin"}
           /\ HomeShell(w) \in {"owner", "admin"} => w.own \in SignedIn
BY DEF HomeShell

\* A new shell changes nothing else.
LEMMA ShellSet ==
    ASSUME NEW w \in DeskRow, NEW s \in {"login", "splash", "register", "owner", "admin", "visitor"},
           NEW r, r = [w EXCEPT !.shell = s]
    PROVE  r \in DeskRow /\ SameOwner(w, r) /\ r.vis = w.vis /\ r.shell = s
BY DEF DeskRow, SameOwner

LEMMA OwnerSlot ==
    ASSUME NEW w \in DeskRow
    PROVE  LET r == onOwnerSessionStateChanged(w)
           IN /\ r \in DeskRow /\ SameOwner(w, r) /\ r.vis = w.vis
              /\ ShellSound(w) \/ w.own # "Authenticating" => ShellSound(r)
<1> DEFINE r == onOwnerSessionStateChanged(w)
<1>1. CASE w.own \in {"LoggedOut", "ReauthRequired"}
  <2>1. r = [w EXCEPT !.shell = "login"]
    BY <1>1 DEF onOwnerSessionStateChanged
  <2>2. r \in DeskRow /\ SameOwner(w, r) /\ r.vis = w.vis /\ r.shell = "login"
    <3> HIDE DEF r
    <3> QED
      BY <2>1, ShellSet
  <2>3. ShellSound(r)
    <3> HIDE DEF r
    <3> QED
      BY <2>2 DEF ShellSound
  <2> QED
    BY <2>2, <2>3
<1>2. CASE w.own = "Active" /\ w.shell \in {"login", "splash"}
  <2>1. r = [w EXCEPT !.shell = HomeShell(w)]
    BY <1>2 DEF onOwnerSessionStateChanged
  <2>2. r \in DeskRow /\ SameOwner(w, r) /\ r.vis = w.vis
    <3> HIDE DEF r
    <3> QED
      BY <2>1, ShellSet, HomeShellSound
  <2>3. ShellSound(r)
    <3> HIDE DEF r
    <3> QED
      BY <2>2, <1>2 DEF ShellSound, SignedIn, SameOwner
  <2> QED
    BY <2>2, <2>3
<1>3. CASE w.own \notin {"LoggedOut", "ReauthRequired"} /\ ~(w.own = "Active" /\ w.shell \in {"login", "splash"})
  <2>1. r = w
    BY <1>3 DEF onOwnerSessionStateChanged
  <2>2. w.own # "Authenticating" => w.own \in SignedIn \cup {"LogoutPending"}
    BY <1>3 DEF DeskRow, OwnerStates, SignedIn
  <2> QED
    BY <2>1, <2>2 DEF ShellSound, SameOwner
<1> QED
  BY <1>1, <1>2, <1>3

LEMMA VisitorSlot ==
    ASSUME NEW w \in DeskRow
    PROVE  LET r == onVisitorSessionStateChanged(w)
           IN r \in DeskRow /\ SameOwner(w, r) /\ r.vis = w.vis /\ (ShellSound(w) => ShellSound(r))
<1> DEFINE r == onVisitorSessionStateChanged(w)
<1>1. CASE w.vis # "Idle"
  BY <1>1 DEF onVisitorSessionStateChanged, SameOwner
<1>2. CASE w.vis = "Idle" /\ w.shell = "visitor"
  <2>1. r = [w EXCEPT !.shell = HomeShell(w)]
    BY <1>2 DEF onVisitorSessionStateChanged
  <2>2. r \in DeskRow /\ SameOwner(w, r) /\ r.vis = w.vis /\ r.shell = HomeShell(w)
    <3> HIDE DEF r
    <3> QED
      BY <2>1, ShellSet, HomeShellSound
  <2>3. ShellSound(r)
    <3> HIDE DEF r
    <3> QED
      BY <2>2, HomeShellSound DEF ShellSound, SameOwner
  <2> QED
    BY <2>2, <2>3
<1>3. CASE w.vis = "Idle" /\ w.shell # "visitor"
  <2>1. r = onOwnerSessionStateChanged(w)
    BY <1>3 DEF onVisitorSessionStateChanged
  <2> QED
    BY <2>1, OwnerSlot
<1> QED
  BY <1>1, <1>2, <1>3

LEMMA VisitorSet ==
    ASSUME NEW w \in DeskRow, NEW s \in VisitorStates
    PROVE  LET r == VisitorBecomes(w, s)
           IN r \in DeskRow /\ SameOwner(w, r) /\ r.vis = s /\ (ShellSound(w) => ShellSound(r))
<1> DEFINE m == [w EXCEPT !.vis = s]
<1>1. m \in DeskRow /\ SameOwner(w, m) /\ m.vis = s /\ m.shell = w.shell
  BY DEF DeskRow, SameOwner
<1>2. ShellSound(w) => ShellSound(m)
  BY <1>1 DEF ShellSound, SameOwner
<1>3. CASE w.vis = s
  BY <1>3 DEF VisitorBecomes, SameOwner
<1>4. CASE w.vis # s
  <2>1. VisitorBecomes(w, s) = onVisitorSessionStateChanged(m)
    BY <1>4 DEF VisitorBecomes
  <2> HIDE DEF m
  <2>2. LET r == onVisitorSessionStateChanged(m)
        IN r \in DeskRow /\ SameOwner(m, r) /\ r.vis = m.vis /\ (ShellSound(m) => ShellSound(r))
    BY <1>1, VisitorSlot
  <2> QED
    BY <2>1, <2>2, <1>1, <1>2 DEF SameOwner
<1> QED
  BY <1>3, <1>4

LEMMA ShareClosed ==
    ASSUME NEW w \in DeskRow
    PROVE  LET r == CloseShare(w)
           IN r \in DeskRow /\ SameOwner(w, r) /\ r.vis = "Idle" /\ (ShellSound(w) => ShellSound(r))
<1> DEFINE m == [w EXCEPT !.share = NoShare, !.visitorToken = NoShare]
<1>1. m \in DeskRow /\ SameOwner(w, m) /\ m.shell = w.shell
  BY DEF DeskRow, SameOwner, AnyShare
<1>2. ShellSound(w) => ShellSound(m)
  BY <1>1 DEF ShellSound, SameOwner
<1>3. CloseShare(w) = VisitorBecomes(m, "Idle")
  BY DEF CloseShare
<1> HIDE DEF m
<1>4. "Idle" \in VisitorStates
  BY DEF VisitorStates
<1>5. LET r == VisitorBecomes(m, "Idle")
      IN r \in DeskRow /\ SameOwner(m, r) /\ r.vis = "Idle" /\ (ShellSound(m) => ShellSound(r))
  BY <1>1, <1>4, VisitorSet
<1> QED
  BY <1>1, <1>2, <1>3, <1>5 DEF SameOwner

LEMMA OwnerActivated ==
    ASSUME NEW w \in DeskRow
    PROVE  LET r == ActivateOwner(w)
           IN r \in DeskRow /\ SameOwner(w, r) /\ r.vis \in {w.vis, "Idle"} /\ (ShellSound(w) => ShellSound(r))
<1> DEFINE m == IF w.domain = "visitor" THEN CloseShare(w) ELSE w
<1>1. m \in DeskRow /\ SameOwner(w, m) /\ m.vis \in {w.vis, "Idle"} /\ (ShellSound(w) => ShellSound(m))
  BY ShareClosed DEF SameOwner
<1>2. ActivateOwner(w) = [m EXCEPT !.domain = "owner"]
  BY DEF ActivateOwner
<1> HIDE DEF m
<1> DEFINE r == [m EXCEPT !.domain = "owner"]
<1>3. r \in DeskRow /\ SameOwner(m, r) /\ r.vis = m.vis /\ r.shell = m.shell
  BY <1>1 DEF DeskRow, SameOwner
<1> HIDE DEF r
<1> QED
  BY <1>1, <1>2, <1>3 DEF SameOwner, ShellSound, r

\* The owner's state: with it only the shell and the visitor's share may go.
LEMMA OwnerSet ==
    ASSUME NEW w \in DeskRow, NEW s \in OwnerStates, ShellSound(w),
           s = "Authenticating" => w.shell = "login"
    PROVE  LET r == OwnerBecomes(w, s)
           IN /\ r \in DeskRow /\ r.own = s /\ r.role = w.role /\ r.ownerToken = w.ownerToken
              /\ r.refreshToken = w.refreshToken /\ r.out = w.out /\ r.vis \in {w.vis, "Idle"}
              /\ ShellSound(r)
<1> DEFINE m == [w EXCEPT !.own = s]
           k == onOwnerSessionStateChanged(m)
<1>1. /\ m \in DeskRow /\ m.own = s /\ m.role = w.role /\ m.ownerToken = w.ownerToken
      /\ m.refreshToken = w.refreshToken /\ m.out = w.out /\ m.vis = w.vis /\ m.shell = w.shell
  BY DEF DeskRow
<1>2. ShellSound(m) \/ m.own # "Authenticating"
  BY <1>1 DEF ShellSound
<1>3. CASE w.own = s
  BY <1>3 DEF OwnerBecomes
<1>4. CASE w.own # s
  <2>1. OwnerBecomes(w, s) = IF s = "Active" THEN ActivateOwner(k) ELSE k
    BY <1>4 DEF OwnerBecomes
  <2> HIDE DEF m
  <2>2. k \in DeskRow /\ SameOwner(m, k) /\ k.vis = m.vis /\ ShellSound(k)
    BY <1>1, <1>2, OwnerSlot
  <2> HIDE DEF k
  <2>3. LET r == ActivateOwner(k)
        IN r \in DeskRow /\ SameOwner(k, r) /\ r.vis \in {k.vis, "Idle"} /\ (ShellSound(k) => ShellSound(r))
    BY <2>2, OwnerActivated
  <2>4. CASE s = "Active"
    BY <2>1, <2>2, <2>3, <2>4, <1>1 DEF SameOwner
  <2>5. CASE s # "Active"
    BY <2>1, <2>2, <2>5, <1>1 DEF SameOwner
  <2> QED
    BY <2>4, <2>5
<1> QED
  BY <1>3, <1>4

\* A logout: local without a token, else the server is told first.
LEMMA LoggedOutSound ==
    ASSUME NEW w \in DeskRow, ShellSound(w)
    PROVE  LET r == LoggedOut(w)
           IN /\ r \in DeskRow /\ r.own = "LoggedOut" /\ r.role = w.role /\ ~r.ownerToken /\ ~r.refreshToken
              /\ r.out = w.out /\ r.vis \in {w.vis, "Idle"} /\ ShellSound(r)
<1> DEFINE m == [w EXCEPT !.ownerToken = FALSE, !.refreshToken = FALSE]
<1>1. /\ m \in DeskRow /\ m.own = w.own /\ m.role = w.role /\ m.ownerToken = FALSE /\ m.refreshToken = FALSE
      /\ m.out = w.out /\ m.vis = w.vis /\ m.shell = w.shell
  BY DEF DeskRow
<1>2. ShellSound(m)
  BY <1>1 DEF ShellSound
<1>3. LoggedOut(w) = OwnerBecomes(m, "LoggedOut")
  BY DEF LoggedOut
<1> HIDE DEF m
<1>4. "LoggedOut" \in OwnerStates /\ "LoggedOut" # "Authenticating"
  BY DEF OwnerStates
<1> QED
  BY <1>1, <1>2, <1>3, <1>4, OwnerSet

LEMMA StartLogoutSound ==
    ASSUME NEW w \in DeskRow, ShellSound(w)
    PROVE  LET r == StartLogout(w)
           IN /\ r \in DeskRow /\ r.role = w.role /\ r.vis \in {w.vis, "Idle"} /\ ShellSound(r)
              /\ w.out \subseteq r.out
              /\ w.ownerToken => /\ r.own = "LogoutPending" /\ r.ownerToken = w.ownerToken
                                 /\ r.refreshToken = w.refreshToken /\ \E q \in r.out : q.op = "logout"
              /\ ~w.ownerToken => r.own = "LoggedOut" /\ ~r.ownerToken /\ ~r.refreshToken
<1> DEFINE p == OwnerBecomes(w, "LogoutPending")
           r == StartLogout(w)
<1>1. "LogoutPending" \in OwnerStates /\ "LogoutPending" # "Authenticating"
  BY DEF OwnerStates
<1>2. /\ p \in DeskRow /\ p.own = "LogoutPending" /\ p.role = w.role /\ p.ownerToken = w.ownerToken
      /\ p.refreshToken = w.refreshToken /\ p.out = w.out /\ p.vis \in {w.vis, "Idle"} /\ ShellSound(p)
  BY <1>1, OwnerSet
<1>3. r = IF p.ownerToken THEN Sends(p, "logout", NoShare) ELSE LoggedOut(p)
  BY DEF StartLogout
<1> HIDE DEF p, r
<1>4. CASE w.ownerToken
  <2> DEFINE o == [op |-> "logout", arg |-> NoShare]
  <2>1. r = [p EXCEPT !.out = @ \cup {o}]
    BY <1>2, <1>3, <1>4 DEF Sends
  <2>2. o \in [op : AuthOps, arg : AnyShare] /\ o.op = "logout"
    BY DEF AuthOps, AnyShare
  <2> HIDE DEF o
  <2>3. /\ r \in DeskRow /\ r.own = p.own /\ r.role = p.role /\ r.ownerToken = p.ownerToken
        /\ r.refreshToken = p.refreshToken /\ r.vis = p.vis /\ r.shell = p.shell /\ r.out = p.out \cup {o}
    BY <2>1, <2>2, <1>2 DEF DeskRow
  <2>4. ShellSound(r)
    BY <2>3, <1>2 DEF ShellSound
  <2> QED
    BY <2>2, <2>3, <2>4, <1>2, <1>4 DEF r
<1>5. CASE ~w.ownerToken
  <2>1. r = LoggedOut(p)
    BY <1>2, <1>3, <1>5
  <2>2. /\ r \in DeskRow /\ r.own = "LoggedOut" /\ r.role = p.role /\ ~r.ownerToken /\ ~r.refreshToken
        /\ r.out = p.out /\ r.vis \in {p.vis, "Idle"} /\ ShellSound(r)
    BY <2>1, <1>2, LoggedOutSound
  <2> QED
    BY <2>2, <1>2, <1>5 DEF r
<1> QED
  BY <1>4, <1>5

LEMMA RoleSet ==
    ASSUME NEW w \in DeskRow, ShellSound(w), NEW n \in {0, 1}
    PROVE  LET r == RoleBecomes(w, n)
           IN /\ r \in DeskRow /\ r.role = n /\ r.vis \in {w.vis, "Idle"} /\ ShellSound(r)
              /\ w.out \subseteq r.out
              /\ ~w.ownerToken /\ ~w.refreshToken => ~r.ownerToken /\ ~r.refreshToken
<1> DEFINE c == [w EXCEPT !.role = n]
           r == RoleBecomes(w, n)
<1>1. /\ c \in DeskRow /\ c.own = w.own /\ c.role = n /\ c.ownerToken = w.ownerToken
      /\ c.refreshToken = w.refreshToken /\ c.out = w.out /\ c.vis = w.vis /\ c.shell = w.shell
  BY DEF DeskRow
<1>2. ShellSound(c)
  BY <1>1 DEF ShellSound
<1>3. r = IF w.role = n THEN w ELSE IF c.shell = "admin" /\ n # 1 THEN StartLogout(c) ELSE c
  BY DEF RoleBecomes
<1> HIDE DEF c, r
<1>4. CASE r = w /\ w.role = n
  BY <1>4 DEF r
<1>5. CASE r = c
  BY <1>1, <1>2, <1>5 DEF r
<1>6. CASE r = StartLogout(c)
  <2>1. /\ r \in DeskRow /\ r.role = c.role /\ r.vis \in {c.vis, "Idle"} /\ ShellSound(r)
        /\ c.out \subseteq r.out
        /\ ~c.ownerToken => ~r.ownerToken /\ ~r.refreshToken
    BY <1>1, <1>2, <1>6, StartLogoutSound
  <2> QED
    BY <1>1, <2>1 DEF r
<1> QED
  BY <1>3, <1>4, <1>5, <1>6

LEMMA SessionCleared ==
    ASSUME NEW w \in DeskRow, ShellSound(w)
    PROVE  LET r == ClearSession(w)
           IN /\ r \in DeskRow /\ r.role = 0 /\ r.vis \in {w.vis, "Idle"} /\ ShellSound(r)
              /\ ~r.ownerToken /\ ~r.refreshToken
<1> DEFINE m == [w EXCEPT !.ownerToken = FALSE, !.refreshToken = FALSE]
<1>1. /\ m \in DeskRow /\ m.own = w.own /\ ~m.ownerToken /\ ~m.refreshToken /\ m.vis = w.vis /\ m.shell = w.shell
  BY DEF DeskRow
<1>2. ShellSound(m)
  BY <1>1 DEF ShellSound
<1>3. ClearSession(w) = RoleBecomes(m, 0)
  BY DEF ClearSession
<1> HIDE DEF m
<1> QED
  BY <1>1, <1>2, <1>3, RoleSet

\* A session that ends is left without tokens and role; one that begins has both.
LEMMA SessionEnds ==
    ASSUME NEW w \in DeskRow, ShellSound(w), NEW s \in {"LoggedOut", "ReauthRequired"}
    PROVE  LET r == OwnerBecomes(ClearSession(w), s)
           IN DeskSound(r) /\ r.own = s /\ r.vis \in {w.vis, "Idle"}
<1> DEFINE c == ClearSession(w)
           r == OwnerBecomes(c, s)
<1>1. /\ c \in DeskRow /\ c.role = 0 /\ c.vis \in {w.vis, "Idle"} /\ ShellSound(c)
      /\ ~c.ownerToken /\ ~c.refreshToken
  BY SessionCleared
<1>2. s \in OwnerStates /\ s # "Authenticating"
  BY DEF OwnerStates
<1> HIDE DEF c
<1>3. /\ r \in DeskRow /\ r.own = s /\ r.role = c.role /\ r.ownerToken = c.ownerToken
      /\ r.refreshToken = c.refreshToken /\ r.vis \in {c.vis, "Idle"} /\ ShellSound(r)
  BY <1>1, <1>2, OwnerSet
<1>4. r.ownerToken \in BOOLEAN /\ r.refreshToken \in BOOLEAN
  <2> HIDE DEF r
  <2> QED
    BY <1>3 DEF DeskRow
<1> HIDE DEF r
<1> QED
  BY <1>1, <1>3, <1>4 DEF DeskSound, TokensSound, r, c

LEMMA TokensArriveSound ==
    ASSUME NEW w \in DeskRow, ShellSound(w), NEW n \in {0, 1}
    PROVE  LET r == TokensArrive(w, n)
           IN DeskSound(r) /\ r.own = "Active" /\ r.vis \in {w.vis, "Idle"}
<1> DEFINE c == RoleBecomes(w, n)
           m == [c EXCEPT !.ownerToken = TRUE, !.refreshToken = TRUE]
           r == TokensArrive(w, n)
<1>1. c \in DeskRow /\ c.role = n /\ c.vis \in {w.vis, "Idle"} /\ ShellSound(c)
  BY RoleSet
<1>2. r = OwnerBecomes(m, "Active")
  BY DEF TokensArrive
<1> HIDE DEF c, r
<1>3. /\ m \in DeskRow /\ m.own = c.own /\ m.vis = c.vis /\ m.shell = c.shell
      /\ m.ownerToken = TRUE /\ m.refreshToken = TRUE
  BY <1>1 DEF DeskRow
<1>4. ShellSound(m)
  BY <1>1, <1>3 DEF ShellSound
<1> HIDE DEF m
<1>5. "Active" \in OwnerStates /\ "Active" # "Authenticating"
  BY DEF OwnerStates
<1>6. /\ r \in DeskRow /\ r.own = "Active" /\ r.ownerToken = TRUE /\ r.refreshToken = TRUE
      /\ r.vis \in {m.vis, "Idle"} /\ ShellSound(r)
  BY <1>2, <1>3, <1>4, <1>5, OwnerSet
<1> QED
  BY <1>1, <1>3, <1>6 DEF DeskSound, TokensSound, r

-----------------------------------------------------------------------------
(* Steps of the sessions.                                                  *)

\* What visitors' cascades keep of a sound desk.
LEMMA SoundKept ==
    ASSUME NEW w, NEW r, DeskSound(w), r \in DeskRow, SameOwner(w, r), ShellSound(w) => ShellSound(r)
    PROVE  DeskSound(r)
BY DEF DeskSound, SameOwner, TokensSound

LEMMA AnswersKept ==
    ASSUME NEW w, NEW r, NEW c, NEW d, AnswersComing(w, c), c \subseteq d, w.out \subseteq r.out,
           r.own = w.own, r.vis \in {w.vis, "Idle", "Unverified", "Active"}
    PROVE  AnswersComing(r, d)
BY DEF AnswersComing, Asked

\* A cascade asks for one more answer.
LEMMA SendsSound ==
    ASSUME NEW w, DeskSound(w), NEW op \in AuthOps, NEW a \in AnyShare
    PROVE  LET r == Sends(w, op, a)
           IN /\ DeskSound(r) /\ r.own = w.own /\ r.vis = w.vis /\ w.out \subseteq r.out
              /\ \E q \in r.out : q.op = op
<1> DEFINE o == [op |-> op, arg |-> a]
           r == Sends(w, op, a)
<1>1. r = [w EXCEPT !.out = @ \cup {o}] /\ w \in DeskRow
  BY DEF Sends, DeskSound
<1>2. o \in [op : AuthOps, arg : AnyShare] /\ o.op = op
  OBVIOUS
<1> HIDE DEF o, r
<1>3. /\ r \in DeskRow /\ r.own = w.own /\ r.role = w.role /\ r.ownerToken = w.ownerToken
      /\ r.refreshToken = w.refreshToken /\ r.vis = w.vis /\ r.shell = w.shell /\ r.out = w.out \cup {o}
  BY <1>1, <1>2 DEF DeskRow
<1>4. DeskSound(r)
  BY <1>3 DEF DeskSound, TokensSound, ShellSound
<1> QED
  BY <1>2, <1>3, <1>4 DEF r

\* Handing a sound desk's requests to AuthService.
LEMMA GoesSound ==
    ASSUME NEW w, NEW left, ManagersSound, DeskSound(w), AuthCallsKnown(left), AnswersComing(w, left),
           Goes_(w, left)
    PROVE  DeskInv'
<1>1. /\ desk' = [w EXCEPT !.out = {}]
      /\ calls' = left \cup {[op |-> q.op, arg |-> q.arg, n |-> sent + 1] : q \in w.out}
      /\ UNCHANGED managerVars
  BY DEF Goes_
<1>2. w \in DeskRow
  BY DEF DeskSound
<1>3. /\ desk' \in DeskRow /\ desk'.own = w.own /\ desk'.role = w.role /\ desk'.ownerToken = w.ownerToken
      /\ desk'.refreshToken = w.refreshToken /\ desk'.vis = w.vis /\ desk'.shell = w.shell /\ desk'.out = {}
  BY <1>1, <1>2 DEF DeskRow
<1>4. DeskSound(desk')
  BY <1>3 DEF DeskSound, TokensSound, ShellSound
<1>5. w.out \subseteq [op : AuthOps, arg : AnyShare]
  BY <1>2 DEF DeskRow
<1>6. AuthCallsKnown(calls')
  BY <1>1, <1>5 DEF AuthCallsKnown
<1>7. \A op \in AuthOps : Asked(w, left, op) => Asked(desk', calls', op)
  <2> SUFFICES ASSUME NEW op \in AuthOps, Asked(w, left, op)
               PROVE  \E q \in calls' : q.op = op
    BY DEF Asked
  <2>1. CASE \E q \in left : q.op = op
    BY <2>1, <1>1
  <2>2. CASE \E q \in w.out : q.op = op
    <3>1. PICK q \in w.out : q.op = op
      BY <2>2
    <3>2. [op |-> q.op, arg |-> q.arg, n |-> sent + 1] \in calls'
      BY <1>1
    <3> QED
      BY <3>1, <3>2
  <2> QED
    BY <2>1, <2>2 DEF Asked
<1>8. AnswersComing(desk', calls')
  BY <1>3, <1>7 DEF AnswersComing, AuthOps
<1>9. ManagersSound'
  BY <1>1 DEF managerVars, ManagersSound, OutcomePerCall
<1> QED
  BY <1>3, <1>4, <1>6, <1>8, <1>9 DEF DeskInv, SessionsSound

\* Steps of the user and of the timers.
LEMMA UserStepsKeep ==
    ASSUME DeskInv, SessionNext, ~AuthAnswered
    PROVE  DeskInv'
<1>1. /\ ManagersSound /\ DeskSound(desk) /\ desk.out = {} /\ AuthCallsKnown(calls) /\ AnswersComing(desk, calls)
      /\ desk \in DeskRow /\ ShellSound(desk) /\ TokensSound(desk)
  BY DEF DeskInv, SessionsSound, DeskSound
<1>a. NoShare \in AnyShare /\ AuthOps = {"login", "refresh", "logout", "access"} /\ desk.share \in AnyShare
  BY <1>1 DEF AnyShare, AuthOps, DeskRow
<1>2. CASE Login
  <2> DEFINE w == OwnerBecomes(desk, "Authenticating")
             r == Sends(w, "login", NoShare)
  <2>1. desk.shell = "login" /\ Goes_(r, calls) /\ "Authenticating" \in OwnerStates
    BY <1>2 DEF Login, OwnerStates
  <2>2. /\ w \in DeskRow /\ w.own = "Authenticating" /\ w.role = desk.role /\ w.ownerToken = desk.ownerToken
        /\ w.refreshToken = desk.refreshToken /\ w.out = desk.out /\ w.vis \in {desk.vis, "Idle"} /\ ShellSound(w)
    BY <1>1, <2>1, OwnerSet
  <2> HIDE DEF w
  <2>3. DeskSound(w)
    BY <2>2, <1>1 DEF DeskSound, TokensSound
  <2>4. /\ DeskSound(r) /\ r.own = w.own /\ r.vis = w.vis /\ w.out \subseteq r.out
        /\ \E q \in r.out : q.op = "login"
    BY <2>3, <1>a, SendsSound
  <2> HIDE DEF r
  <2>5. AnswersComing(r, calls)
    BY <2>2, <2>4, <1>1 DEF AnswersComing, Asked
  <2> QED
    BY <1>1, <2>1, <2>4, <2>5, GoesSound
<1>3. CASE HandleTokenExpired
  <2>1. CASE desk.refreshToken
    <3> DEFINE w == OwnerBecomes(desk, "Refreshing")
               r == Sends(w, "refresh", NoShare)
    <3>1. Goes_(r, calls) /\ "Refreshing" \in OwnerStates /\ "Refreshing" # "Authenticating"
      BY <1>3, <2>1 DEF HandleTokenExpired, OwnerStates
    <3>2. /\ w \in DeskRow /\ w.own = "Refreshing" /\ w.role = desk.role /\ w.ownerToken = desk.ownerToken
          /\ w.refreshToken = desk.refreshToken /\ w.out = desk.out /\ w.vis \in {desk.vis, "Idle"} /\ ShellSound(w)
      BY <1>1, <3>1, OwnerSet
    <3> HIDE DEF w
    <3>3. DeskSound(w)
      BY <3>2, <1>1 DEF DeskSound, TokensSound
    <3>4. /\ DeskSound(r) /\ r.own = w.own /\ r.vis = w.vis /\ w.out \subseteq r.out
          /\ \E q \in r.out : q.op = "refresh"
      BY <3>3, <1>a, SendsSound
    <3> HIDE DEF r
    <3>5. AnswersComing(r, calls)
      BY <3>2, <3>4, <1>1 DEF AnswersComing, Asked
    <3> QED
      BY <1>1, <3>1, <3>4, <3>5, GoesSound
  <2>2. CASE ~desk.refreshToken
    <3> DEFINE r == OwnerBecomes(desk, "ReauthRequired")
    <3>1. Goes_(r, calls) /\ "ReauthRequired" \in OwnerStates /\ "ReauthRequired" # "Authenticating"
      BY <1>3, <2>2 DEF HandleTokenExpired, OwnerStates
    <3>2. /\ r \in DeskRow /\ r.own = "ReauthRequired" /\ r.role = desk.role /\ r.ownerToken = desk.ownerToken
          /\ r.refreshToken = desk.refreshToken /\ r.out = desk.out /\ r.vis \in {desk.vis, "Idle"} /\ ShellSound(r)
      BY <1>1, <3>1, OwnerSet
    <3> HIDE DEF r
    <3>3. DeskSound(r)
      BY <3>2, <2>2, <1>1 DEF DeskSound, TokensSound
    <3>4. AnswersComing(r, calls)
      BY <3>2, <1>1 DEF AnswersComing, Asked
    <3> QED
      BY <1>1, <3>1, <3>3, <3>4, GoesSound
  <2> QED
    BY <2>1, <2>2
<1>4. CASE Logout
  <2> DEFINE r == StartLogout(desk)
  <2>1. Goes_(r, calls)
    BY <1>4 DEF Logout
  <2>2. /\ r \in DeskRow /\ r.role = desk.role /\ r.vis \in {desk.vis, "Idle"} /\ ShellSound(r)
        /\ desk.ownerToken => /\ r.own = "LogoutPending" /\ r.ownerToken = desk.ownerToken
                              /\ r.refreshToken = desk.refreshToken /\ \E q \in r.out : q.op = "logout"
        /\ ~desk.ownerToken => r.own = "LoggedOut" /\ ~r.ownerToken /\ ~r.refreshToken
    BY <1>1, StartLogoutSound
  <2> HIDE DEF r
  <2>3. r.ownerToken \in BOOLEAN /\ r.refreshToken \in BOOLEAN
    BY <2>2 DEF DeskRow
  <2>4. TokensSound(r)
    BY <2>2, <2>3, <1>1 DEF TokensSound
  <2>5. AnswersComing(r, calls)
    BY <2>2, <1>1 DEF AnswersComing, Asked
  <2> QED
    BY <1>1, <2>1, <2>2, <2>4, <2>5, GoesSound DEF DeskSound
<1>5. ASSUME NEW s \in ShareIds
      PROVE  LET r == OpenShare(desk, s)
             IN DeskSound(r) /\ SameOwner(desk, r) /\ r.vis = "Unverified"
  <2> DEFINE m == [desk EXCEPT !.share = s, !.domain = "visitor"]
             r == OpenShare(desk, s)
  <2>1. m \in DeskRow /\ SameOwner(desk, m) /\ m.shell = desk.shell
    BY <1>1 DEF DeskRow, SameOwner, AnyShare
  <2>2. r = VisitorBecomes(m, "Unverified") /\ "Unverified" \in VisitorStates
    BY DEF OpenShare, VisitorStates
  <2>3. ShellSound(m)
    BY <2>1, <1>1 DEF ShellSound, SameOwner
  <2> HIDE DEF m, r
  <2>4. r \in DeskRow /\ SameOwner(m, r) /\ r.vis = "Unverified" /\ ShellSound(r)
    BY <2>1, <2>2, <2>3, VisitorSet
  <2>5. SameOwner(desk, r)
    BY <2>1, <2>4 DEF SameOwner
  <2> QED
    BY <1>1, <2>4, <2>5, SoundKept DEF r
<1>6. CASE NavigateToVisitor
  <2>1. PICK s \in ShareIds : Goes_([OpenShare(desk, s) EXCEPT !.shell = "visitor"], calls)
    BY <1>6 DEF NavigateToVisitor
  <2> DEFINE m == OpenShare(desk, s)
             r == [m EXCEPT !.shell = "visitor"]
  <2>2. DeskSound(m) /\ SameOwner(desk, m) /\ m.vis = "Unverified"
    BY <1>5
  <2> HIDE DEF m
  <2>3. r \in DeskRow /\ SameOwner(m, r) /\ r.vis = m.vis /\ r.shell = "visitor"
    <3> HIDE DEF r
    <3> QED
      BY <2>2, ShellSet DEF DeskSound, r
  <2> HIDE DEF r
  <2>4. ShellSound(r)
    BY <2>3 DEF ShellSound
  <2>5. DeskSound(r)
    BY <2>2, <2>3, <2>4, SoundKept
  <2>6. AnswersComing(r, calls)
    BY <2>2, <2>3, <1>1, AnswersKept DEF SameOwner
  <2> QED
    BY <1>1, <2>1, <2>5, <2>6, GoesSound DEF r, m
<1>7. ASSUME NEW sh \in {"register", "login"}, Goes_([desk EXCEPT !.shell = sh], calls)
      PROVE  DeskInv'
  <2> DEFINE r == [desk EXCEPT !.shell = sh]
  <2>1. r \in DeskRow /\ SameOwner(desk, r) /\ r.vis = desk.vis /\ r.shell = sh
    <3> HIDE DEF r
    <3> QED
      BY <1>1, ShellSet DEF r
  <2> HIDE DEF r
  <2>2. ShellSound(r)
    BY <2>1 DEF ShellSound
  <2>3. DeskSound(r)
    BY <1>1, <2>1, <2>2, SoundKept
  <2>4. AnswersComing(r, calls)
    BY <2>1, <1>1, AnswersKept DEF SameOwner
  <2> QED
    BY <1>1, <1>7, <2>3, <2>4, GoesSound DEF r
<1>8. CASE NavigateToRegister
  BY <1>7, <1>8 DEF NavigateToRegister
<1>9. CASE NavigateToLogin
  BY <1>7, <1>9 DEF NavigateToLogin
\* A share is verified: the visitor waits and an access request is sent.
<1>10. ASSUME NEW w, DeskSound(w), SameOwner(desk, w), NEW s \in VisitorStates, NEW a \in AnyShare,
              Goes_(Sends(VisitorBecomes(w, s), "access", a), calls)
       PROVE  DeskInv'
  <2> DEFINE m == VisitorBecomes(w, s)
             r == Sends(m, "access", a)
  <2>1. w \in DeskRow
    BY <1>10 DEF DeskSound
  <2>2. m \in DeskRow /\ SameOwner(w, m) /\ m.vis = s /\ (ShellSound(w) => ShellSound(m))
    BY <2>1, <1>10, VisitorSet
  <2> HIDE DEF m
  <2>3. DeskSound(m)
    BY <1>10, <2>2, SoundKept
  <2>4. /\ DeskSound(r) /\ r.own = m.own /\ r.vis = m.vis /\ m.out \subseteq r.out
        /\ \E q \in r.out : q.op = "access"
    BY <2>3, <1>10, <1>a, SendsSound
  <2> HIDE DEF r
  <2>5. AnswersComing(r, calls)
    BY <2>2, <2>4, <1>1, <1>10 DEF AnswersComing, Asked, SameOwner
  <2> QED
    BY <1>1, <1>10, <2>4, <2>5, GoesSound DEF r, m
<1>11. CASE StartVerify
  <2>1. PICK s \in ShareIds :
            Goes_(Sends(VisitorBecomes(IF s = desk.share THEN desk ELSE OpenShare(desk, s), "Verifying"),
                        "access", s), calls)
    BY <1>11 DEF StartVerify
  <2> DEFINE w == IF s = desk.share THEN desk ELSE OpenShare(desk, s)
  <2>2. DeskSound(w) /\ SameOwner(desk, w)
    BY <1>1, <1>5 DEF SameOwner
  <2>3. s \in AnyShare /\ "Verifying" \in VisitorStates
    BY DEF AnyShare, VisitorStates
  <2>4. Goes_(Sends(VisitorBecomes(w, "Verifying"), "access", s), calls)
    BY <2>1
  <2> HIDE DEF w
  <2> QED
    BY <2>2, <2>3, <2>4, <1>10
<1>12. CASE VisitorTokenExpires
  <2> DEFINE w == [desk EXCEPT !.visitorToken = NoShare]
  <2>1. w \in DeskRow /\ SameOwner(desk, w) /\ w.shell = desk.shell
    BY <1>1, <1>a DEF DeskRow, SameOwner
  <2>2. Goes_(Sends(VisitorBecomes(w, "ReverifyRequired"), "access", desk.share), calls)
    BY <1>12 DEF VisitorTokenExpires
  <2>3. "ReverifyRequired" \in VisitorStates
    BY DEF VisitorStates
  <2> HIDE DEF w
  <2>4. ShellSound(w)
    BY <2>1, <1>1 DEF ShellSound, SameOwner
  <2>5. DeskSound(w)
    BY <2>1, <2>4, <1>1, SoundKept
  <2> QED
    BY <2>1, <2>2, <2>3, <2>5, <1>a, <1>10
<1>13. CASE LeaveShare
  <2> DEFINE r == CloseShare(desk)
  <2>1. Goes_(r, calls)
    BY <1>13 DEF LeaveShare
  <2>2. r \in DeskRow /\ SameOwner(desk, r) /\ r.vis = "Idle" /\ (ShellSound(desk) => ShellSound(r))
    BY <1>1, ShareClosed
  <2> HIDE DEF r
  <2>3. DeskSound(r)
    BY <1>1, <2>2, SoundKept
  <2>4. AnswersComing(r, calls)
    BY <2>2, <1>1, AnswersKept DEF SameOwner
  <2> QED
    BY <1>1, <2>1, <2>3, <2>4, GoesSound
<1> QED
  BY <1>2, <1>3, <1>4, <1>6, <1>8, <1>9, <1>11, <1>12, <1>13 DEF SessionNext

\* An answer arrives: the states that waited for its kind are left.
LEMMA AnswersKeep ==
    ASSUME DeskInv, AuthAnswered
    PROVE  DeskInv'
<1>1. /\ ManagersSound /\ DeskSound(desk) /\ AuthCallsKnown(calls) /\ AnswersComing(desk, calls)
      /\ desk \in DeskRow /\ ShellSound(desk) /\ desk.out = {}
  BY DEF DeskInv, SessionsSound, DeskSound
<1>2. PICK q \in calls : LoginAnswered(q) \/ RefreshAnswered(q) \/ LogoutAnswered(q) \/ AccessAnswered(q)
  BY DEF AuthAnswered
<1>3. q.op \in AuthOps /\ q.arg \in AnyShare /\ AuthCallsKnown(calls \ {q})
  BY <1>1 DEF AuthCallsKnown
<1>4. \A op \in AuthOps \ {q.op} : Asked(desk, calls, op) => \E o \in calls \ {q} : o.op = op
  BY <1>1 DEF Asked
\* An answer to the account.
<1>5. ASSUME q.op \in {"login", "refresh", "logout"}, NEW r, DeskSound(r),
             r.own \in {"Active", "LoggedOut", "ReauthRequired"}, r.vis \in {desk.vis, "Idle"},
             Goes_(r, calls \ {q})
      PROVE  DeskInv'
  <2>1. "access" \in AuthOps \ {q.op}
    BY <1>5 DEF AuthOps
  <2>2. AnswersComing(r, calls \ {q})
    BY <1>1, <1>4, <1>5, <2>1 DEF AnswersComing, Asked
  <2> QED
    BY <1>1, <1>3, <1>5, <2>2, GoesSound
<1>6. ASSUME q.op \in {"login", "refresh"}, NEW n \in {0, 1}, Goes_(TokensArrive(desk, n), calls \ {q})
      PROVE  DeskInv'
  <2> DEFINE r == TokensArrive(desk, n)
  <2>1. DeskSound(r) /\ r.own = "Active" /\ r.vis \in {desk.vis, "Idle"} /\ Goes_(r, calls \ {q})
    BY <1>1, <1>6, TokensArriveSound
  <2> HIDE DEF r
  <2> QED
    BY <1>5, <1>6, <2>1
<1>7. ASSUME q.op \in {"login", "refresh", "logout"}, NEW s \in {"LoggedOut", "ReauthRequired"},
             Goes_(OwnerBecomes(ClearSession(desk), s), calls \ {q})
      PROVE  DeskInv'
  <2> DEFINE r == OwnerBecomes(ClearSession(desk), s)
  <2>1. DeskSound(r) /\ r.own = s /\ r.vis \in {desk.vis, "Idle"} /\ Goes_(r, calls \ {q})
    BY <1>1, <1>7, SessionEnds
  <2> HIDE DEF r
  <2> QED
    BY <1>5, <1>7, <2>1
<1>8. CASE LoginAnswered(q)
  BY <1>6, <1>7, <1>8 DEF LoginAnswered, HandleLoginFailure
<1>9. CASE RefreshAnswered(q)
  BY <1>6, <1>7, <1>9 DEF RefreshAnswered, HandleRefreshFailure
<1>10. CASE LogoutAnswered(q)
  BY <1>7, <1>10 DEF LogoutAnswered, CompleteLogout
\* An answer to the visitor.
<1>11. ASSUME q.op = "access", NEW r \in DeskRow, SameOwner(desk, r), r.vis \in {"Idle", "Unverified", "Active"},
              ShellSound(r), Goes_(r, calls \ {q})
       PROVE  DeskInv'
  <2>1. DeskSound(r)
    BY <1>1, <1>11, SoundKept
  <2>2. {"login", "refresh", "logout"} \subseteq AuthOps \ {q.op}
    BY <1>11 DEF AuthOps
  <2>3. AnswersComing(r, calls \ {q})
    BY <1>1, <1>4, <1>11, <2>2 DEF AnswersComing, Asked, SameOwner
  <2> QED
    BY <1>1, <1>3, <1>11, <2>1, <2>3, GoesSound
<1>12. CASE AccessAnswered(q)
  <2>1. q.op = "access" /\ {"Active", "Unverified"} \subseteq VisitorStates
    BY <1>12 DEF AccessAnswered, VisitorStates
  <2>2. CASE Goes_(HandleVerifySuccess(desk, q.arg), calls \ {q})
    <3> DEFINE m == [desk EXCEPT !.visitorToken = q.arg]
               r == VisitorBecomes(m, "Active")
    <3>1. m \in DeskRow /\ SameOwner(desk, m) /\ m.shell = desk.shell /\ Goes_(r, calls \ {q})
      BY <1>1, <1>3, <2>2 DEF DeskRow, SameOwner, HandleVerifySuccess
    <3>2. ShellSound(m)
      BY <1>1, <3>1 DEF ShellSound, SameOwner
    <3> HIDE DEF m
    <3>3. r \in DeskRow /\ SameOwner(m, r) /\ r.vis = "Active" /\ ShellSound(r)
      BY <2>1, <3>1, <3>2, VisitorSet
    <3> HIDE DEF r
    <3>4. SameOwner(desk, r)
      BY <3>1, <3>3 DEF SameOwner
    <3> QED
      BY <1>11, <2>1, <3>1, <3>3, <3>4
  <2>3. CASE Goes_(CloseShare(desk), calls \ {q})
    <3> DEFINE r == CloseShare(desk)
    <3>1. r \in DeskRow /\ SameOwner(desk, r) /\ r.vis = "Idle" /\ ShellSound(r) /\ Goes_(r, calls \ {q})
      BY <1>1, <2>3, ShareClosed
    <3> HIDE DEF r
    <3> QED
      BY <1>11, <2>1, <3>1
  <2>4. CASE Goes_(VisitorBecomes(desk, "Unverified"), calls \ {q})
    <3> DEFINE r == VisitorBecomes(desk, "Unverified")
    <3>1. r \in DeskRow /\ SameOwner(desk, r) /\ r.vis = "Unverified" /\ ShellSound(r) /\ Goes_(r, calls \ {q})
      BY <1>1, <2>1, <2>4, VisitorSet
    <3> HIDE DEF r
    <3> QED
      BY <1>11, <2>1, <3>1
  <2> QED
    BY <1>12, <2>2, <2>3, <2>4 DEF AccessAnswered, HandleVerifyFailure
<1> QED
  BY <1>2, <1>8, <1>9, <1>10, <1>12

-----------------------------------------------------------------------------
(* Calls of the managers.                                                  *)

\* What one more outcome does to the counts.
LEMMA ToldOnce ==
    ASSUME told \in [{"apiError", "done"} -> Nat], NEW o \in {"apiError", "done"},
           told' = [told EXCEPT ![o] = @ + 1]
    PROVE  /\ told' \in [{"apiError", "done"} -> Nat]
           /\ told'.apiError + told'.done = told.apiError + told.done + 1
<1>1. told' \in [{"apiError", "done"} -> Nat] /\ told.apiError \in Nat /\ told.done \in Nat
  OBVIOUS
<1>2. CASE o = "apiError"
  <2>1. told'.apiError = told.apiError + 1 /\ told'.done = told.done
    BY <1>2
  <2> QED
    BY <1>1, <2>1
<1>3. CASE o = "done"
  <2>1. told'.done = told.done + 1 /\ told'.apiError = told.apiError
    BY <1>3
  <2> QED
    BY <1>1, <2>1
<1> QED
  BY <1>2, <1>3

LEMMA SignalledKnown ==
    ASSUME NEW c, NEW ans
    PROVE  Signalled(c, ans) \in {"apiError", "done"}
<1>1. \A e : SignalledIf(e) \in {"apiError", "done"}
  BY DEF SignalledIf
<1> QED
  BY <1>1 DEF Signalled, DriveReadOutcome, DriveWriteOutcome, ShareOutcome, TrashOutcome, ProfileOutcome,
              AdminReadOutcome, AdminWriteOutcome, HealthOutcome

LEMMA ManagersKeep ==
    ASSUME DeskInv, ManagerNext
    PROVE  DeskInv'
<1>1. /\ made \in Nat /\ told \in [{"apiError", "done"} -> Nat] /\ IsFiniteSet(pending)
      /\ (\A q \in pending : q.n \in Nat /\ q.n < made)
      /\ made = told.apiError + told.done + Cardinality(pending)
  BY DEF DeskInv, ManagersSound, OutcomePerCall
<1>2. UNCHANGED sessionVars
  BY DEF ManagerNext, ManagerCall, ManagerReply
<1>3. SessionsSound'
  BY <1>2 DEF DeskInv, SessionsSound, sessionVars
<1>4. Cardinality(pending) \in Nat /\ told.apiError \in Nat /\ told.done \in Nat
  BY <1>1, FS_CardinalityType
<1>5. ASSUME NEW c \in ManagerCalls, ManagerCall(c)
      PROVE  ManagersSound'
  <2>1. made' = made + 1 /\ made' \in Nat
    BY <1>1, <1>5 DEF ManagerCall
  <2>2. CASE /\ told' = [told EXCEPT ![IF c = "loadBreadcrumb" THEN "done" ELSE "apiError"] = @ + 1]
             /\ pending' = pending
    <3> DEFINE o == IF c = "loadBreadcrumb" THEN "done" ELSE "apiError"
    <3>1. o \in {"apiError", "done"}
      OBVIOUS
    <3>2. told' = [told EXCEPT ![o] = @ + 1]
      BY <2>2
    <3> HIDE DEF o
    <3>3. told' \in [{"apiError", "done"} -> Nat] /\ told'.apiError + told'.done = told.apiError + told.done + 1
      BY <1>1, <3>1, <3>2, ToldOnce
    <3>4. OutcomePerCall'
      BY <1>1, <1>4, <2>1, <2>2, <3>3 DEF OutcomePerCall
    <3> QED
      BY <1>1, <2>1, <2>2, <3>3, <3>4 DEF ManagersSound
  <2>3. CASE pending' = pending \cup {[call |-> c, n |-> made]} /\ told' = told
    <3> DEFINE q == [call |-> c, n |-> made]
    <3>1. q.n = made /\ q \notin pending
      BY <1>1
    <3> HIDE DEF q
    <3>2. pending' = pending \cup {q}
      BY <2>3 DEF q
    <3>3. IsFiniteSet(pending') /\ Cardinality(pending') = Cardinality(pending) + 1
      BY <1>1, <3>1, <3>2, FS_AddElement
    <3>4. \A p \in pending' : p.n \in Nat /\ p.n < made'
      BY <1>1, <2>1, <3>1, <3>2
    <3>5. OutcomePerCall'
      BY <1>1, <1>4, <2>1, <2>3, <3>3 DEF OutcomePerCall
    <3> QED
      BY <1>1, <2>1, <2>3, <3>3, <3>4, <3>5 DEF ManagersSound
  <2> QED
    BY <1>5, <2>2, <2>3 DEF ManagerCall
<1>6. ASSUME ManagerReply
      PROVE  ManagersSound'
  <2>1. PICK q \in pending, ans \in {"ok", "code", "garbled", "failed"} :
            pending' = pending \ {q} /\ told' = [told EXCEPT ![Signalled(q.call, ans)] = @ + 1]
    BY <1>6 DEF ManagerReply
  <2>2. told' \in [{"apiError", "done"} -> Nat] /\ told'.apiError + told'.done = told.apiError + told.done + 1
    BY <1>1, <2>1, SignalledKnown, ToldOnce
  <2>3. IsFiniteSet(pending') /\ Cardinality(pending') = Cardinality(pending) - 1
    BY <1>1, <2>1, FS_RemoveElement
  <2>4. made' = made
    BY <1>6 DEF ManagerReply
  <2>5. OutcomePerCall'
    BY <1>1, <1>4, <2>2, <2>3, <2>4 DEF OutcomePerCall
  <2> QED
    BY <1>1, <2>1, <2>2, <2>3, <2>4, <2>5 DEF ManagersSound
<1> QED
  BY <1>3, <1>5, <1>6 DEF ManagerNext, DeskInv

\* Of the sessions and the managers of the desktop client, for any shares and any number
\* of calls: a state that waits has a request under way, a signed-out session holds no
\* token and shows no drive, and every call was answered once or is still pending
\* (OwnerSessionManager, VisitorSessionManager, ShellController).
THEOREM DeskConsistentHolds == DesktopSpec => []DeskConsistent
<1>1. DesktopInit => DeskInv
  <2> SUFFICES ASSUME DesktopInit
               PROVE  DeskInv
    OBVIOUS
  <2>1. /\ desk = [own |-> "LoggedOut", role |-> 0, ownerToken |-> FALSE, refreshToken |-> FALSE,
                   vis |-> "Idle", share |-> NoShare, visitorToken |-> NoShare, domain |-> "",
                   shell |-> "login", out |-> {}]
        /\ calls = {} /\ sent = 0 /\ pending = {} /\ made = 0 /\ told = [o \in {"apiError", "done"} |-> 0]
    BY DEF DesktopInit
  <2>2. desk \in DeskRow
    BY <2>1 DEF DeskRow, OwnerStates, VisitorStates, AnyShare
  <2>3. DeskSound(desk) /\ desk.out = {} /\ AuthCallsKnown(calls) /\ AnswersComing(desk, calls)
    BY <2>1, <2>2 DEF DeskSound, ShellSound, TokensSound, AuthCallsKnown, AnswersComing
  <2>4. IsFiniteSet(pending) /\ Cardinality(pending) = 0
    BY <2>1, FS_EmptySet
  <2>5. told \in [{"apiError", "done"} -> Nat] /\ told.apiError = 0 /\ told.done = 0
    BY <2>1
  <2>6. OutcomePerCall
    <3>1. made = 0
      BY <2>1
    <3> QED
      BY <3>1, <2>4, <2>5, 0 = 0 + 0 + 0 DEF OutcomePerCall
  <2>7. made \in Nat /\ \A q \in pending : q.n \in Nat /\ q.n < made
    BY <2>1
  <2> QED
    BY <2>3, <2>4, <2>5, <2>6, <2>7 DEF DeskInv, SessionsSound, ManagersSound
<1>2. DeskInv /\ [SessionNext \/ ManagerNext]_desktopVars => DeskInv'
  <2> SUFFICES ASSUME DeskInv, [SessionNext \/ ManagerNext]_desktopVars
               PROVE  DeskInv'
    OBVIOUS
  <2>1. CASE UNCHANGED desktopVars
    BY <2>1 DEF desktopVars, sessionVars, managerVars, DeskInv, SessionsSound, ManagersSound, OutcomePerCall
  <2> QED
    BY <2>1, UserStepsKeep, AnswersKeep, ManagersKeep
<1>3. DeskInv => DeskConsistent
  <2> SUFFICES ASSUME DeskInv
               PROVE  DeskConsistent
    OBVIOUS
  <2>1. DeskSound(desk) /\ desk.out = {} /\ AnswersComing(desk, calls) /\ OutcomePerCall /\ desk.role \in {0, 1}
    BY DEF DeskInv, SessionsSound, ManagersSound, DeskSound, DeskRow
  <2>2. PendingHasAnswer
    BY <2>1 DEF PendingHasAnswer, AnswersComing, Asked
  <2> QED
    BY <2>1, <2>2 DEF DeskConsistent, SignedOutHasNoToken, OwnerShellNeedsSession, DeskSound, ShellSound, TokensSound
<1> QED
  BY <1>1, <1>2, <1>3, PTL DEF DesktopSpec

-----------------------------------------------------------------------------
(* Forms: the chunks of a file.                                            *)

\* What chunk i of a file measures, in numbers that do not wrap.
LEMMA ChunkMeasures ==
    ASSUME NEW size \in 1..(ByteLimit - 1), NEW chunk \in Nat \ {0}, NEW last, last = (size - 1) \div chunk,
           NEW f, f = [size |-> size, chunk |-> chunk, total |-> TotalChunks(size, chunk)]
    PROVE  /\ last \in Nat /\ f.total = last + 1
           /\ \A i \in 0..last : ExpectedSize(f, i) = IF i < last THEN chunk ELSE size - i * chunk
           /\ size - last * chunk \in 1..chunk
<1>0. ByteLimit \in Int
  BY ValidationAssumption DEF ByteLimit
<1>1. size \in Nat /\ size >= 1 /\ ByteLimit \in Nat \ {0} /\ size < ByteLimit
  BY <1>0
<1> HIDE DEF ByteLimit
<1>2. (size - 1) % ByteLimit = size - 1
  BY <1>1
<1>3. last \in Nat /\ last * chunk <= size - 1 /\ size - 1 < last * chunk + chunk
  BY <1>1
<1>4. f.total = last + 1 /\ f.size = size /\ f.chunk = chunk
  BY <1>2 DEF TotalChunks
<1>5. size - last * chunk \in 1..chunk
  <2> DEFINE m == last * chunk
  <2>1. m \in Nat
    BY <1>3
  <2> HIDE DEF m
  <2>2. size - m \in 1..chunk
    BY <1>1, <1>3, <2>1 DEF m
  <2> QED
    BY <2>2 DEF m
<1>6. ASSUME NEW i \in 0..last
      PROVE  ExpectedSize(f, i) = IF i < last THEN chunk ELSE size - i * chunk
  <2> DEFINE m == i * chunk
             top == last * chunk
  <2>1. i \in Nat /\ i <= last /\ m \in Nat /\ top \in Nat
    BY <1>3
  <2>2. m <= top /\ (i < last => m + chunk <= top)
    <3>1. i * chunk <= last * chunk
      BY <1>3, <2>1
    <3>2. i < last => (i + 1) * chunk <= last * chunk
      BY <1>3, <2>1
    <3>3. (i + 1) * chunk = i * chunk + chunk
      BY <2>1
    <3> QED
      BY <3>1, <3>2, <3>3
  <2>3. i = last => m = top
    OBVIOUS
  <2>4. top <= size - 1 /\ size - 1 < top + chunk
    BY <1>3
  <2>5. ExpectedSize(f, i) = LET remaining == (size - m) % ByteLimit
                             IN IF chunk < remaining THEN chunk ELSE remaining
    BY <1>4 DEF ExpectedSize
  <2> HIDE DEF m, top
  <2>6. (size - m) % ByteLimit = size - m
    BY <1>1, <2>1, <2>2, <2>4
  <2>7. ExpectedSize(f, i) = IF i < last THEN chunk ELSE size - m
    BY <1>1, <1>3, <2>1, <2>2, <2>3, <2>4, <2>5, <2>6
  <2> QED
    BY <2>7 DEF m
<1> QED
  BY <1>3, <1>4, <1>5, <1>6

\* The chunks before the k-th are k whole ones, and all of them are the file.
LEMMA ChunksAddUp ==
    ASSUME NEW size \in Nat, NEW chunk \in Nat \ {0}, NEW last \in Nat, NEW W \in [0..last -> Nat],
           \A i \in 0..last : W[i] = IF i < last THEN chunk ELSE size - i * chunk
    PROVE  Total(W, 0..last) = size
<1> DEFINE Before(k) == 0..(k - 1)
           Sum(k) == IF k <= last THEN k * chunk ELSE size
           Bad == {k \in 0..(last + 1) : Total(W, Before(k)) # Sum(k)}
<1> SUFFICES ASSUME Bad # {} PROVE FALSE
  <2>1. last + 1 \notin Bad => Total(W, Before(last + 1)) = Sum(last + 1)
    OBVIOUS
  <2>2. Before(last + 1) = 0..last /\ Sum(last + 1) = size
    OBVIOUS
  <2> HIDE DEF Before, Sum, Bad
  <2> QED
    BY <2>1, <2>2
<1>1. PICK k \in Bad : \A j \in Bad : k <= j
  <2>1. Bad \in SUBSET Nat
    OBVIOUS
  <2> HIDE DEF Bad
  <2> QED
    BY <2>1, LeastNumber
<1>2. k # 0
  <2>1. Before(0) = {} /\ Sum(0) = 0
    OBVIOUS
  <2>2. Total(W, {}) = 0
    BY TotalEmpty
  <2> QED
    BY <2>1, <2>2
<1> DEFINE j == k - 1
<1>3. j \in 0..last /\ j < k /\ k = j + 1
  BY <1>2
<1>4. j \notin Bad
  <2> HIDE DEF Bad, j
  <2> QED
    BY <1>1, <1>3
<1>5. Total(W, Before(j)) = j * chunk
  BY <1>3, <1>4
<1>6. Before(k) = Before(j) \cup {j} /\ j \notin Before(j) /\ Before(j) \in SUBSET (0..last) /\ IsFiniteSet(Before(j))
  <2>1. IsFiniteSet(0..(j - 1))
    BY <1>3, FS_Interval
  <2> HIDE DEF j
  <2>2. 0..(k - 1) = (0..(j - 1)) \cup {j} /\ 0..(j - 1) \in SUBSET (0..last)
    BY <1>3
  <2> QED
    BY <1>3, <2>1, <2>2
<1>7. Total(W, Before(k)) = W[j] + Total(W, Before(j))
  <2> HIDE DEF Before, j
  <2>1. j \in 0..last /\ j \notin Before(j) /\ Before(j) \in SUBSET (0..last) /\ IsFiniteSet(Before(j))
    BY <1>3, <1>6
  <2>2. Total(W, Before(j) \cup {j}) = W[j] + Total(W, Before(j))
    BY <2>1, TotalAdd
  <2> QED
    BY <1>6, <2>2
<1>8. W[j] = IF j < last THEN chunk ELSE size - j * chunk
  BY <1>3
<1>9. (j + 1) * chunk = j * chunk + chunk /\ j * chunk \in Nat
  BY <1>3
<1>10. Total(W, Before(k)) = Sum(k)
  <2>1. CASE j < last
    <3>1. Sum(k) = (j + 1) * chunk
      BY <2>1, <1>3
    <3> HIDE DEF Before, Sum, j
    <3> QED
      BY <2>1, <3>1, <1>5, <1>7, <1>8, <1>9
  <2>2. CASE j = last
    <3>1. Sum(k) = size
      BY <2>2, <1>3
    <3> HIDE DEF Before, Sum, j
    <3>2. W[j] = size - j * chunk
      BY <2>2, <1>8
    <3> QED
      BY <3>1, <3>2, <1>5, <1>7, <1>9
  <2> QED
    BY <1>3, <2>1, <2>2
<1> QED
  BY <1>10

\* The chunks of a file that is not empty are not empty and are the file.
LEMMA ChunksCover ==
    ASSUME NEW size \in 1..(ByteLimit - 1), NEW chunk \in Nat \ {0},
           NEW f, f = [size |-> size, chunk |-> chunk, total |-> TotalChunks(size, chunk)]
    PROVE  /\ f.total > 0
           /\ \A i \in 0..(f.total - 1) : ExpectedSize(f, i) > 0
           /\ Total([i \in 0..(f.total - 1) |-> ExpectedSize(f, i)], 0..(f.total - 1)) = f.size
<1> DEFINE last == (size - 1) \div chunk
           W == [i \in 0..last |-> ExpectedSize(f, i)]
<1>1. /\ last \in Nat /\ f.total = last + 1
      /\ \A i \in 0..last : ExpectedSize(f, i) = IF i < last THEN chunk ELSE size - i * chunk
      /\ size - last * chunk \in 1..chunk
  BY ChunkMeasures
<1>2. size \in Nat /\ f.size = size
  BY ValidationAssumption DEF ByteLimit
<1> HIDE DEF last
<1>3. ASSUME NEW i \in 0..last PROVE ExpectedSize(f, i) \in Nat \ {0}
  <2>1. CASE i < last
    BY <1>1, <2>1
  <2>2. CASE i = last
    <3>1. ExpectedSize(f, i) = size - last * chunk
      BY <1>1, <2>2
    <3> QED
      BY <1>1, <3>1
  <2> QED
    BY <1>1, <2>1, <2>2
<1>4. W \in [0..last -> Nat] /\ \A i \in 0..last : W[i] = IF i < last THEN chunk ELSE size - i * chunk
  BY <1>1, <1>3
<1>5. Total(W, 0..last) = size
  <2> HIDE DEF W
  <2> QED
    BY <1>1, <1>2, <1>4, ChunksAddUp
<1>6. f.total > 0 /\ f.total - 1 = last
  BY <1>1
<1>7. \A i \in 0..(f.total - 1) : ExpectedSize(f, i) > 0
  BY <1>3, <1>6
<1>8. [i \in 0..(f.total - 1) |-> ExpectedSize(f, i)] = W
  BY <1>6
<1> HIDE DEF W
<1>9. Total([i \in 0..(f.total - 1) |-> ExpectedSize(f, i)], 0..(f.total - 1)) = f.size
  BY <1>2, <1>5, <1>6, <1>8
<1> QED
  BY <1>6, <1>7, <1>9

\* The tests of the form of an upload's start.
LEMMA InitUploadTests ==
    /\ Forms["InitUpload"] = InitUploadRequest
    /\ Len(InitUploadRequest) = 9
    /\ InitUploadRequest[8] = Keeps("file_size", {"positive", "large"}, VF)
<1>1. Forms["InitUpload"] = InitUploadRequest
  BY DEF Forms, FileForms, ShareForms, AccountForms, OperatorForms, WithForms
<1>2. Len(InitUploadRequest) = 9
  BY DEF InitUploadRequest, RequireJsonBody, ValidateName
<1>3. InitUploadRequest[8] = Keeps("file_size", {"positive", "large"}, VF)
  BY DEF InitUploadRequest, RequireJsonBody, ValidateName
<1> QED
  BY <1>1, <1>2, <1>3

\* A field has one value; an upload's start that is past the test of its size
\* has a size that passed it.
RvInv ==
    /\ \A p, q \in rvDto : p[1] = q[1] => p = q
    /\ rvForm = "InitUpload" =>
          /\ rvAt \in 1..12
          /\ rvAt \in {9, 10} => \E p \in rvDto : p[1] = "file_size" /\ p[2] \in {"positive", "large"}
    /\ ChunksCoverFile

\* The value of a field that was read is the one it was read with.
LEMMA ValueIs ==
    ASSUME RvInv, NEW p \in rvDto
    PROVE  Value(p[1]) = p[2]
<1>1. (CHOOSE q \in rvDto : q[1] = p[1]) = p
  BY DEF RvInv
<1> QED
  BY <1>1 DEF Value

\* A field that is read was not read before.
LEMMA ReadFieldInv == RvInv /\ ReadField => RvInv'
<1> SUFFICES ASSUME RvInv, ReadField PROVE RvInv'
  OBVIOUS
<1>1. PICK v : ~IsRead(Tests[rvAt].field) /\ rvDto' = rvDto \cup {<<Tests[rvAt].field, v>>}
  BY DEF ReadField
<1> DEFINE field == Tests[rvAt].field
<1>2. \A p \in rvDto : p[1] # field
  BY <1>1 DEF IsRead
<1>3. rvDto' = rvDto \cup {<<field, v>>} /\ <<field, v>>[1] = field
  BY <1>1
<1> HIDE DEF field
<1>4. \A p, q \in rvDto' : p[1] = q[1] => p = q
  BY <1>2, <1>3 DEF RvInv
<1>5. UNCHANGED <<rvForm, rvAt, rvFile>>
  BY DEF ReadField
<1>6. ChunksCoverFile'
  BY <1>5 DEF RvInv, ChunksCoverFile, ExpectedSize
<1>7. rvForm = "InitUpload" =>
          /\ rvAt \in 1..12
          /\ rvAt \in {9, 10} => \E p \in rvDto' : p[1] = "file_size" /\ p[2] \in {"positive", "large"}
  BY <1>3 DEF RvInv
<1> QED
  BY <1>4, <1>5, <1>6, <1>7 DEF RvInv

\* Only the test of the size moves an upload's start past that test.
LEMMA ApplyTestInv == RvInv /\ ApplyTest => RvInv'
<1> SUFFICES ASSUME RvInv, ApplyTest PROVE RvInv'
  OBVIOUS
<1> DEFINE t == Tests[rvAt]
<1>1. rvAt \in 1..Len(Tests) /\ IsRead(t.field) /\ UNCHANGED <<rvForm, rvFile>>
  BY DEF ApplyTest
<1>2. \/ ~Refuses(t) /\ rvAt' = rvAt + 1 /\ rvDto' = rvDto
      \/ rvAt' \in {Len(Tests) + 2, Len(Tests) + 3} /\ rvDto' = {}
  BY DEF ApplyTest
<1>3. \A p, q \in rvDto' : p[1] = q[1] => p = q
  BY <1>2 DEF RvInv
<1>4. ChunksCoverFile'
  BY <1>1 DEF RvInv, ChunksCoverFile, ExpectedSize
<1>5. ASSUME rvForm = "InitUpload"
      PROVE  /\ rvAt' \in 1..12
             /\ rvAt' \in {9, 10} => \E p \in rvDto' : p[1] = "file_size" /\ p[2] \in {"positive", "large"}
  <2>1. Tests = InitUploadRequest /\ Len(Tests) = 9
    BY <1>5, InitUploadTests DEF Tests
  <2>2. CASE rvAt' \in {Len(Tests) + 2, Len(Tests) + 3}
    BY <2>1, <2>2
  <2>3. CASE ~Refuses(t) /\ rvAt' = rvAt + 1 /\ rvDto' = rvDto
    <3>1. rvAt \in 1..9
      BY <1>1, <2>1
    <3>2. CASE rvAt = 8
      <4>1. t.field = "file_size" /\ t.other = "none" /\ t.passes = {"positive", "large"}
        BY <2>1, <3>2, InitUploadTests DEF Keeps, Reads
      <4> HIDE DEF t
      <4>2. PICK p \in rvDto : p[1] = "file_size"
        BY <1>1, <4>1 DEF IsRead
      <4>3. Value("file_size") = p[2]
        BY <4>2, ValueIs
      <4>4. p[2] \in {"positive", "large"}
        BY <2>3, <4>1, <4>3 DEF Refuses
      <4> QED
        BY <2>3, <3>2, <4>2, <4>4
    <3>3. CASE rvAt = 9
      BY <1>5, <2>3, <3>3 DEF RvInv
    <3>4. CASE rvAt \in 1..7
      BY <2>3, <3>4
    <3> QED
      BY <3>1, <3>2, <3>3, <3>4
  <2> QED
    BY <1>2, <2>2, <2>3
<1> QED
  BY <1>1, <1>3, <1>4, <1>5 DEF RvInv

\* Chunks are planned for a size that passed its test.
LEMMA PlanChunksInv ==
    ASSUME RvInv, NEW size \in 0..(ByteLimit - 1), NEW chunk \in ChunkSizes, PlanChunks(size, chunk)
    PROVE  RvInv'
<1>1. rvForm = "InitUpload" /\ Accepted /\ (size = 0) = (Value("file_size") = "zero") /\ chunk # 0
      /\ rvFile' = [size |-> size, chunk |-> chunk, total |-> TotalChunks(size, chunk)]
      /\ UNCHANGED <<rvForm, rvAt, rvDto>>
  BY DEF PlanChunks
<1>2. rvAt = 10
  BY <1>1, InitUploadTests DEF Accepted, Tests
<1>3. PICK p \in rvDto : p[1] = "file_size" /\ p[2] \in {"positive", "large"}
  BY <1>1, <1>2 DEF RvInv
<1>4. Value("file_size") # "zero"
  <2>1. Value("file_size") = p[2]
    BY <1>3, ValueIs
  <2> QED
    BY <1>3, <2>1
<1>5. size # 0
  BY <1>1, <1>4
<1>6. size \in 1..(ByteLimit - 1) /\ chunk \in Nat \ {0}
  <2>1. ByteLimit \in Int
    BY ValidationAssumption DEF ByteLimit
  <2> HIDE DEF ByteLimit
  <2> QED
    BY <1>1, <1>5, <2>1, ValidationAssumption
<1>7. ChunksCoverFile'
  <2> DEFINE f == [size |-> size, chunk |-> chunk, total |-> TotalChunks(size, chunk)]
  <2>1. /\ f.total > 0
        /\ \A i \in 0..(f.total - 1) : ExpectedSize(f, i) > 0
        /\ Total([i \in 0..(f.total - 1) |-> ExpectedSize(f, i)], 0..(f.total - 1)) = f.size
    BY <1>6, ChunksCover
  <2>2. rvFile' = f
    BY <1>1
  <2> HIDE DEF f
  <2>3. /\ rvFile'.total > 0
        /\ \A i \in 0..(rvFile'.total - 1) : ExpectedSize(rvFile', i) > 0
        /\ Total([i \in 0..(rvFile'.total - 1) |-> ExpectedSize(rvFile', i)], 0..(rvFile'.total - 1)) = rvFile'.size
    BY <2>1, <2>2
  <2> QED
    BY <2>3 DEF ChunksCoverFile
<1> QED
  BY <1>1, <1>7 DEF RvInv

\* Whatever size an upload was accepted with and whatever the width of a size
\* is, the chunks InitUpload plans and DecideChunkAcceptance insists on are
\* never empty and together are the file: no subtraction wraps.
THEOREM ChunksCoverFileHolds == RvSpec => []ChunksCoverFile
<1>1. RvInit => RvInv
  BY DEF RvInit, RvInv, ChunksCoverFile
<1>2. RvInv /\ [RvNext]_rvVars => RvInv'
  <2> SUFFICES ASSUME RvInv, [RvNext]_rvVars PROVE RvInv'
    OBVIOUS
  <2>1. CASE UNCHANGED rvVars
    BY <2>1 DEF rvVars, RvInv, ChunksCoverFile, ExpectedSize
  <2>2. CASE RvNext
    BY <2>2, ReadFieldInv, ApplyTestInv, PlanChunksInv DEF RvNext
  <2> QED
    BY <2>1, <2>2
<1>3. RvInv => ChunksCoverFile
  BY DEF RvInv
<1> QED
  BY <1>1, <1>2, <1>3, PTL DEF RvSpec

==============================================================================
