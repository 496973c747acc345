--------------------------- MODULE DesktopSession ---------------------------
(***************************************************************************)
(* The desktop client's sessions: OwnerSessionManager (the account's       *)
(* tokens), VisitorSessionManager (one share's token), SessionStore,       *)
(* AuthService, the signal wiring of Application::Initialize and the       *)
(* shell that ShellController shows; and the managers (drive, share,       *)
(* trash, profile, admin, health) whose calls carry these tokens.  Signals *)
(* are delivered synchronously, so a slot and the cascade of slots it      *)
(* triggers are one step: they are operators on the record desk.  Answers  *)
(* arrive in any order and late.                                           *)
(***************************************************************************)
EXTENDS Integers, FiniteSets

CONSTANTS
    ShareIds,       \* shares a visitor may open
    MaxAuthCalls,   \* bound: requests AuthService sends
    MaxManagerCalls \* bound: requests the managers send

ASSUME DesktopAssumption == MaxAuthCalls \in Nat /\ MaxManagerCalls \in Nat

VARIABLES
    desk,      \* the sessions, the active domain and the shell
    calls,     \* AuthService's requests that have not been answered
    sent,      \* how many it has sent
    pending,   \* managers' requests in m_active_replies
    made,      \* managers' calls so far
    told       \* history: the outcomes that were signalled

sessionVars == <<desk, calls, sent>>
managerVars == <<pending, made, told>>
desktopVars == <<sessionVars, managerVars>>

NoShare == "no share"
SignedIn == {"Active", "Refreshing"}

-----------------------------------------------------------------------------
(* The cascades                                                             *)

\* desk.out collects the AuthService requests a cascade makes.
Sends(w, op, arg) == [w EXCEPT !.out = @ \cup {[op |-> op, arg |-> arg]}]

\* navigateToAdmin or navigateToOwner, by the role.
HomeShell(w) == IF w.own \notin SignedIn THEN "login" ELSE IF w.role = 1 THEN "admin" ELSE "owner"

onOwnerSessionStateChanged(w) ==
    IF w.own \in {"LoggedOut", "ReauthRequired"} THEN [w EXCEPT !.shell = "login"]
    ELSE IF w.own = "Active" /\ w.shell \in {"login", "splash"} THEN [w EXCEPT !.shell = HomeShell(w)]
    ELSE w

onVisitorSessionStateChanged(w) ==
    IF w.vis # "Idle" THEN w
    ELSE IF w.shell = "visitor" THEN [w EXCEPT !.shell = HomeShell(w)]
    ELSE onOwnerSessionStateChanged(w)

VisitorBecomes(w, s) ==
    IF w.vis = s THEN w ELSE onVisitorSessionStateChanged([w EXCEPT !.vis = s])

CloseShare(w) == VisitorBecomes([w EXCEPT !.share = NoShare, !.visitorToken = NoShare], "Idle")

ActivateOwner(w) ==
    [(IF w.domain = "visitor" THEN CloseShare(w) ELSE w) EXCEPT !.domain = "owner"]

\* SetState of the owner: ShellController's slot, then Application's.
OwnerBecomes(w, s) ==
    IF w.own = s THEN w
    ELSE LET shown == onOwnerSessionStateChanged([w EXCEPT !.own = s])
         IN IF s = "Active" THEN ActivateOwner(shown) ELSE shown

\* CompleteLogout of a session whose role is already 0.
LoggedOut(w) == OwnerBecomes([w EXCEPT !.ownerToken = FALSE, !.refreshToken = FALSE], "LoggedOut")

StartLogout(w) ==
    LET p == OwnerBecomes(w, "LogoutPending")
    IN IF p.ownerToken THEN Sends(p, "logout", NoShare) ELSE LoggedOut(p)

\* onOwnerRoleChanged: an administrator's shell is left when the role is gone.
RoleBecomes(w, r) ==
    IF w.role = r THEN w
    ELSE LET c == [w EXCEPT !.role = r]
         IN IF c.shell = "admin" /\ r # 1 THEN StartLogout(c) ELSE c

\* ClearSession: the tokens go first, so the logout a role change starts is local.
ClearSession(w) == RoleBecomes([w EXCEPT !.ownerToken = FALSE, !.refreshToken = FALSE], 0)

CompleteLogout(w) == OwnerBecomes(ClearSession(w), "LoggedOut")
HandleLoginFailure(w) == OwnerBecomes(ClearSession(w), "LoggedOut")
HandleRefreshFailure(w) == OwnerBecomes(ClearSession(w), "ReauthRequired")

\* HandleLoginSuccess and HandleRefreshSuccess: the role out of the new access token,
\* the tokens, Active, whatever the state was.
TokensArrive(w, r) ==
    OwnerBecomes([RoleBecomes(w, r) EXCEPT !.ownerToken = TRUE, !.refreshToken = TRUE], "Active")

HandleVerifySuccess(w, share) == VisitorBecomes([w EXCEPT !.visitorToken = share], "Active")

HandleVerifyFailure_OnlyPassword(w, code) ==
    IF code = "password" THEN VisitorBecomes(w, "Unverified")
    ELSE IF code = "closed" THEN CloseShare(w) ELSE w

\* 60001 and 60002 close the share; a wrong password and any other error ask again.
HandleVerifyFailure(w, code) == IF code = "closed" THEN CloseShare(w) ELSE VisitorBecomes(w, "Unverified")

OpenShare(w, share) == VisitorBecomes([w EXCEPT !.share = share, !.domain = "visitor"], "Unverified")

-----------------------------------------------------------------------------
(* Steps of the sessions                                                    *)

\* The new desk, its requests handed to AuthService.
Goes_(w, left) ==
    /\ sent + Cardinality(w.out) <= MaxAuthCalls
    /\ desk' = [w EXCEPT !.out = {}]
    /\ calls' = left \cup {[op |-> q.op, arg |-> q.arg, n |-> sent + 1] : q \in w.out}
    /\ sent' = sent + Cardinality(w.out)
    /\ UNCHANGED managerVars

\* The login page: StartLogin and Login, one at a time (isBusy).
Login ==
    /\ desk.shell = "login" /\ \A q \in calls : q.op # "login"
    /\ Goes_(Sends(OwnerBecomes(desk, "Authenticating"), "login", NoShare), calls)

\* HandleTokenExpired; a refresh that is under way is not started again.
HandleTokenExpired ==
    /\ desk.own \notin {"LogoutPending", "Refreshing"}
    /\ IF desk.refreshToken
       THEN Goes_(Sends(OwnerBecomes(desk, "Refreshing"), "refresh", NoShare), calls)
       ELSE Goes_(OwnerBecomes(desk, "ReauthRequired"), calls)

Logout ==
    /\ desk.shell \in {"owner", "admin"}
    /\ Goes_(StartLogout(desk), calls)

\* navigateToVisitor from the drive page opens a share.
NavigateToVisitor ==
    /\ desk.shell = "owner"
    /\ \E s \in ShareIds : Goes_([OpenShare(desk, s) EXCEPT !.shell = "visitor"], calls)

NavigateToRegister ==
    /\ desk.shell = "login" /\ \A q \in calls : q.op # "login"
    /\ Goes_([desk EXCEPT !.shell = "register"], calls)

NavigateToLogin ==
    /\ desk.shell = "register"
    /\ Goes_([desk EXCEPT !.shell = "login"], calls)

\* The verify page: StartVerify of the opened share, or of another one first opened.
StartVerify ==
    /\ desk.shell = "visitor" /\ desk.vis = "Unverified"
    /\ \E s \in ShareIds :
          LET w == IF s = desk.share THEN desk ELSE OpenShare(desk, s)
          IN Goes_(Sends(VisitorBecomes(w, "Verifying"), "access", s), calls)

\* The visitor's token timer: the share is verified again.
VisitorTokenExpires ==
    /\ desk.visitorToken # NoShare
    /\ Goes_(Sends(VisitorBecomes([desk EXCEPT !.visitorToken = NoShare], "ReverifyRequired"),
                   "access", desk.share), calls)

LeaveShare == desk.shell = "visitor" /\ Goes_(CloseShare(desk), calls)

\* AuthService parses an answer and emits success or failure.
LoginAnswered(q) ==
    /\ q.op = "login"
    /\ \/ \E r \in {0, 1} : Goes_(TokensArrive(desk, r), calls \ {q})
       \/ Goes_(HandleLoginFailure(desk), calls \ {q})

RefreshAnswered(q) ==
    /\ q.op = "refresh"
    /\ \/ \E r \in {0, 1} : Goes_(TokensArrive(desk, r), calls \ {q})
       \/ Goes_(HandleRefreshFailure(desk), calls \ {q})

\* logoutSuccess and logoutFailure both complete the logout.
LogoutAnswered(q) == q.op = "logout" /\ Goes_(CompleteLogout(desk), calls \ {q})

AccessAnswered(q) ==
    /\ q.op = "access"
    /\ \/ Goes_(HandleVerifySuccess(desk, q.arg), calls \ {q})
       \/ \E code \in {"password", "closed", "other"} : Goes_(HandleVerifyFailure(desk, code), calls \ {q})

-----------------------------------------------------------------------------
(* The managers.  A call is refused locally, or sent and kept in           *)
(* m_active_replies until it finishes; its handler signals the outcome.    *)

DriveReads == {"listFiles", "searchFiles", "loadFolderTree", "loadBreadcrumb", "getFileDetail"}
DriveWrites == {"createFolder", "renameItem", "renameDriveItem", "moveItems", "copyDriveItems",
                "deleteDriveItems"}
ShareCalls == {"listShares", "createShare", "updateShare", "getShareDetail", "cancelShares",
               "browseShare", "saveShareItems"}
TrashCalls == {"listTrash", "restoreItems", "deleteItems", "clearAll"}
ProfileCalls == {"loadProfile", "updateProfile", "changePassword", "loadStorageStats"}
AdminReads == {"ListUsers", "GetUserDetail", "GetGlobalStorageStats", "ListShares", "GetShareDetail",
               "GetOverviewStatsApi", "GetSystemStatusApi", "ListOperationLogs", "GetSystemInfo"}
AdminWrites == {"ChangeUserStatus", "ChangeUserRole", "ChangeUserAvailableSpace", "SoftDeleteUser",
                "ForceCancelShare"}
HealthCalls == {"checkHealth"}
ManagerCalls == DriveReads \cup DriveWrites \cup ShareCalls \cup TrashCalls \cup ProfileCalls
                    \cup AdminReads \cup AdminWrites \cup HealthCalls

\* Answered without a request: the drive refuses a call without usable ids, and the
\* breadcrumb of the root is known.
Local(c) == c \in {"createFolder", "renameDriveItem", "moveItems", "copyDriveItems",
                   "deleteDriveItems", "loadBreadcrumb"}

ManagerCall(c) ==
    /\ made < MaxManagerCalls /\ made' = made + 1
    /\ \/ Local(c) /\ told' = [told EXCEPT ![IF c = "loadBreadcrumb" THEN "done" ELSE "apiError"] = @ + 1]
                  /\ pending' = pending
       \/ pending' = pending \cup {[call |-> c, n |-> made]} /\ told' = told
    /\ UNCHANGED sessionVars

\* What a handler signals.  An answer is a failed request ("failed"), a body that is not
\* JSON ("garbled"), a body with an error code ("code") or the result ("ok"); the
\* handlers differ in which of them they look at.
SignalledIf(error) == IF error THEN "apiError" ELSE "done"

\* The list and the writes check the code; details, tree and breadcrumb take the body.
DriveReadOutcome(c, ans) ==
    SignalledIf(ans \in {"failed", "garbled"} \/ (ans = "code" /\ c \in {"listFiles", "searchFiles"}))
DriveWriteOutcome(c, ans) == SignalledIf(ans # "ok")
\* updateShare does not read the body, and only saveShareItems checks the code.
ShareOutcome(c, ans) ==
    SignalledIf(\/ ans = "failed" \/ (ans = "garbled" /\ c # "updateShare")
                \/ (ans = "code" /\ c = "saveShareItems"))
TrashOutcome(c, ans) == SignalledIf(ans \in {"failed", "garbled"})
ProfileOutcome(c, ans) ==
    SignalledIf(\/ ans = "failed" \/ (ans = "garbled" /\ c # "updateProfile")
                \/ (ans = "code" /\ c = "changePassword"))
AdminReadOutcome(c, ans) == SignalledIf(ans # "ok")
AdminWriteOutcome(c, ans) == SignalledIf(ans # "ok")
\* A 503 that carries the health body is a result here.
HealthOutcome(c, ans) == SignalledIf(ans # "ok")

Signalled(c, ans) ==
    IF c \in DriveReads THEN DriveReadOutcome(c, ans)
    ELSE IF c \in DriveWrites THEN DriveWriteOutcome(c, ans)
    ELSE IF c \in ShareCalls THEN ShareOutcome(c, ans)
    ELSE IF c \in TrashCalls THEN TrashOutcome(c, ans)
    ELSE IF c \in ProfileCalls THEN ProfileOutcome(c, ans)
    ELSE IF c \in AdminReads THEN AdminReadOutcome(c, ans)
    ELSE IF c \in AdminWrites THEN AdminWriteOutcome(c, ans)
    ELSE HealthOutcome(c, ans)

ManagerReply ==
    /\ \E q \in pending, ans \in {"ok", "code", "garbled", "failed"} :
          /\ pending' = pending \ {q}
          /\ told' = [told EXCEPT ![Signalled(q.call, ans)] = @ + 1]
    /\ UNCHANGED <<made, sessionVars>>

-----------------------------------------------------------------------------

DesktopInit ==
    /\ desk = [own |-> "LoggedOut", role |-> 0, ownerToken |-> FALSE, refreshToken |-> FALSE,
               vis |-> "Idle", share |-> NoShare, visitorToken |-> NoShare, domain |-> "",
               shell |-> "login", out |-> {}]
    /\ calls = {} /\ sent = 0 /\ pending = {} /\ made = 0
    /\ told = [o \in {"apiError", "done"} |-> 0]

AuthAnswered ==
    \E q \in calls : LoginAnswered(q) \/ RefreshAnswered(q) \/ LogoutAnswered(q) \/ AccessAnswered(q)

SessionNext ==
    \/ Login \/ HandleTokenExpired \/ Logout \/ NavigateToVisitor \/ NavigateToRegister
    \/ NavigateToLogin \/ StartVerify \/ VisitorTokenExpires \/ LeaveShare \/ AuthAnswered

ManagerNext == (\E c \in ManagerCalls : ManagerCall(c)) \/ ManagerReply

DesktopSpec == DesktopInit /\ [][SessionNext \/ ManagerNext]_desktopVars

-----------------------------------------------------------------------------
(* Properties                                                               *)

\* A state that waits for the server has a request under way that will end it: a session
\* never stays "Refreshing", "LogoutPending", "Verifying"... with nobody to answer.
PendingHasAnswer ==
    /\ desk.own = "Authenticating" => \E q \in calls : q.op = "login"
    /\ desk.own = "Refreshing" => \E q \in calls : q.op = "refresh"
    /\ desk.own = "LogoutPending" => \E q \in calls : q.op = "logout"
    /\ desk.vis \in {"Verifying", "ReverifyRequired"} => \E q \in calls : q.op = "access"

\* Signed out, no request carries the account's token any more, whatever was late.
SignedOutHasNoToken == desk.own \in {"LoggedOut", "ReauthRequired"} => ~desk.ownerToken /\ desk.role = 0

\* The drive and the administration are shown to a session only: no order of logouts,
\* failures and late answers leaves their shell up behind the login.
OwnerShellNeedsSession ==
    desk.shell \in {"owner", "admin"} => desk.own \in SignedIn \cup {"LogoutPending"}

\* Every call of a manager that has ended was told to the page, once.
OutcomePerCall == made = told.apiError + told.done + Cardinality(pending)

\* The client's sessions under answers that are late, lost or out of order: no
\* state waits for nobody, nothing of an account is left when it is signed out,
\* and every call is answered once (OwnerSessionManager, VisitorSessionManager,
\* ShellController and the managers).
DeskConsistent ==
    PendingHasAnswer /\ SignedOutHasNoToken /\ OwnerShellNeedsSession /\ OutcomePerCall

=============================================================================
