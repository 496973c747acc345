----------------------------- MODULE RequestGate -----------------------------
(***************************************************************************)
(* What every HTTP request passes before a service sees it: the global     *)
(* filters of the configuration, the filters its route declares, and the   *)
(* controller's handler, which parses the request and reads the attributes *)
(* the filters have set.  The filters of several instances count requests  *)
(* in Redis, in windows of fixed length; a counter that cannot be reached  *)
(* lets the request pass.                                                  *)
(*                                                                         *)
(* A request is a program: the names of its filters and of its handler's   *)
(* steps, one step at a time.  Paths are route names; subjects are users,  *)
(* share tokens and addresses; responses are left out but for whether the  *)
(* request was answered by a filter or served.                             *)
(***************************************************************************)
EXTENDS Naturals, Sequences, FiniteSets

CONSTANTS
    Routes,         \* the routes that are called, among those of the tables below
    GateUsers,      \* users; Anonymous sends no access token
    Anonymous,
    AdminUsers,     \* users whose token carries role 1
    GateRequests,
    Limit,          \* requests of one subject in a window
    Window,         \* seconds of a window
    MaxSecond       \* the clock's bound

ASSUME GateAssumption ==
    /\ Anonymous \notin GateUsers /\ AdminUsers \subseteq GateUsers
    /\ Limit \in Nat /\ MaxSecond \in Nat /\ Window \in Nat \ {0}
    /\ IsFiniteSet(GateRequests)

VARIABLES
    second,     \* the clock
    counter,    \* Redis: key |-> [count, exp]
    greq        \* the requests

gateVars == <<second, counter, greq>>

-----------------------------------------------------------------------------
(* The filters of the routes: METHOD_LIST of each controller, after the     *)
(* filters that are in front of every route.                                *)

GlobalFilters == <<"Jwt", "RegisterLimit">>

Behind(filters, routes) == [r \in routes |-> filters]

\* One table of several.
Joined(tables) ==
    [r \in UNION {DOMAIN t : t \in tables} |-> (CHOOSE t \in tables : r \in DOMAIN t)[r]]

AdminFilters == <<"AdminAuth", "AdminLimit">>

FileFilters ==
    Joined({Behind(<<"UploadLimit">>, {"upload_init", "upload_chunk", "upload_complete", "upload_cancel"}),
            Behind(<<"DownloadLimit">>, {"download_info", "download"}),
            Behind(<<>>, {"file_list", "file_detail", "file_rename", "file_move", "file_copy",
                     "file_delete", "file_search"})})
FolderFilters ==
    Behind(<<"FolderLimit">>, {"folder_create", "folder_tree", "folder_breadcrumb", "folder_rename"})
TrashFilters == Behind(<<"ApiLimit">>, {"trash_list", "trash_restore", "trash_delete", "trash_empty"})
UserFilters  == Behind(<<>>, {"profile", "profile_update", "password", "storage"})
AuthFilters  == Behind(<<>>, {"register", "login", "refresh", "logout"})
AdminRouteFilters ==
    Behind(AdminFilters, {"admin_users", "admin_user", "admin_status", "admin_role", "admin_space",
                          "admin_delete", "admin_stats", "admin_shares", "admin_share",
                          "admin_cancel", "admin_overview", "admin_system", "admin_logs",
                          "admin_cleanup"})
RecoveryFilters   == Behind(AdminFilters, {"lease_release", "cleanup_rebuild", "enqueue_scan"})
StorageJobFilters == Behind(AdminFilters, {"job_list", "job", "job_replay"})
DiagnosticFilters == Behind(AdminFilters, {"diagnostics"})
ShareFilters ==
    Joined({Behind(<<>>, {"share_create", "share_list", "share_detail", "share_update", "share_cancel"}),
            Behind(<<"ShareAccessLimit">>, {"share_access"}),
            Behind(<<"ShareAuth", "ShareLimit">>, {"share_browse", "share_info", "share_download", "share_save"})})
OpenFilters == Behind(<<>>, {"logs", "system_info", "health", "live", "ready", "metrics"})

RouteFilters ==
    Joined({FileFilters, FolderFilters, TrashFilters, UserFilters, AuthFilters,
            AdminRouteFilters, RecoveryFilters, StorageJobFilters, DiagnosticFilters,
            ShareFilters, OpenFilters})

-----------------------------------------------------------------------------
(* The handlers: what each reads of the request, in which order, before it  *)
(* calls its service.                                                       *)

Doing(steps, routes) == [r \in routes |-> steps]
ParseFirst == <<"parse", "user", "call">>
UserFirst  == <<"user", "parse", "call">>

UploadHandlers ==
    Joined({Doing(ParseFirst, {"upload_init"}),
            Doing(UserFirst, {"upload_chunk"})})
UploadEndHandlers    == Doing(ParseFirst, {"upload_complete", "upload_cancel"})
FileHandlers         == Doing(ParseFirst, {"file_list", "file_detail", "download_info"})
DownloadHandler      == Doing(ParseFirst, {"download"})
FileMutationHandlers == Doing(ParseFirst, {"file_rename", "file_move", "file_copy"})
FileRemovalHandlers  == Doing(ParseFirst, {"file_delete", "file_search"})
FolderHandlers       == Doing(ParseFirst, {"folder_create", "folder_tree", "folder_breadcrumb"})
FolderRenameHandler  == Doing(ParseFirst, {"folder_rename"})
TrashHandlers ==
    Joined({Doing(UserFirst, {"trash_list", "trash_restore", "trash_delete"}),
            Doing(<<"user", "call">>, {"trash_empty"})})
UserHandlers ==
    Joined({Doing(<<"user", "call">>, {"profile", "storage"}),
            Doing(UserFirst, {"password", "profile_update"})})
\* Numbers that cannot be read have defaults: nothing is refused.
LogHandler           == Doing(<<"user", "call">>, {"logs"})
SystemHandler        == Doing(<<"user", "call">>, {"system_info"})
\* Logout reads the header again before the attribute.
AuthHandlers ==
    Joined({Doing(<<"parse", "call">>, {"register", "login", "refresh"}),
            Doing(ParseFirst, {"logout"})})
AdminUserHandlers ==
    Joined({Doing(<<"parse", "call">>, {"admin_users", "admin_user"}),
            Doing(UserFirst, {"admin_status"})})
AdminChangeHandlers  == Doing(UserFirst, {"admin_role", "admin_space", "admin_delete"})
AdminShareHandlers ==
    Joined({Doing(<<"user", "call">>, {"admin_stats"}),
            Doing(ParseFirst, {"admin_shares", "admin_share"}),
            Doing(UserFirst, {"admin_cancel"})})
AdminStatusHandlers ==
    Joined({Doing(<<"call">>, {"admin_overview", "admin_system", "admin_cleanup"}),
            Doing(<<"parse", "call">>, {"admin_logs"})})
RecoveryHandlers     == Doing(ParseFirst, {"lease_release", "cleanup_rebuild", "enqueue_scan"})
StorageJobHandlers ==
    Joined({Doing(<<"parse", "call">>, {"job_list", "job"}),
            Doing(ParseFirst, {"job_replay"})})
DiagnosticHandler    == Doing(<<"parse", "call">>, {"diagnostics"})
ShareOwnerHandlers   == Doing(ParseFirst, {"share_create", "share_list", "share_detail",
                                           "share_update", "share_cancel"})
ShareVisitorHandlers ==
    Joined({Doing(<<"parse", "access">>, {"share_access"}),
            Doing(<<"parse", "share", "call">>, {"share_browse", "share_info"})})
ShareContentHandlers ==
    Joined({Doing(<<"parse", "share", "call">>, {"share_download"}),
            Doing(<<"parse", "user", "share", "call">>, {"share_save"})})
HealthHandlers       == Doing(<<"call">>, {"health", "live", "ready"})
MetricsHandler       == Doing(<<"call">>, {"metrics"})

Handlers ==
    Joined({UploadHandlers, UploadEndHandlers, FileHandlers, DownloadHandler,
            FileMutationHandlers, FileRemovalHandlers, FolderHandlers,
            FolderRenameHandler, TrashHandlers, UserHandlers, LogHandler, SystemHandler,
            AuthHandlers, AdminUserHandlers, AdminChangeHandlers, AdminShareHandlers,
            AdminStatusHandlers, RecoveryHandlers, StorageJobHandlers,
            DiagnosticHandler, ShareOwnerHandlers, ShareVisitorHandlers,
            ShareContentHandlers, HealthHandlers, MetricsHandler})

Program(route) == GlobalFilters \o RouteFilters[route] \o Handlers[route]

\* Only routes of the tables are called.
ASSUME RouteAssumption == Routes \subseteq DOMAIN RouteFilters \cap DOMAIN Handlers

VisitorRoutes == {"share_access", "share_browse", "share_info", "share_download", "share_save"}
OpenRoutes    == {"register", "login", "refresh", "health", "live", "ready", "metrics"}

\* IsPublicPath of JwtAuthFilter.
IsPublicPath_AnyShare(route) == route \in OpenRoutes \cup VisitorRoutes
IsPublicPath(route) == route \in OpenRoutes \cup (VisitorRoutes \ {"share_save"})

-----------------------------------------------------------------------------
(* Arrival.  A request carries an access token or not, and a share token   *)
(* with a scope or not, which only visitors' routes look at; all come from *)
(* one address.                                                            *)

GateInit ==
    /\ second = 0
    /\ counter = [k \in {} |-> 0]
    /\ greq = [r \in GateRequests |-> [pc |-> "unsent"]]

Arrive(r, route, u, scope) ==
    /\ greq[r].pc = "unsent"
    /\ scope # "none" => route \in VisitorRoutes
    /\ greq' = [greq EXCEPT ![r] =
          [pc |-> "running", route |-> route, sender |-> u, scope |-> scope, rest |-> Program(route),
           attrs |-> {}, missing |-> {}, key |-> <<>>, passed |-> {}, blocked |-> {}]]
    /\ UNCHANGED <<second, counter>>

Head_(r) == IF greq[r].pc = "running" THEN Head(greq[r].rest) ELSE "none"

Answers(r, end) == greq' = [greq EXCEPT ![r].pc = end, ![r].rest = <<>>, ![r].attrs = {}]
Passes_(r, q)   == greq' = [greq EXCEPT ![r] = [q EXCEPT !.rest = Tail(@)]]
Leaves(r)       == Passes_(r, greq[r])

-----------------------------------------------------------------------------
(* Filters that identify the sender.                                       *)

\* A missing, malformed, expired or revoked token is answered with 401.
JwtFilter(r) ==
    /\ Head_(r) = "Jwt"
    /\ \/ IsPublicPath(greq[r].route) /\ Leaves(r)
       \/ /\ ~IsPublicPath(greq[r].route) /\ greq[r].sender # Anonymous
          /\ Passes_(r, [greq[r] EXCEPT !.attrs = @ \cup {"user"}])
       \/ ~IsPublicPath(greq[r].route) /\ Answers(r, "refused")
    /\ UNCHANGED <<second, counter>>

AdminAuthFilter(r) ==
    /\ Head_(r) = "AdminAuth"
    /\ IF greq[r].sender \in AdminUsers THEN Leaves(r) ELSE Answers(r, "refused")
    /\ UNCHANGED <<second, counter>>

\* VerifyShareTokenWithRedis may fail; downloads and saves need the scope.
ShareTokenFilter(r) ==
    /\ Head_(r) = "ShareAuth"
    /\ \/ /\ greq[r].scope # "none"
          /\ greq[r].route \in {"share_info", "share_download", "share_save"} => greq[r].scope = "download"
          /\ Passes_(r, [greq[r] EXCEPT !.attrs = @ \cup {"share"}])
       \/ Answers(r, "refused")
    /\ UNCHANGED <<second, counter>>

-----------------------------------------------------------------------------
(* Filters that count.  Each yields the key of a request, or nothing.      *)

GetFixedWindowStart == (second \div Window) * Window

UserKey(r, family) ==
    IF "user" \in greq[r].attrs THEN {<<family, greq[r].sender, GetFixedWindowStart>>} ELSE {}

ApiLimitKey(r)      == UserKey(r, "api")
UploadLimitKey(r)   == UserKey(r, "upload")
DownloadLimitKey(r) == UserKey(r, "download")
FolderLimitKey(r)   == UserKey(r, "folder")
AdminLimitKey(r)    == UserKey(r, "admin")
RegisterLimitKey(r) ==
    IF greq[r].route = "register" THEN {<<"register", "address", GetFixedWindowStart>>} ELSE {}
ShareAccessLimitKey(r) == {<<"access", "address", GetFixedWindowStart>>}

\* Browse and download have counters of their own, per share token.
ShareOperationLimitKey(r) ==
    IF "share" \notin greq[r].attrs THEN {}
    ELSE IF greq[r].route = "share_browse" THEN {<<"browse", greq[r].scope, GetFixedWindowStart>>}
    ELSE {<<"share_download", greq[r].scope, GetFixedWindowStart>>}

LimitKey(r) ==
    CASE Head_(r) = "ApiLimit"         -> ApiLimitKey(r)
      [] Head_(r) = "UploadLimit"      -> UploadLimitKey(r)
      [] Head_(r) = "DownloadLimit"    -> DownloadLimitKey(r)
      [] Head_(r) = "FolderLimit"      -> FolderLimitKey(r)
      [] Head_(r) = "AdminLimit"       -> AdminLimitKey(r)
      [] Head_(r) = "RegisterLimit"    -> RegisterLimitKey(r)
      [] Head_(r) = "ShareAccessLimit" -> ShareAccessLimitKey(r)
      [] Head_(r) = "ShareLimit"       -> ShareOperationLimitKey(r)

Limits == {"ApiLimit", "UploadLimit", "DownloadLimit", "FolderLimit", "AdminLimit", "RegisterLimit",
           "ShareAccessLimit", "ShareLimit"}

\* The window is computed before the counter is called.
LimitStart(r) ==
    /\ Head_(r) \in Limits /\ greq[r].key = <<>>
    /\ IF LimitKey(r) = {} THEN Leaves(r)
       ELSE \E k \in LimitKey(r) : greq' = [greq EXCEPT ![r].key = k]
    /\ UNCHANGED <<second, counter>>

\* IncrWithExpire: INCR, and EXPIRE when the key is new, in one script.
IncrCount(k) == IF k \in DOMAIN counter /\ counter[k].exp > second THEN counter[k].count + 1 ELSE 1
IncrExpire(k) == IF IncrCount(k) = 1 THEN second + Window ELSE counter[k].exp
IncrWithExpire(k) ==
    counter' = [x \in DOMAIN counter \cup {k} |->
                  IF x = k THEN [count |-> IncrCount(k), exp |-> IncrExpire(k)] ELSE counter[x]]

OverLimit(n) == n > Limit

\* The counter answers, or fails, before or after it counted.
LimitCount(r) ==
    /\ Head_(r) \in Limits /\ greq[r].key # <<>>
    /\ LET k == greq[r].key
           q == [greq[r] EXCEPT !.key = <<>>]
       IN \/ /\ IncrWithExpire(k)
             /\ IF OverLimit(IncrCount(k))
                THEN greq' = [greq EXCEPT ![r] = [q EXCEPT !.pc = "refused", !.rest = <<>>, !.attrs = {}, !.blocked = {k}]]
                ELSE Passes_(r, [q EXCEPT !.passed = {[key |-> k, at |-> second]}])
          \/ Passes_(r, q) /\ UNCHANGED counter
          \/ Passes_(r, q) /\ IncrWithExpire(k)
    /\ UNCHANGED second

-----------------------------------------------------------------------------
(* Handlers.                                                               *)

Parse(r) ==
    /\ Head_(r) = "parse"
    /\ Leaves(r) \/ Answers(r, "refused")
    /\ UNCHANGED <<second, counter>>

\* attributes()->get yields 0 or an empty string for what no filter has set.
ReadAttribute(r) ==
    /\ Head_(r) \in {"user", "share"}
    /\ Passes_(r, [greq[r] EXCEPT !.missing = IF Head_(r) \in greq[r].attrs THEN @ ELSE @ \cup {Head_(r)}])
    /\ UNCHANGED <<second, counter>>

\* The share of the token is not the one of the path.
ShareMismatch(r) ==
    /\ Head_(r) = "share"
    /\ Answers(r, "refused")
    /\ UNCHANGED <<second, counter>>

Serve(r) ==
    /\ Head_(r) = "call"
    /\ Answers(r, "served")
    /\ UNCHANGED <<second, counter>>

\* ShareService::Access; a wrong password or code is counted from the first
\* failure on (HandleFailedShareAccess), the right one never is.
FailureKey == <<"password", "address", 0>>

ShareAccess(r) ==
    /\ Head_(r) = "access"
    /\ \/ Answers(r, "served") /\ UNCHANGED counter
       \/ Answers(r, "refused") /\ IncrWithExpire(FailureKey)
       \/ Answers(r, "refused") /\ UNCHANGED counter
    /\ UNCHANGED second

SecondPasses ==
    /\ second < MaxSecond
    /\ second' = second + 1
    /\ UNCHANGED <<counter, greq>>

GateNext ==
    \/ SecondPasses
    \/ \E r \in GateRequests :
        \/ \E route \in Routes, u \in GateUsers \cup {Anonymous}, s \in {"none", "view", "download"} :
              Arrive(r, route, u, s)
        \/ JwtFilter(r) \/ AdminAuthFilter(r) \/ ShareTokenFilter(r)
        \/ LimitStart(r) \/ LimitCount(r)
        \/ Parse(r) \/ ReadAttribute(r) \/ ShareMismatch(r) \/ Serve(r) \/ ShareAccess(r)

GateSpec == GateInit /\ [][GateNext]_gateVars

-----------------------------------------------------------------------------
(* Properties                                                              *)

Sent == {r \in GateRequests : greq[r].pc # "unsent"}

GateTypeOK ==
    /\ second \in 0..MaxSecond
    /\ \A k \in DOMAIN counter : counter[k].count \in 1..Cardinality(GateRequests)
    /\ \A r \in Sent : /\ greq[r].pc \in {"running", "refused", "served"}
                       /\ greq[r].pc = "running" => greq[r].rest # <<>>

\* A handler never works with an identity no filter has established: what it
\* reads from the attributes was put there by the filters of its own route.
IdentityEstablished == \A r \in Sent : greq[r].missing = {}

\* Counted in the window its key was made in.
OnTime(p) == p.key[3] = (p.at \div Window) * Window

\* In one window a subject passes a limit at most Limit times, on whichever
\* instances, not counting requests that were held up past the window's end.
LimitPerWindow ==
    \A r \in Sent : \A p \in greq[r].passed :
        Cardinality({s \in Sent : \E x \in greq[s].passed : x.key = p.key /\ OnTime(x)}) <= Limit

\* A request is turned away only for the traffic of its own subject and kind.
RefusedForOwnTraffic ==
    \A r \in Sent : \A k \in greq[r].blocked :
        Cardinality({s \in Sent \ {r} :
            /\ k[2] \in {greq[s].sender, greq[s].scope, "address"}
            /\ greq[s].route = "share_browse" <=> greq[r].route = "share_browse"}) >= Limit

\* The gate lets a request through as itself and within its limits, and turns
\* it away for nobody else's traffic (the filters and CheckFixedWindowLimit).
GateSound == GateTypeOK /\ IdentityEstablished /\ LimitPerWindow /\ RefusedForOwnTraffic

=============================================================================
