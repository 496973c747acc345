------------------------------ MODULE MCRequests ------------------------------
(***************************************************************************)
(* What a request goes through, for TLC, side by side: filters and rate    *)
(* limits, the parsing of requests, accounts with their tokens, and the    *)
(* session and the calls of the desktop client.  A behaviour plays one     *)
(* scene and leaves the variables of the other components alone.           *)
(***************************************************************************)
EXTENDS RequestGate, RequestValidation, Accounts, DesktopSession, TLC

CONSTANTS g1, g2

VARIABLE scene
requestVars == <<scene, gateVars, rvVars, accountVars, desktopVars>>

RequestInit ==
    /\ scene \in {"routes", "limits", "forms", "accounts", "desktop", "managers"}
    /\ GateInit /\ RvInit /\ AccountInit /\ DesktopInit
    /\ scene # "forms" => rvForm = "Login"

MCRoutes == DOMAIN RouteFilters

\* One request on any route, and two requests on routes that share counters.
Contended == {"share_browse", "share_save"}
GateScene ==
    /\ \/ scene = "routes" /\ GateNext /\ greq'[g2].pc = "unsent"
       \/ /\ scene = "limits" /\ GateNext
          /\ \A r \in GateRequests : greq'[r].pc # "unsent" => greq'[r].route \in Contended
    /\ UNCHANGED <<scene, rvVars, accountVars, desktopVars>>
FormScene ==
    /\ scene = "forms" /\ RvNext
    /\ UNCHANGED <<scene, gateVars, accountVars, desktopVars>>
AccountScene ==
    /\ scene = "accounts" /\ AccountNext
    /\ UNCHANGED <<scene, gateVars, rvVars, desktopVars>>
DesktopScene ==
    /\ \/ scene = "desktop" /\ SessionNext
       \/ scene = "managers" /\ ManagerNext
    /\ UNCHANGED <<scene, gateVars, rvVars, accountVars>>

RequestSpec ==
    RequestInit /\ [][GateScene \/ FormScene \/ AccountScene \/ DesktopScene]_requestVars

Interchangeable == Permutations(Calls) \cup Permutations(Instances)

===============================================================================
