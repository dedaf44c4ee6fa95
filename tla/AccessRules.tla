-------------------------------- MODULE AccessRules --------------------------------
(***************************************************************************)
(* Who may do what: the permissions of roles and of routes                 *)
(* (PermissionsGuard), the role hierarchy of team management, the          *)
(* locations a membership is restricted to, and what the web application's *)
(* team pages offer.                                                       *)
(*                                                                         *)
(* Roles other than AllRoles, of somebody without a membership in the      *)
(* organization, have no permissions.                                      *)
(***************************************************************************)

AllRoles == {"OWNER", "MANAGER", "CASHIER", "SUPPORT", "INVENTORY_CLERK"}

--------------------------------------------------------------------------------
(* Permissions *)

Reading  == {"CUSTOMERS_READ", "PRODUCTS_READ", "ORDERS_READ", "PAYMENTS_READ", "INVENTORY_READ", "LOCATIONS_READ"}
Counting == {"INVENTORY_ADJUST", "INVENTORY_COUNT"}
Selling  == {"CUSTOMERS_CREATE", "CUSTOMERS_UPDATE", "ORDERS_CREATE", "ORDERS_UPDATE",
             "ORDERS_TRANSITION_CONFIRM", "ORDERS_TRANSITION_FULFILL", "PAYMENTS_CREATE"}
Managing == {"CUSTOMERS_DELETE", "PRODUCTS_CREATE", "PRODUCTS_UPDATE", "PRODUCTS_ARCHIVE", "ORDERS_DELETE",
             "ORDERS_TRANSITION_CANCEL", "ORDERS_TRANSITION_REOPEN", "PAYMENTS_REFUND",
             "LOCATIONS_CREATE", "LOCATIONS_UPDATE", "LOCATIONS_ARCHIVE",
             "USERS_READ", "USERS_INVITE", "AUDIT_LOGS_READ", "REPORTS_READ"}

Permissions ==
  Reading \cup Counting \cup Selling \cup Managing
    \cup {"LOCATIONS_DELETE", "USERS_MANAGE", "ROLES_MANAGE", "SETTINGS_MANAGE"}

\* The wildcard of OWNER is every permission.
ROLE_PERMISSIONS ==
  [OWNER           |-> Permissions,
   MANAGER         |-> Reading \cup Counting \cup Selling \cup Managing,
   CASHIER         |-> Reading \cup Selling,
   SUPPORT         |-> Reading,
   INVENTORY_CLERK |-> {"PRODUCTS_READ", "INVENTORY_READ", "LOCATIONS_READ"} \cup Counting]

Holds(role) == IF role \in AllRoles THEN ROLE_PERMISSIONS[role] ELSE {}

\* hasPermission, and canActivate: a route that declares nothing is closed to everybody.
hasPermission(role, permission) == permission \in Holds(role)

canActivate(role, required, requiredAny) ==
  /\ role \in AllRoles
  /\ required # {} \/ requiredAny # {}
  /\ role # "OWNER" => /\ required \subseteq Holds(role)
                       /\ requiredAny # {} => requiredAny \cap Holds(role) # {}

\* The routes under /team that change something, those that read, and the dashboard.
MayManageTeam(role)    == canActivate(role, {}, {"USERS_INVITE", "USERS_MANAGE"})
MayReadTeam(role)      == canActivate(role, {"USERS_READ"}, {})
MayReadDashboard(role) ==
  canActivate(role, {"ORDERS_READ", "CUSTOMERS_READ", "INVENTORY_READ", "REPORTS_READ"}, {})

\* transitionStatus: any transition permission opens the route, the target decides.
TRANSITION_PERMISSION ==
  [CONFIRMED |-> "ORDERS_TRANSITION_CONFIRM", FULFILLED |-> "ORDERS_TRANSITION_FULFILL",
   CANCELLED |-> "ORDERS_TRANSITION_CANCEL", PENDING |-> "ORDERS_TRANSITION_REOPEN"]

MayTransition(role, toStatus) ==
  /\ canActivate(role, {}, {TRANSITION_PERMISSION[s] : s \in DOMAIN TRANSITION_PERMISSION})
  /\ hasPermission(role, TRANSITION_PERMISSION[toStatus])

--------------------------------------------------------------------------------
(* The hierarchy *)

ROLE_TIER ==
  [OWNER |-> 1, MANAGER |-> 2, CASHIER |-> 3, SUPPORT |-> 3, INVENTORY_CLERK |-> 3]

\* Tiers are compared as the 1, 2 and 3 they are.
Above(actor, target) ==
  \/ ROLE_TIER[actor] = 1 /\ ROLE_TIER[target] # 1
  \/ ROLE_TIER[actor] = 2 /\ ROLE_TIER[target] = 3

canAssignRole(actor, target) == actor = "OWNER" \/ Above(actor, target)

canManageMember(actor, target, allowSameTierOwner) ==
  IF actor = "OWNER" THEN target # "OWNER" \/ allowSameTierOwner ELSE Above(actor, target)

\* updateMemberRole: an owner may be demoted by another owner.
TakesOwner(target, newRole) == target = "OWNER" /\ newRole # "OWNER"

MayChangeRole(actor, target, newRole) ==
  canManageMember(actor, target, TakesOwner(target, newRole)) /\ canAssignRole(actor, newRole)

\* deactivateMember and reactivateMember.
AnyoneMayDeactivate(actor, target) == actor \in AllRoles                \* mutated form
MayDeactivate(actor, target) ==
  IF target = "OWNER" THEN actor = "OWNER" ELSE canManageMember(actor, target, FALSE)

MayResend(actor, target) == actor = "OWNER" \/ canManageMember(actor, target, FALSE)

MayEdit(actor, target, isMe) == isMe \/ canManageMember(actor, target, FALSE)

--------------------------------------------------------------------------------
(* Locations *)

\* serializeJwtMembership: a membership without locations has all of them.
ScopeOf(ids) == [hasAllLocations |-> ids = {}, allowedLocationIds |-> ids]

\* getLocationScopeWhere, of all locations there are.
Visible(scope, locations) ==
  IF scope.hasAllLocations THEN locations ELSE locations \cap scope.allowedLocationIds

\* resolveScopedLocationIds: what a membership is given, nothing when the request is refused.
Resolved(scope, requested, active) ==
  LET scopedIds == IF requested # {} THEN requested
                   ELSE IF scope.hasAllLocations THEN {} ELSE scope.allowedLocationIds
  IN  IF scopedIds \subseteq Visible(scope, active) THEN {scopedIds} ELSE {}

--------------------------------------------------------------------------------
(* What the web application offers *)

canAccessTeam(role)      == role \in {"OWNER", "MANAGER"}
canAccessDashboard(role) == role \in {"OWNER", "MANAGER"}

canEditMemberProfile(role, isMe, target) == isMe \/ role = "OWNER" \/ Above(role, target)

canDeactivateMember(role, isMe, target, status) ==
  status # "DEACTIVATED" /\ ~isMe /\ (role = "OWNER" \/ Above(role, target))

\* The member sheet's role selection and button.
OffersRole(role, isMe, target, newRole) ==
  /\ ~isMe /\ (role = "OWNER" \/ Above(role, target))
  /\ canAssignRole(role, newRole) /\ newRole # target
================================================================================
