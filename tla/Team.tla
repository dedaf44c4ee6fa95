---------------------------------- MODULE Team ----------------------------------
(***************************************************************************)
(* The memberships of one organization: invitations, roles, deactivation   *)
(* (TeamService), with the access tokens that say who asks.                *)
(*                                                                         *)
(* A request reads rows, checks them and writes later; other requests      *)
(* commit in between.  As in Inventory the ghost field stale of a request  *)
(* says that something it read has been changed since, and tainted names   *)
(* the memberships stale requests have written.                            *)
(*                                                                         *)
(* One user per membership.  Who may ask for what is in AccessRules.       *)
(***************************************************************************)
EXTENDS AccessRules, Integers, FiniteSetsExt

CONSTANTS
  Slots,       \* requests that may be open at the same time
  Members,     \* users of the organization, now or later
  Founders,    \* members at the start: active owners
  Elsewhere,   \* users whom another organization may make a member too, and end it
  Roles,       \* roles that are handed out
  MaxTokens    \* bound: invitations ever sent

ASSUME RolesAssumption == Roles \subseteq AllRoles
ASSUME MembersAssumption ==
  Founders \subseteq Members /\ Elsewhere \subseteq Members /\ Founders # {} /\ "OWNER" \in Roles
ASSUME TokensAssumption == MaxTokens \in Nat

VARIABLES
  status,      \* Membership.status, "NONE" without a membership
  role,        \* Membership.role
  password,    \* User.passwordHash is set
  invites,     \* InviteToken rows: the membership; "SPENT" when accepted or replaced by a newer one
  claims,      \* role in the user's access token; "OTHER": not of this organization
  req,         \* the open request of each slot
  tainted      \* ghost: what requests with stale reads have written

vars == <<status, role, password, invites, claims, req, tainted>>
rows == <<status, role, password, invites>>

Tokens   == 1..MaxTokens
Statuses == {"NONE", "INVITED", "ACTIVE", "DEACTIVATED"}
Unsent   == [member |-> "none", is |-> "UNSENT"]
Idle     == [op |-> "idle", stage |-> "read", byOwner |-> FALSE, target |-> "none", newRole |-> "NONE",
             isNew |-> FALSE, activates |-> FALSE, seen |-> {}, stale |-> FALSE]

TypeOK ==
  /\ status \in [Members -> Statuses]
  /\ role \in [Members -> Roles \cup {"NONE"}] /\ \A m \in Members : role[m] = "NONE" <=> status[m] = "NONE"
  /\ password \in [Members -> BOOLEAN]
  /\ invites \in [Tokens -> [member: Members \cup {"none"}, is: {"UNSENT", "VALID", "EXPIRED", "SPENT"}]]
  /\ claims \in [Members -> Roles \cup {"NONE", "OTHER"}]
  /\ req \in [Slots ->
       [op: {"idle", "invite", "role", "deactivate", "reactivate", "resend", "accept"},
        stage: {"read", "uncounted", "counted", "begun"}, byOwner: BOOLEAN, target: Members \cup {"none"},
        newRole: Roles \cup {"NONE"}, isNew: BOOLEAN, activates: BOOLEAN, seen: SUBSET Tokens, stale: BOOLEAN]]

Init ==
  /\ status = [m \in Members |-> IF m \in Founders THEN "ACTIVE" ELSE "NONE"]
  /\ role = [m \in Members |-> IF m \in Founders THEN "OWNER" ELSE "NONE"]
  /\ password = [m \in Members |-> m \in Founders]
  /\ invites = [t \in Tokens |-> Unsent]
  /\ claims = [m \in Members |-> "NONE"]
  /\ req = [s \in Slots |-> Idle] /\ tainted = {}

--------------------------------------------------------------------------------
(* Owners *)

ActiveOwners == {m \in Members : status[m] = "ACTIVE" /\ role[m] = "OWNER"}

CountsAnyOwner(m)         == {o \in Members : o # m /\ role[o] = "OWNER"} # {}    \* mutated form
ensureActiveOwnerCount(m) == ActiveOwners \ {m} # {}

--------------------------------------------------------------------------------
(* What requests have read, and what a commit changes *)

Row(m)   == <<"row", m>>
Owners   == <<"owners">>
Reads(r) == IF r.op = "idle" THEN {} ELSE {Row(r.target)} \cup (IF r.stage = "counted" THEN {Owners} ELSE {})

Free(s)  == req[s].op = "idle"
Valid(m) == {t \in Tokens : invites[t] = [member |-> m, is |-> "VALID"]}

\* The membership row stays locked from the transaction's update to its end.
Locked(m) == \E s \in Slots : req[s].stage = "begun" /\ req[s].op # "resend" /\ req[s].target = m

\* The request of slot s ends, having written rows of its target.
Finish(s) ==
  LET changed == {Row(req[s].target)} \cup (IF ActiveOwners' # ActiveOwners THEN {Owners} ELSE {})
  IN  /\ req' = [t \in Slots |->
           IF t = s THEN Idle ELSE [req[t] EXCEPT !.stale = @ \/ Reads(req[t]) \cap changed # {}]]
      /\ tainted' = IF req[s].stale THEN tainted \cup changed ELSE tainted

\* What a request keeps of the rows it has read.
Opened(op, m) == [Idle EXCEPT !.op = op, !.target = m]

Begin(s, r) ==
  /\ Free(s)
  /\ req' = [req EXCEPT ![s] = r]
  /\ UNCHANGED <<rows, claims, tainted>>

AnyUser(m)  == m \in Members                                             \* mutated form
IsMember(m) == status[m] # "NONE"

--------------------------------------------------------------------------------
(* Requests that invite *)

\* A member who comes back with a password is active at once, others get an invitation.
ActiveAtOnce(op, m)   == status[m] # "NONE"                              \* mutated form
BecomesActive(op, m)  == status[m] # "NONE" /\ password[m]

\* inviteMember: somebody without a membership, or with a deactivated one.
ReadInvite(s) ==
  \E a, m \in Members, r \in Roles :
    /\ MayManageTeam(claims[a]) /\ canAssignRole(claims[a], r)
    /\ status[m] \in {"NONE", "DEACTIVATED"}
    /\ Begin(s, [Opened("invite", m) EXCEPT !.newRole = r, !.isNew = status[m] = "NONE",
                                             !.activates = BecomesActive("invite", m)])

ReadResend(s) ==
  \E a, m \in Members :
    /\ MayManageTeam(claims[a]) /\ status[m] = "INVITED"
    /\ MayResend(claims[a], role[m])
    /\ Begin(s, Opened("resend", m))

\* reactivateMember does not look at the status.
ReadReactivate(s) ==
  \E a, m \in Members :
    /\ MayManageTeam(claims[a]) /\ IsMember(m)
    /\ MayDeactivate(claims[a], role[m])
    /\ Begin(s, [Opened("reactivate", m) EXCEPT !.activates = BecomesActive("reactivate", m)])

\* createInviteForMembership: the statement that expires older invitations sees the
\* ones committed before it.
BeginInvite(s) ==
  LET r == req[s]
  IN  /\ r.op \in {"invite", "resend", "reactivate"} /\ r.stage = "read" /\ ~r.activates
      /\ r.op = "resend" \/ ~Locked(r.target)
      /\ r.isNew => status[r.target] = "NONE"
      /\ req' = [req EXCEPT ![s].stage = "begun", ![s].seen = Valid(r.target)]
      /\ UNCHANGED <<rows, claims, tainted>>

KeepOlder(r)    == {}                                                   \* mutated form
OlderInvites(r) == {t \in r.seen : invites[t].is = "VALID"}

\* The rows once the older invitations have expired and t is created.
CreatedFirst(r, t) == [u \in Tokens |-> IF u \in OlderInvites(r) \cup {t}          \* mutated form
                                        THEN [member |-> r.target, is |-> "SPENT"] ELSE invites[u]]
Created(r, t) == [u \in Tokens |-> IF u = t THEN [member |-> r.target, is |-> "VALID"]
                                   ELSE IF u \in OlderInvites(r)
                                        THEN [invites[u] EXCEPT !.is = "SPENT"] ELSE invites[u]]

CommitInvite(s) ==
  LET r == req[s]  m == req[s].target
  IN  /\ r.stage = "begun"
      /\ \E t \in Tokens :
           /\ invites[t] = Unsent /\ \A u \in Tokens : u < t => invites[u] # Unsent
           /\ invites' = Created(r, t)
      /\ status' = IF r.op = "resend" THEN status ELSE [status EXCEPT ![m] = "INVITED"]
      /\ role' = IF r.op = "invite" THEN [role EXCEPT ![m] = r.newRole] ELSE role
      /\ UNCHANGED <<password, claims>>
      /\ Finish(s)

CommitActivate(s) ==
  LET r == req[s]  m == req[s].target
  IN  /\ r.activates /\ ~Locked(m)
      /\ status' = [status EXCEPT ![m] = "ACTIVE"]
      /\ role' = IF r.op = "invite" THEN [role EXCEPT ![m] = r.newRole] ELSE role
      /\ UNCHANGED <<password, invites, claims>>
      /\ Finish(s)

\* Twenty-four hours pass.
ExpireInvite ==
  /\ \E t \in Tokens : invites[t].is = "VALID" /\ invites' = [invites EXCEPT ![t].is = "EXPIRED"]
  /\ UNCHANGED <<status, role, password, claims, req, tainted>>

--------------------------------------------------------------------------------
(* Role changes and deactivation *)

ReadRole(s) ==
  \E a, m \in Members, r \in Roles :
    /\ MayManageTeam(claims[a]) /\ IsMember(m) /\ a # m
    /\ MayChangeRole(claims[a], role[m], r)
    /\ Begin(s, [Opened("role", m) EXCEPT !.newRole = r, !.byOwner = claims[a] = "OWNER",
                                           !.stage = IF TakesOwner(role[m], r) THEN "uncounted" ELSE "read"])

ReadDeactivate(s) ==
  \E a, m \in Members :
    /\ MayManageTeam(claims[a]) /\ IsMember(m) /\ a # m
    /\ MayDeactivate(claims[a], role[m])
    /\ Begin(s, [Opened("deactivate", m) EXCEPT !.byOwner = claims[a] = "OWNER",
                                                 !.stage = IF role[m] = "OWNER" THEN "uncounted" ELSE "read"])

CountOwners(s) ==
  LET r == req[s]
  IN  /\ r.stage = "uncounted" /\ ensureActiveOwnerCount(r.target)
      /\ req' = [req EXCEPT ![s].stage = "counted"]
      /\ UNCHANGED <<rows, claims, tainted>>

CommitRole(s) ==
  LET r == req[s]
  IN  /\ r.op = "role" /\ r.stage # "uncounted" /\ ~Locked(r.target)
      /\ role' = [role EXCEPT ![r.target] = r.newRole]
      /\ UNCHANGED <<status, password, invites, claims>>
      /\ Finish(s)

CommitDeactivate(s) ==
  LET r == req[s]
  IN  /\ r.op = "deactivate" /\ r.stage # "uncounted" /\ ~Locked(r.target)
      /\ status' = [status EXCEPT ![r.target] = "DEACTIVATED"]
      /\ UNCHANGED <<role, password, invites, claims>>
      /\ Finish(s)

--------------------------------------------------------------------------------
(* The invited user, other organizations, and sessions *)

\* acceptInvitation: with a password somebody has to be logged in as the invited user.
IgnoresStatus(m) == m \in Members                                       \* mutated form
IsInvited(m)     == status[m] = "INVITED"

ReadAccept(s) ==
  \E m \in Members, t \in Tokens :
    /\ t \in Valid(m) /\ IsInvited(m)
    /\ password[m] => claims[m] # "NONE"
    /\ Begin(s, [Opened("accept", m) EXCEPT !.seen = {t}])

\* Nothing is checked again.
CommitAccept(s) ==
  LET r == req[s]  m == req[s].target
  IN  /\ r.op = "accept" /\ ~Locked(m)
      /\ password' = [password EXCEPT ![m] = TRUE]
      /\ status' = [status EXCEPT ![m] = "ACTIVE"]
      /\ invites' = [t \in Tokens |-> IF t \in r.seen THEN [invites[t] EXCEPT !.is = "SPENT"] ELSE invites[t]]
      /\ UNCHANGED <<role, claims>>
      /\ Finish(s)

\* acceptInvitation in another organization; nothing there looks at this one.
JoinsElsewhere ==
  /\ \E m \in Elsewhere : password' = [password EXCEPT ![m] = TRUE]
  /\ UNCHANGED <<status, role, invites, claims, req, tainted>>

\* login and refresh: refused without an active membership in some organization.  That
\* of another one may have begun and ended at any time: the choice is free.
LogIn ==
  /\ \E m \in Members :
       /\ password[m]
       /\ \/ status[m] = "ACTIVE" /\ claims' = [claims EXCEPT ![m] = role[m]]
          \/ status[m] # "ACTIVE" /\ m \in Elsewhere /\ claims' = [claims EXCEPT ![m] = "OTHER"]
  /\ UNCHANGED <<rows, req, tainted>>

TokenExpires ==
  /\ \E m \in Members : claims[m] # "NONE" /\ claims' = [claims EXCEPT ![m] = "NONE"]
  /\ UNCHANGED <<rows, req, tainted>>

Abort(s) ==
  /\ ~Free(s) /\ req' = [req EXCEPT ![s] = Idle]
  /\ UNCHANGED <<rows, claims, tainted>>

Next ==
  \/ ExpireInvite \/ JoinsElsewhere \/ LogIn \/ TokenExpires
  \/ \E s \in Slots : \/ ReadAccept(s) \/ CommitAccept(s) \/ ReadInvite(s) \/ ReadResend(s) \/ ReadReactivate(s) \/ BeginInvite(s)
                      \/ CommitInvite(s) \/ CommitActivate(s) \/ ReadRole(s) \/ ReadDeactivate(s)
                      \/ CountOwners(s) \/ CommitRole(s) \/ CommitDeactivate(s) \/ Abort(s)

Spec == Init /\ [][Next]_vars

--------------------------------------------------------------------------------
(* Properties *)

\* An active member can log in: however acceptances, reactivations and deactivations
\* overlap, nobody is made active without a password (acceptInvitation, reactivateMember).
ActiveHasPassword == \A m \in Members : status[m] = "ACTIVE" => password[m]

\* "Demoting or deactivating the last active owner is blocked": an active owner remains,
\* also when tokens claim old roles, unless a request whose reads were out of date has
\* changed who the active owners are: two that counted each other's owner, for one.
OwnerRemains == ActiveOwners # {} \/ Owners \in tainted

\* A member has one usable invitation, unless sendings overlap (createInviteForMembership).
OneInvite == \A m \in Members : Cardinality(Valid(m)) <= 1 \/ Row(m) \in tainted

\* An invited member has an invitation nobody has used or replaced, be its time over or
\* not: no overlap of inviting, resending and accepting leaves a member INVITED with all
\* links used up (createInviteForMembership expires the older ones, then creates).
InvitedHasInvite ==
  \A m \in Members : status[m] = "INVITED" =>
    \E t \in Tokens : invites[t].member = m /\ invites[t].is \in {"VALID", "EXPIRED"}

\* "Only owners can manage another owner": an active owner is demoted or deactivated
\* only by a request that carries an owner's token, or whose reads are stale.
OnlyOwnersTakeOwners ==
  [][\A m \in ActiveOwners, s \in Slots :
       m \notin ActiveOwners' /\ ~Free(s) /\ req'[s] = Idle => req[s].byOwner \/ req[s].stale]_vars

\* A deactivated member comes back only through a management request, or by an acceptance
\* that began before the deactivation (deactivateMember leaves invitations valid).
DeactivationHolds ==
  [][\A m \in Members, s \in Slots :
       status[m] = "DEACTIVATED" /\ status'[m] = "ACTIVE" /\ req[s].op = "accept" /\ req'[s] = Idle
         => req[s].stale]_vars
================================================================================
