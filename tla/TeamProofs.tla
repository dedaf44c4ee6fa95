------------------------------- MODULE TeamProofs ---------------------------------
(***************************************************************************)
(* Proofs about Team, and at the end about AccessRules.  As in             *)
(* InventoryProofs the inductive invariant says of every open request what *)
(* it has established (Checked), and what of it is still true unless the   *)
(* request is stale (Current).  A commit touches one membership (Touches), *)
(* and every request that read it becomes stale.                           *)
(***************************************************************************)
EXTENDS Team, FiniteSetTheorems, TLAPS

Requests ==
  [op: {"idle", "invite", "role", "deactivate", "reactivate", "resend", "accept"},
   stage: {"read", "uncounted", "counted", "begun"}, byOwner: BOOLEAN, target: Members \cup {"none"},
   newRole: Roles \cup {"NONE"}, isNew: BOOLEAN, activates: BOOLEAN, seen: SUBSET Tokens, stale: BOOLEAN]

\* The invitations ever sent to a member, and those neither accepted nor replaced.
Sent(m)   == {t \in Tokens : invites[t].member = m /\ invites[t].is # "UNSENT"}
Unused(m) == {t \in Tokens : invites[t].member = m /\ invites[t].is \in {"VALID", "EXPIRED"}}

\* What holds of a request r while nothing it read has changed.
Current(r) ==
  /\ r.stage = "begun" => Valid(r.target) \subseteq r.seen
  /\ r.stage = "counted" => ActiveOwners \ {r.target} # {}
  /\ r.op = "accept" => status[r.target] = "INVITED"
  /\ r.op = "invite" => status[r.target] \in {"NONE", "DEACTIVATED"}
  /\ r.op \in {"invite", "reactivate"} /\ ~r.activates => status[r.target] # "ACTIVE"
  /\ r.op \in {"role", "deactivate"} /\ role[r.target] = "OWNER" /\ (r.op = "role" => r.newRole # "OWNER") =>
       r.byOwner /\ r.stage \in {"uncounted", "counted"}

\* What always holds of a request.
Checked(r) ==
  /\ r.op = "idle" => r = Idle
  /\ r.op # "idle" =>
       /\ r.target \in Members
       /\ r.op # "invite" => status[r.target] # "NONE"
       /\ r.op \in {"invite", "role"} => r.newRole \in Roles
       /\ r.activates => r.op \in {"invite", "reactivate"} /\ r.stage = "read" /\ password[r.target]
       /\ r.stage \in {"uncounted", "counted"} => r.op \in {"role", "deactivate"}
       /\ r.stage = "begun" => r.op \in {"invite", "reactivate", "resend"} /\ ~r.activates
       /\ r.stage = "begun" \/ r.op = "accept" => r.seen \subseteq Sent(r.target)
       /\ r.stale \/ Current(r)

IInv ==
  /\ TypeOK
  /\ ActiveHasPassword
  /\ OwnerRemains
  /\ OneInvite
  /\ InvitedHasInvite
  /\ \A t \in Slots : Checked(req[t])

\* Of the rows, the step changes those of member m at most; nobody loses a membership
\* or a password or an invitation, and only m can be sent one or use one.
Touches(m) ==
  \A n \in Members :
    /\ status[n] # "NONE" => status'[n] # "NONE"
    /\ password[n] => password'[n]
    /\ Sent(n) \subseteq Sent(n)'
    /\ n # m => /\ status'[n] = status[n] /\ role'[n] = role[n] /\ password'[n] = password[n]
                /\ Valid(n)' \subseteq Valid(n) /\ Unused(n) \subseteq Unused(n)'

\* What a commit for member m changes, as Finish has it.
Changed(m) == {Row(m)} \cup (IF ActiveOwners' # ActiveOwners THEN {Owners} ELSE {})

Follows(t, changed) ==
  req'[t] = [req[t] EXCEPT !.stale = @ \/ Reads(req[t]) \cap changed # {}]

--------------------------------------------------------------------------------
(* Requests *)

LEMMA ReqTyped == TypeOK => req \in [Slots -> Requests]
  BY DEF TypeOK, Requests

LEMMA IdleTyped ==
  /\ Idle \in Requests /\ Idle.op = "idle" /\ Idle.stage = "read" /\ Idle.stale = FALSE
  /\ Idle.activates = FALSE /\ Idle.byOwner = FALSE /\ Idle.isNew = FALSE /\ Idle.seen = {}
  BY DEF Idle, Requests

LEMMA IdleChecked == Checked(Idle)
  BY IdleTyped DEF Checked

LEMMA RoleNames == "NONE" \notin Roles /\ "OTHER" \notin Roles
  BY RolesAssumption DEF AllRoles

\* A request of another slot while slot s changes.
LEMMA FinishFollows ==
  ASSUME TypeOK, NEW s \in Slots, NEW m, req[s].target = m, Finish(s)
  PROVE  /\ req' \in [Slots -> Requests] /\ req'[s] = Idle
         /\ \A t \in Slots \ {s} : Follows(t, Changed(m))
         /\ tainted \subseteq tainted'
         /\ req[s].stale => Row(m) \in tainted' /\ (ActiveOwners' # ActiveOwners => Owners \in tainted')
  <1>1. req' = [t \in Slots |->
                  IF t = s THEN Idle ELSE [req[t] EXCEPT !.stale = @ \/ Reads(req[t]) \cap Changed(m) # {}]]
        /\ tainted' = IF req[s].stale THEN tainted \cup Changed(m) ELSE tainted
    BY DEF Finish, Changed
  <1>2. \A t \in Slots : [req[t] EXCEPT !.stale = @ \/ Reads(req[t]) \cap Changed(m) # {}] \in Requests
    <2>1. ASSUME NEW t \in Slots
          PROVE  [req[t] EXCEPT !.stale = @ \/ Reads(req[t]) \cap Changed(m) # {}] \in Requests
      <3>1. req[t] \in Requests
        BY ReqTyped
      <3> DEFINE b == req[t].stale \/ Reads(req[t]) \cap Changed(m) # {}
      <3>2. b \in BOOLEAN
        BY <3>1 DEF Requests
      <3> HIDE DEF b
      <3>3. [req[t] EXCEPT !.stale = b] \in Requests
        BY <3>1, <3>2 DEF Requests
      <3>4. QED
        BY <3>3 DEF b
    <2>2. QED
      BY <2>1
  <1>3. req' \in [Slots -> Requests] /\ req'[s] = Idle
    BY <1>1, <1>2, IdleTyped
  <1>4. \A t \in Slots \ {s} : Follows(t, Changed(m))
    BY <1>1 DEF Follows
  <1>5. tainted \subseteq tainted' /\ (req[s].stale => Changed(m) \subseteq tainted')
    BY <1>1
  <1>6. QED
    BY <1>3, <1>4, <1>5 DEF Changed

\* What a request has established outlives a commit for member m that it did not read.
LEMMA CurrentFollows ==
  ASSUME NEW r \in Requests, r.op # "idle", r.target \in Members, Current(r), NEW m, Touches(m),
         Reads(r) \cap Changed(m) = {}
  PROVE  Current(r)'
  <1>1. r.target # m
    <2>1. Row(r.target) \in Reads(r)
      BY DEF Reads
    <2>2. QED
      BY <2>1 DEF Changed
  <1>2. /\ status'[r.target] = status[r.target] /\ role'[r.target] = role[r.target]
        /\ password'[r.target] = password[r.target]
        /\ Valid(r.target)' \subseteq Valid(r.target)
    BY <1>1 DEF Touches
  <1>3. r.stage = "counted" => ActiveOwners' = ActiveOwners
    <2>1. r.stage = "counted" => Owners \in Reads(r)
      BY DEF Reads
    <2>2. QED
      BY <2>1 DEF Changed
  <1>4. r.stage = "begun" => Valid(r.target)' \subseteq r.seen
    BY <1>2 DEF Current
  <1>5. r.stage = "counted" => ActiveOwners' \ {r.target} # {}
    BY <1>3 DEF Current
  <1>6. QED
    BY <1>2, <1>4, <1>5 DEF Current

LEMMA CheckedNext ==
  ASSUME NEW t \in Slots, NEW q, req'[t] = q, Checked(q)'
  PROVE  Checked(req[t])'
  BY DEF Checked, Current, Valid, ActiveOwners, Sent

LEMMA CheckedFollows ==
  ASSUME TypeOK, NEW m, Touches(m), NEW t \in Slots, Follows(t, Changed(m)), Checked(req[t])
  PROVE  Checked(req[t])'
  <1>1. PICK r \in Requests : r = req[t]
    BY ReqTyped
  <1> DEFINE b == r.stale \/ Reads(r) \cap Changed(m) # {}
  <1>2. req'[t] = [r EXCEPT !.stale = b]
    BY <1>1 DEF Follows
  <1>3. b \in BOOLEAN
    BY DEF Requests
  <1>4. CASE r.op = "idle"
    <2>1. r = Idle /\ Reads(r) = {}
      BY <1>1, <1>4 DEF Checked, Reads
    <2>2. req'[t] = Idle
      BY <1>2, <2>1 DEF Idle
    <2>3. Checked(Idle)'
      BY IdleTyped DEF Checked
    <2>4. QED
      BY <2>2, <2>3, CheckedNext
  <1>5. CASE r.op # "idle"
    <2>1. /\ r.target \in Members
          /\ r.op # "invite" => status'[r.target] # "NONE"
          /\ r.op \in {"invite", "role"} => r.newRole \in Roles
          /\ r.activates => r.op \in {"invite", "reactivate"} /\ r.stage = "read" /\ password'[r.target]
          /\ r.stage \in {"uncounted", "counted"} => r.op \in {"role", "deactivate"}
          /\ r.stage = "begun" => r.op \in {"invite", "reactivate", "resend"} /\ ~r.activates
          /\ r.stage = "begun" \/ r.op = "accept" => r.seen \subseteq Sent(r.target)'
      BY <1>1, <1>5 DEF Checked, Touches
    <2>2. b \/ Current(r)'
      BY <1>1, <1>5, CurrentFollows DEF Checked
    <2> HIDE DEF b
    <2>3. PICK q \in Requests : q = [r EXCEPT !.stale = b]
      BY <1>3 DEF Requests
    <2>4. /\ q.op = r.op /\ q.stage = r.stage /\ q.byOwner = r.byOwner /\ q.target = r.target
          /\ q.newRole = r.newRole /\ q.activates = r.activates /\ q.seen = r.seen /\ q.stale = b
      BY <2>3 DEF Requests
    <2>5. Current(q)' <=> Current(r)'
      BY <2>4 DEF Current
    <2>6. Checked(q)'
      BY <1>5, <2>1, <2>2, <2>4, <2>5 DEF Checked
    <2>7. QED
      BY <1>2, <2>3, <2>6, CheckedNext
  <1>6. QED
    BY <1>4, <1>5
--------------------------------------------------------------------------------
(* Steps of a request that leave the rows alone *)

RowsKept == UNCHANGED <<rows, tainted>>

LEMMA RowsKeep ==
  ASSUME RowsKept
  PROVE  /\ ActiveHasPassword => ActiveHasPassword'
         /\ OwnerRemains => OwnerRemains'
         /\ OneInvite => OneInvite'
         /\ InvitedHasInvite => InvitedHasInvite'
         /\ \A r : Checked(r)' <=> Checked(r)
  BY DEF RowsKept, rows, ActiveHasPassword, OwnerRemains, OneInvite, InvitedHasInvite, Checked, Current,
         Valid, Sent, ActiveOwners, Row, Owners

\* The request of slot s becomes r.
LEMMA SlotStep ==
  ASSUME IInv, RowsKept, UNCHANGED claims, NEW s \in Slots, NEW r \in Requests,
         req' = [req EXCEPT ![s] = r], Checked(r)
  PROVE  IInv'
  <1>1. TypeOK
    BY DEF IInv
  <1>2. req' \in [Slots -> Requests] /\ req'[s] = r /\ \A t \in Slots \ {s} : req'[t] = req[t]
    BY <1>1, ReqTyped
  <1>3. TypeOK'
    BY <1>1, <1>2 DEF TypeOK, RowsKept, rows, Requests
  <1>4. \A t \in Slots : Checked(req[t])'
    <2>1. ASSUME NEW t \in Slots, NEW q, req'[t] = q, Checked(q)
          PROVE  Checked(req[t])'
      BY <2>1, RowsKeep, CheckedNext
    <2>2. \A t \in Slots \ {s} : Checked(req[t])
      BY DEF IInv
    <2>3. \A t \in Slots : \E q : req'[t] = q /\ Checked(q)
      BY <1>2, <2>2
    <2>4. QED
      BY <2>1, <2>3
  <1>5. QED
    BY <1>3, <1>4, RowsKeep DEF IInv

\* A request begins.
LEMMA BeginStep ==
  ASSUME IInv, NEW s \in Slots, NEW r \in Requests, Begin(s, r), Checked(r)
  PROVE  IInv'
  BY SlotStep DEF Begin, RowsKept

LEMMA AbortStep ==
  ASSUME IInv, NEW s \in Slots, Abort(s)
  PROVE  IInv'
  BY SlotStep, IdleTyped, IdleChecked DEF Abort, RowsKept

\* The request that a read of member m's row opens, some fields aside.
Opens(r, op, m) ==
  /\ r \in Requests /\ r = Opened(op, m)
  /\ r.op = op /\ r.stage = "read" /\ r.byOwner = FALSE /\ r.target = m
  /\ r.activates = FALSE /\ r.stale = FALSE

LEMMA OpenedTyped ==
  ASSUME NEW op, op \in {"invite", "role", "deactivate", "reactivate", "resend", "accept"}, NEW m \in Members
  PROVE  Opens(Opened(op, m), op, m)
  <1>1. Opened(op, m) \in Requests
    BY IdleTyped DEF Opened, Requests
  <1>2. /\ Opened(op, m).op = op /\ Opened(op, m).stage = "read" /\ Opened(op, m).byOwner = FALSE
        /\ Opened(op, m).target = m /\ Opened(op, m).activates = FALSE /\ Opened(op, m).stale = FALSE
    BY IdleTyped DEF Opened, Requests
  <1>3. QED
    BY <1>1, <1>2 DEF Opens

LEMMA ReadInviteStep ==
  ASSUME IInv, NEW s \in Slots, ReadInvite(s)
  PROVE  IInv'
  <1>1. PICK m \in Members, n \in Roles :
          /\ status[m] \in {"NONE", "DEACTIVATED"}
          /\ Begin(s, [Opened("invite", m) EXCEPT !.newRole = n, !.isNew = status[m] = "NONE",
                                                   !.activates = BecomesActive("invite", m)])
    BY DEF ReadInvite
  <1>2. PICK b \in BOOLEAN, c \in BOOLEAN : b = (status[m] = "NONE") /\ c = BecomesActive("invite", m)
    BY DEF BecomesActive
  <1>open. PICK o : Opens(o, "invite", m)
    BY OpenedTyped
  <1> DEFINE r == [o EXCEPT !.newRole = n, !.isNew = b, !.activates = c]
  <1>3. r \in Requests
    BY <1>open DEF Requests, Opens
  <1>4. /\ r.op = "invite" /\ r.stage = "read" /\ r.target = m /\ r.newRole = n /\ r.activates = c
        /\ r.stale = FALSE
    BY <1>open DEF Requests, Opens
  <1> HIDE DEF r
  <1>5. c <=> status[m] # "NONE" /\ password[m]
    BY <1>2 DEF BecomesActive
  <1>6. Checked(r)
    BY <1>1, <1>4, <1>5 DEF Checked, Current
  <1>7. QED
    BY <1>open, <1>1, <1>2, <1>3, <1>6, BeginStep DEF r, Opens

LEMMA ReadResendStep ==
  ASSUME IInv, NEW s \in Slots, ReadResend(s)
  PROVE  IInv'
  <1>1. PICK m \in Members : status[m] = "INVITED" /\ Begin(s, Opened("resend", m))
    BY DEF ReadResend
  <1>2. PICK r : Opens(r, "resend", m)
    BY OpenedTyped
  <1>4. Checked(r)
    BY <1>1, <1>2 DEF Checked, Current, Opens
  <1>5. QED
    BY <1>1, <1>2, <1>4, BeginStep DEF Opens

LEMMA ReadReactivateStep ==
  ASSUME IInv, NEW s \in Slots, ReadReactivate(s)
  PROVE  IInv'
  <1>1. PICK m \in Members :
          /\ status[m] # "NONE"
          /\ Begin(s, [Opened("reactivate", m) EXCEPT !.activates = BecomesActive("reactivate", m)])
    BY DEF ReadReactivate, IsMember
  <1>2. PICK c \in BOOLEAN : c = BecomesActive("reactivate", m)
    BY DEF BecomesActive
  <1>open. PICK o : Opens(o, "reactivate", m)
    BY OpenedTyped
  <1> DEFINE r == [o EXCEPT !.activates = c]
  <1>3. r \in Requests
    BY <1>open DEF Requests, Opens
  <1>4. r.op = "reactivate" /\ r.stage = "read" /\ r.target = m /\ r.activates = c /\ r.stale = FALSE
    BY <1>open DEF Requests, Opens
  <1> HIDE DEF r
  <1>5. c <=> password[m]
    BY <1>1, <1>2 DEF BecomesActive
  <1>6. ~c => status[m] # "ACTIVE"
    BY <1>5 DEF IInv, ActiveHasPassword
  <1>7. Checked(r)
    BY <1>1, <1>4, <1>5, <1>6 DEF Checked, Current
  <1>8. QED
    BY <1>open, <1>1, <1>2, <1>3, <1>7, BeginStep DEF r, Opens

\* Only an owner changes the role of an owner.
LEMMA TakingAnOwner ==
  ASSUME NEW actor, NEW newRole, newRole # "OWNER"
  PROVE  /\ TakesOwner("OWNER", newRole)
         /\ MayChangeRole(actor, "OWNER", newRole) => actor = "OWNER"
  BY DEF MayChangeRole, canManageMember, TakesOwner, Above, ROLE_TIER

LEMMA ReadRoleStep ==
  ASSUME IInv, NEW s \in Slots, ReadRole(s)
  PROVE  IInv'
  <1>1. PICK a \in Members, m \in Members, n \in Roles :
          /\ status[m] # "NONE" /\ MayChangeRole(claims[a], role[m], n)
          /\ Begin(s, [Opened("role", m) EXCEPT !.newRole = n, !.byOwner = claims[a] = "OWNER",
                         !.stage = IF TakesOwner(role[m], n) THEN "uncounted" ELSE "read"])
    BY DEF ReadRole, IsMember
  <1>2. PICK b \in BOOLEAN, g \in {"uncounted", "read"} :
          b = (claims[a] = "OWNER") /\ g = IF TakesOwner(role[m], n) THEN "uncounted" ELSE "read"
    OBVIOUS
  <1>open. PICK o : Opens(o, "role", m)
    BY OpenedTyped
  <1> DEFINE r == [o EXCEPT !.newRole = n, !.byOwner = b, !.stage = g]
  <1>3. r \in Requests
    BY <1>open DEF Requests, Opens
  <1>4. /\ r.op = "role" /\ r.stage = g /\ r.target = m /\ r.newRole = n /\ r.activates = FALSE
        /\ r.byOwner = b /\ r.stale = FALSE
    BY <1>open DEF Requests, Opens
  <1> HIDE DEF r
  <1>5. role[m] = "OWNER" /\ n # "OWNER" => b /\ g = "uncounted"
    BY <1>1, <1>2, TakingAnOwner
  <1>6. Checked(r)
    BY <1>1, <1>2, <1>4, <1>5 DEF Checked, Current
  <1>7. QED
    BY <1>open, <1>1, <1>2, <1>3, <1>6, BeginStep DEF r, Opens

LEMMA ReadDeactivateStep ==
  ASSUME IInv, NEW s \in Slots, ReadDeactivate(s)
  PROVE  IInv'
  <1>1. PICK a \in Members, m \in Members :
          /\ status[m] # "NONE" /\ MayDeactivate(claims[a], role[m])
          /\ Begin(s, [Opened("deactivate", m) EXCEPT !.byOwner = claims[a] = "OWNER",
                         !.stage = IF role[m] = "OWNER" THEN "uncounted" ELSE "read"])
    BY DEF ReadDeactivate, IsMember
  <1>2. PICK b \in BOOLEAN, g \in {"uncounted", "read"} :
          b = (claims[a] = "OWNER") /\ g = IF role[m] = "OWNER" THEN "uncounted" ELSE "read"
    OBVIOUS
  <1>open. PICK o : Opens(o, "deactivate", m)
    BY OpenedTyped
  <1> DEFINE r == [o EXCEPT !.byOwner = b, !.stage = g]
  <1>3. r \in Requests
    BY <1>open DEF Requests, Opens
  <1>4. /\ r.op = "deactivate" /\ r.stage = g /\ r.target = m /\ r.activates = FALSE
        /\ r.byOwner = b /\ r.stale = FALSE
    BY <1>open DEF Requests, Opens
  <1> HIDE DEF r
  <1>5. role[m] = "OWNER" => b /\ g = "uncounted"
    BY <1>1, <1>2 DEF MayDeactivate
  <1>6. Checked(r)
    BY <1>1, <1>2, <1>4, <1>5 DEF Checked, Current
  <1>7. QED
    BY <1>open, <1>1, <1>2, <1>3, <1>6, BeginStep DEF r, Opens

LEMMA ReadAcceptStep ==
  ASSUME IInv, NEW s \in Slots, ReadAccept(s)
  PROVE  IInv'
  <1>1. PICK m \in Members, t \in Tokens :
          status[m] = "INVITED" /\ t \in Valid(m) /\ Begin(s, [Opened("accept", m) EXCEPT !.seen = {t}])
    BY DEF ReadAccept, IsInvited
  <1>open. PICK o : Opens(o, "accept", m)
    BY OpenedTyped
  <1> DEFINE r == [o EXCEPT !.seen = {t}]
  <1>2. r \in Requests
    BY <1>open DEF Requests, Opens
  <1>3. r.op = "accept" /\ r.stage = "read" /\ r.target = m /\ r.activates = FALSE /\ r.stale = FALSE
        /\ r.seen = {t}
    BY <1>open DEF Requests, Opens
  <1> HIDE DEF r
  <1>4. Checked(r)
    <2>1. r.seen \subseteq Sent(m)
      BY <1>1, <1>3 DEF Valid, Sent
    <2>2. QED
      BY <1>1, <1>3, <2>1 DEF Checked, Current
  <1>5. QED
    BY <1>open, <1>1, <1>2, <1>4, BeginStep DEF r, Opens

LEMMA BeginInviteStep ==
  ASSUME IInv, NEW s \in Slots, BeginInvite(s)
  PROVE  IInv'
  <1>1. PICK q \in Requests : q = req[s]
    BY ReqTyped DEF IInv
  <1>2. /\ q.op \in {"invite", "resend", "reactivate"} /\ ~q.activates /\ q.stage = "read"
        /\ req' = [req EXCEPT ![s].stage = "begun", ![s].seen = Valid(q.target)]
        /\ RowsKept /\ UNCHANGED claims
    BY <1>1 DEF BeginInvite, RowsKept
  <1>3. PICK sent \in SUBSET Tokens : sent = Valid(q.target)
    BY DEF Valid
  <1> DEFINE r == [q EXCEPT !.stage = "begun", !.seen = sent]
  <1>4. req' = [req EXCEPT ![s] = r]
    BY <1>1, <1>2, <1>3, ReqTyped DEF IInv
  <1>5. /\ r \in Requests /\ r.stage = "begun" /\ r.seen = sent /\ r.op = q.op /\ r.target = q.target
        /\ r.newRole = q.newRole /\ r.activates = q.activates /\ r.stale = q.stale
    BY DEF Requests
  <1> HIDE DEF r
  <1>6. Checked(q)
    BY <1>1 DEF IInv
  <1>7. Checked(r)
    <2>1. r.seen \subseteq Sent(r.target)
      BY <1>3, <1>5 DEF Valid, Sent
    <2>2. QED
      BY <1>2, <1>3, <1>5, <1>6, <2>1 DEF Checked, Current
  <1>8. QED
    BY <1>2, <1>4, <1>5, <1>7, SlotStep

LEMMA CountOwnersStep ==
  ASSUME IInv, NEW s \in Slots, CountOwners(s)
  PROVE  IInv'
  <1>1. PICK q \in Requests : q = req[s]
    BY ReqTyped DEF IInv
  <1>2. /\ q.stage = "uncounted" /\ ActiveOwners \ {q.target} # {}
        /\ req' = [req EXCEPT ![s].stage = "counted"]
        /\ RowsKept /\ UNCHANGED claims
    BY <1>1 DEF CountOwners, ensureActiveOwnerCount, RowsKept
  <1> DEFINE r == [q EXCEPT !.stage = "counted"]
  <1>3. req' = [req EXCEPT ![s] = r]
    BY <1>1, <1>2, ReqTyped DEF IInv
  <1>4. /\ r \in Requests /\ r.stage = "counted" /\ r.seen = q.seen /\ r.op = q.op /\ r.target = q.target
        /\ r.newRole = q.newRole /\ r.activates = q.activates /\ r.stale = q.stale /\ r.byOwner = q.byOwner
    BY DEF Requests
  <1> HIDE DEF r
  <1>5. Checked(q) /\ q.op # "idle"
    BY <1>1, <1>2, IdleTyped DEF IInv, Checked
  <1>6. Checked(r)
    BY <1>2, <1>4, <1>5 DEF Checked, Current
  <1>7. QED
    BY <1>2, <1>3, <1>4, <1>6, SlotStep

--------------------------------------------------------------------------------
(* Steps that change no membership *)

LEMMA ValidFinite ==
  ASSUME NEW m
  PROVE  IsFiniteSet(Valid(m)) /\ Valid(m) \in SUBSET Tokens
  <1>1. IsFiniteSet(Tokens)
    BY TokensAssumption, FS_Interval DEF Tokens
  <1>2. QED
    BY <1>1, FS_Subset DEF Valid

LEMMA FewerInvites ==
  ASSUME NEW S, IsFiniteSet(S), Cardinality(S) <= 1, NEW T \in SUBSET S
  PROVE  Cardinality(T) <= 1
  BY FS_Subset, FS_CardinalityType

LEMMA QuietStep ==
  ASSUME IInv, UNCHANGED <<status, role, req, tainted>>, TypeOK',
         \A n \in Members : /\ Valid(n)' \subseteq Valid(n) /\ Unused(n) \subseteq Unused(n)'
                            /\ Sent(n) \subseteq Sent(n)'
                            /\ password[n] => password'[n]
  PROVE  IInv'
  <1>1. ActiveHasPassword' /\ OwnerRemains' /\ InvitedHasInvite'
    <2>1. \A n \in Members : status'[n] = "INVITED" => Unused(n)' # {}
      BY DEF IInv, InvitedHasInvite, Unused
    <2>2. InvitedHasInvite'
      BY <2>1 DEF InvitedHasInvite, Unused
    <2>3. ActiveHasPassword'
      BY DEF IInv, ActiveHasPassword
    <2>4. OwnerRemains'
      BY DEF IInv, OwnerRemains, ActiveOwners, Owners
    <2>5. QED
      BY <2>2, <2>3, <2>4
  <1>2. OneInvite'
    <2>1. ASSUME NEW m \in Members
          PROVE  Cardinality(Valid(m)') <= 1 \/ Row(m) \in tainted'
      BY FewerInvites, ValidFinite DEF IInv, OneInvite
    <2>2. QED
      BY <2>1 DEF OneInvite, Row
  <1>3. ASSUME NEW t \in Slots
        PROVE  Checked(req[t])'
    <2>1. PICK r \in Requests : r = req[t]
      BY ReqTyped DEF IInv
    <2>2. Checked(r)
      BY <2>1 DEF IInv
    <2>3. r.op # "idle" /\ Current(r) => Current(r)'
      BY <2>2 DEF Current, Checked, ActiveOwners
    <2>4. Checked(r)'
      BY <2>2, <2>3 DEF Checked
    <2>5. req'[t] = r
      BY <2>1
    <2>6. QED
      BY <2>4, <2>5, CheckedNext
  <1>4. QED
    BY <1>1, <1>2, <1>3 DEF IInv

LEMMA ExpireInviteStep ==
  ASSUME IInv, ExpireInvite
  PROVE  IInv'
  <1>1. PICK t \in Tokens : invites[t].is = "VALID" /\ invites' = [invites EXCEPT ![t].is = "EXPIRED"]
    BY DEF ExpireInvite
  <1>2. UNCHANGED <<status, role, password, claims, req, tainted>>
    BY DEF ExpireInvite
  <1>3. TypeOK
    BY DEF IInv
  <1>4. invites' \in [Tokens -> [member: Members \cup {"none"}, is: {"UNSENT", "VALID", "EXPIRED", "SPENT"}]]
    BY <1>1, <1>3 DEF TypeOK
  <1>5. TypeOK'
    BY <1>2, <1>3, <1>4 DEF TypeOK
  <1>6. /\ invites'[t].is = "EXPIRED" /\ invites'[t].member = invites[t].member
        /\ \A u \in Tokens \ {t} : invites'[u] = invites[u]
    BY <1>1, <1>3 DEF TypeOK
  <1>7. \A n \in Members : /\ Valid(n)' \subseteq Valid(n) /\ Unused(n) \subseteq Unused(n)'
                           /\ Sent(n) \subseteq Sent(n)'
    BY <1>1, <1>6 DEF Valid, Unused, Sent
  <1>8. QED
    BY <1>2, <1>5, <1>7, QuietStep

LEMMA JoinsElsewhereStep ==
  ASSUME IInv, JoinsElsewhere
  PROVE  IInv'
  <1>1. PICK m \in Elsewhere : password' = [password EXCEPT ![m] = TRUE]
    BY DEF JoinsElsewhere
  <1>2. UNCHANGED <<status, role, invites, claims, req, tainted>>
    BY DEF JoinsElsewhere
  <1>3. TypeOK
    BY DEF IInv
  <1>4. password' \in [Members -> BOOLEAN] /\ \A n \in Members : password[n] => password'[n]
    BY <1>1, <1>3 DEF TypeOK
  <1>5. TypeOK'
    BY <1>2, <1>3, <1>4 DEF TypeOK
  <1>6. QED
    BY <1>2, <1>4, <1>5, QuietStep DEF Valid, Unused, Sent

LEMMA ClaimsStep ==
  ASSUME IInv, LogIn \/ TokenExpires
  PROVE  IInv'
  <1>1. UNCHANGED <<rows, req, tainted>>
    BY DEF LogIn, TokenExpires
  <1>2. claims' \in [Members -> Roles \cup {"NONE", "OTHER"}]
    BY DEF LogIn, TokenExpires, IInv, TypeOK
  <1>3. TypeOK'
    BY <1>1, <1>2 DEF IInv, TypeOK, rows
  <1>4. QED
    BY <1>1, <1>3, QuietStep DEF rows, Valid, Unused, Sent

LEMMA StutterStep ==
  ASSUME IInv, UNCHANGED vars
  PROVE  IInv'
  <1>1. TypeOK'
    BY DEF IInv, TypeOK, vars
  <1>2. QED
    BY <1>1, QuietStep DEF vars, rows, Valid, Unused, Sent

--------------------------------------------------------------------------------
(* Commits *)

\* Some owner other than the ones that end here stays active.
LEMMA OwnersStay ==
  ASSUME NEW m, Touches(m), ActiveOwners \ {m} # {}
  PROVE  ActiveOwners' # {}
  BY DEF Touches, ActiveOwners

LEMMA CommitStep ==
  ASSUME IInv, TypeOK', NEW s \in Slots, NEW m \in Members, req[s].target = m,
         Finish(s), Touches(m), status'[m] # "NONE",
         status'[m] = "ACTIVE" => password'[m],
         \/ req[s].stale
         \/ Valid(m)' \subseteq Valid(m)
         \/ \E t : Valid(m)' \subseteq {t},
         status'[m] = "INVITED" => Unused(m)' # {},
         \/ req[s].stale
         \/ ActiveOwners \subseteq ActiveOwners'
         \/ ActiveOwners \ {m} # {}
  PROVE  IInv'
  <1>1. /\ TypeOK /\ ActiveHasPassword /\ OwnerRemains /\ OneInvite /\ InvitedHasInvite
        /\ \A t \in Slots : Checked(req[t])
    BY DEF IInv
  <1>2. /\ req'[s] = Idle /\ \A t \in Slots \ {s} : Follows(t, Changed(m))
        /\ tainted \subseteq tainted'
        /\ req[s].stale => Row(m) \in tainted' /\ (ActiveOwners' # ActiveOwners => Owners \in tainted')
    BY <1>1, FinishFollows
  <1>3. \A n \in Members : n # m => /\ status'[n] = status[n] /\ role'[n] = role[n]
                                    /\ password'[n] = password[n] /\ Valid(n)' \subseteq Valid(n)
                                    /\ Unused(n) \subseteq Unused(n)'
    BY DEF Touches
  <1>4. ActiveHasPassword'
    BY <1>1, <1>3 DEF ActiveHasPassword
  <1>5. OwnerRemains'
    BY <1>1, <1>2, OwnersStay DEF OwnerRemains, Owners
  <1>6. OneInvite'
    <2>1. ASSUME NEW n \in Members, Valid(n)' \subseteq Valid(n)
          PROVE  Cardinality(Valid(n)') <= 1 \/ Row(n) \in tainted'
      BY <1>1, <1>2, <2>1, ValidFinite, FewerInvites DEF OneInvite
    <2>2. ASSUME NEW t, Valid(m)' \subseteq {t}
          PROVE  Cardinality(Valid(m)') <= 1
      <3>1. IsFiniteSet({t}) /\ Cardinality({t}) = 1
        BY FS_Singleton, Zenon
      <3>2. \A n : n = 1 => n <= 1
        OBVIOUS
      <3>3. QED
        BY <2>2, <3>1, <3>2, FewerInvites
    <2>3. \A n \in Members : Cardinality(Valid(n)') <= 1 \/ Row(n) \in tainted'
      BY <1>2, <1>3, <2>1, <2>2
    <2>4. QED
      BY <2>3 DEF OneInvite, Row
  <1>7. InvitedHasInvite'
    <2>1. \A n \in Members : status[n] = "INVITED" => Unused(n) # {}
      BY <1>1 DEF InvitedHasInvite, Unused
    <2>2. \A n \in Members : status'[n] = "INVITED" => Unused(n)' # {}
      BY <1>3, <2>1
    <2>3. QED
      BY <2>2 DEF InvitedHasInvite, Unused
  <1>9. Checked(req[s])'
    <2>1. Checked(Idle)'
      BY IdleTyped DEF Checked
    <2>2. QED
      BY <1>2, <2>1, CheckedNext
  <1>10. \A t \in Slots : Checked(req[t])'
    BY <1>1, <1>2, <1>9, CheckedFollows
  <1>11. QED
    BY <1>4, <1>5, <1>6, <1>7, <1>10 DEF IInv

\* The request that commits, and what it has established.
LEMMA Committing ==
  ASSUME IInv, NEW s \in Slots, req[s].op # "idle"
  PROVE  /\ TypeOK /\ req[s] \in Requests /\ req[s].target \in Members
         /\ Checked(req[s]) /\ (req[s].stale \/ Current(req[s]))
  BY ReqTyped DEF IInv, Checked

LEMMA CommitInviteStep ==
  ASSUME IInv, NEW s \in Slots, CommitInvite(s)
  PROVE  IInv'
  <1> DEFINE r == req[s]
  <1>1. r.stage = "begun" /\ Finish(s) /\ UNCHANGED <<password, claims>>
        /\ status' = (IF r.op = "resend" THEN status ELSE [status EXCEPT ![r.target] = "INVITED"])
        /\ role' = (IF r.op = "invite" THEN [role EXCEPT ![r.target] = r.newRole] ELSE role)
    BY DEF CommitInvite
  <1>2. r.op \in {"invite", "reactivate", "resend"} /\ ~r.activates
    BY <1>1, IdleTyped DEF IInv, Checked
  <1>3. TypeOK /\ r \in Requests /\ r.target \in Members /\ Checked(r) /\ (r.stale \/ Current(r))
    BY <1>2, Committing
  <1>4. PICK m \in Members : m = r.target
    BY <1>3
  <1>5. PICK t \in Tokens :
          /\ invites[t] = Unsent
          /\ invites' = [u \in Tokens |-> IF u = t THEN [member |-> m, is |-> "VALID"]
                                       ELSE IF u \in OlderInvites(r)
                                            THEN [invites[u] EXCEPT !.is = "SPENT"] ELSE invites[u]]
    BY <1>4 DEF CommitInvite, Created
  <1>6. r.op = "invite" => r.newRole \in Roles
    BY <1>3 DEF Checked
  <1>7. r.op # "invite" => status[m] # "NONE"
    BY <1>2, <1>3, <1>4 DEF Checked
  <1>8. r.stale \/ /\ Valid(m) \subseteq r.seen
                   /\ r.op = "invite" => status[m] \in {"NONE", "DEACTIVATED"}
                   /\ r.op # "resend" => status[m] # "ACTIVE"
    BY <1>1, <1>2, <1>3, <1>4 DEF Current
  <1>seen. \A u \in OlderInvites(r) : u \in Tokens /\ invites[u].member = m /\ invites[u].is = "VALID"
    BY <1>1, <1>2, <1>3, <1>4 DEF Checked, OlderInvites, Sent
  <1> HIDE DEF r
  <1>9. TypeOK'
    <2>1. invites' \in [Tokens -> [member: Members \cup {"none"}, is: {"UNSENT", "VALID", "EXPIRED", "SPENT"}]]
      BY <1>3, <1>5 DEF TypeOK
    <2>2. status' \in [Members -> Statuses] /\ role' \in [Members -> Roles \cup {"NONE"}]
      BY <1>1, <1>3, <1>6 DEF TypeOK, Statuses
    <2>3. \A n \in Members : role'[n] = "NONE" <=> status'[n] = "NONE"
      BY <1>1, <1>2, <1>3, <1>4, <1>6, <1>7, RoleNames DEF TypeOK
    <2>4. req' \in [Slots -> Requests]
      BY <1>1, <1>3, FinishFollows
    <2>5. QED
      BY <1>1, <1>3, <2>1, <2>2, <2>3, <2>4 DEF TypeOK, Requests
  <1>10. \A n \in Members \ {m} : status'[n] = status[n] /\ role'[n] = role[n] /\ Valid(n)' \subseteq Valid(n)
    <2>1. \A n \in Members \ {m} : status'[n] = status[n] /\ role'[n] = role[n]
      BY <1>1, <1>3, <1>4 DEF TypeOK
    <2>2. ASSUME NEW n \in Members \ {m}, NEW u \in Tokens, invites'[u] = [member |-> n, is |-> "VALID"]
          PROVE  invites[u] = [member |-> n, is |-> "VALID"]
      <3>1. u # t
        BY <1>5, <2>2
      <3>2. u \notin OlderInvites(r)
        <4>1. SUFFICES ASSUME u \in OlderInvites(r) PROVE FALSE
          OBVIOUS
        <4>2. invites'[u] = [invites[u] EXCEPT !.is = "SPENT"]
          BY <1>5, <3>1, <4>1
        <4>3. invites'[u].is = "SPENT"
          BY <1>3, <4>2 DEF TypeOK
        <4>4. QED
          BY <2>2, <4>3
      <3>3. QED
        BY <1>5, <2>2, <3>1, <3>2
    <2>3. QED
      BY <2>1, <2>2 DEF Valid
  <1>sent. /\ \A u \in Tokens \ {t} :
                /\ invites'[u].member = invites[u].member
                /\ invites'[u].is = IF u \in OlderInvites(r) THEN "SPENT" ELSE invites[u].is
           /\ invites'[t].member = m /\ invites'[t].is = "VALID"
    BY <1>3, <1>5 DEF TypeOK
  <1>unsent. invites[t].is = "UNSENT"
    BY <1>5 DEF Unsent
  <1>kept. \A n \in Members : Sent(n) \subseteq Sent(n)' /\ (n # m => Unused(n) \subseteq Unused(n)')
    BY <1>seen, <1>sent, <1>unsent DEF Sent, Unused
  <1>new. t \in Unused(m)'
    BY <1>sent DEF Unused
  <1>11. status'[m] = "INVITED" \/ (r.op = "resend" /\ status' = status)
    BY <1>1, <1>3, <1>4 DEF TypeOK
  <1>12. Touches(m)
    BY <1>1, <1>7, <1>10, <1>11, <1>kept DEF Touches
  <1>13. r.stale \/ Valid(m)' \subseteq {t}
    <2>1. SUFFICES ASSUME Valid(m) \subseteq r.seen, NEW u \in Tokens \ {t},
                          invites'[u] = [member |-> m, is |-> "VALID"]
                   PROVE  FALSE
      BY <1>8 DEF Valid
    <2>2. CASE u \in OlderInvites(r)
      <3>1. invites'[u] = [invites[u] EXCEPT !.is = "SPENT"]
        BY <1>5, <2>1, <2>2
      <3>2. invites'[u].is = "SPENT"
        BY <1>3, <2>1, <3>1 DEF TypeOK
      <3>3. QED
        BY <2>1, <3>2
    <2>3. CASE u \notin OlderInvites(r)
      <3>1. invites[u] = [member |-> m, is |-> "VALID"]
        BY <1>5, <2>1, <2>3
      <3>2. u \in r.seen /\ invites[u].is = "VALID"
        BY <2>1, <3>1 DEF Valid
      <3>3. QED
        BY <2>3, <3>2 DEF OlderInvites
    <2>4. QED
      BY <2>2, <2>3
  <1>14. r.stale \/ ActiveOwners \subseteq ActiveOwners'
    <2>1. SUFFICES ASSUME ~r.stale, NEW o \in ActiveOwners PROVE o \in ActiveOwners'
      OBVIOUS
    <2>2. o \in Members /\ status[o] = "ACTIVE" /\ role[o] = "OWNER"
      BY DEF ActiveOwners
    <2>3. o = m => r.op = "resend"
      BY <1>2, <1>8, <2>1, <2>2
    <2>4. status'[o] = "ACTIVE" /\ role'[o] = "OWNER"
      BY <1>1, <1>10, <2>2, <2>3
    <2>5. QED
      BY <2>2, <2>4 DEF ActiveOwners
  <1>15. status'[m] # "NONE" /\ (status'[m] = "ACTIVE" => password'[m])
    BY <1>1, <1>2, <1>7, <1>11 DEF IInv, ActiveHasPassword
  <1>16. QED
    BY <1>1, <1>4, <1>9, <1>12, <1>13, <1>14, <1>15, <1>new, CommitStep DEF r

LEMMA CommitActivateStep ==
  ASSUME IInv, NEW s \in Slots, CommitActivate(s)
  PROVE  IInv'
  <1> DEFINE r == req[s]
  <1>1. r.activates /\ Finish(s) /\ UNCHANGED <<password, invites, claims>>
        /\ status' = [status EXCEPT ![r.target] = "ACTIVE"]
        /\ role' = (IF r.op = "invite" THEN [role EXCEPT ![r.target] = r.newRole] ELSE role)
    BY DEF CommitActivate
  <1>2. r.op \in {"invite", "reactivate"}
    BY <1>1, IdleTyped DEF IInv, Checked
  <1>3. TypeOK /\ r \in Requests /\ r.target \in Members /\ Checked(r) /\ (r.stale \/ Current(r))
    BY <1>2, Committing
  <1>4. PICK m \in Members : m = r.target
    BY <1>3
  <1>5. /\ r.op = "invite" => r.newRole \in Roles
        /\ r.op # "invite" => status[m] # "NONE"
        /\ password[m]
    BY <1>1, <1>2, <1>3, <1>4 DEF Checked
  <1>6. r.stale \/ (r.op = "invite" => status[m] \in {"NONE", "DEACTIVATED"})
    BY <1>3, <1>4 DEF Current
  <1> HIDE DEF r
  <1>7. TypeOK'
    <2>1. status' \in [Members -> Statuses] /\ role' \in [Members -> Roles \cup {"NONE"}]
      BY <1>1, <1>3, <1>5 DEF TypeOK, Statuses
    <2>2. \A n \in Members : role'[n] = "NONE" <=> status'[n] = "NONE"
      BY <1>1, <1>2, <1>3, <1>4, <1>5, RoleNames DEF TypeOK
    <2>3. req' \in [Slots -> Requests]
      BY <1>1, <1>3, FinishFollows
    <2>4. QED
      BY <1>1, <1>3, <2>1, <2>2, <2>3 DEF TypeOK, Requests
  <1>8. /\ status'[m] = "ACTIVE" /\ (r.op # "invite" => role'[m] = role[m])
        /\ \A n \in Members : n # m => status'[n] = status[n] /\ role'[n] = role[n]
    BY <1>1, <1>3, <1>4 DEF TypeOK
  <1>9. \A n \in Members : Valid(n)' \subseteq Valid(n) /\ Unused(n) = Unused(n)' /\ Sent(n) = Sent(n)'
    BY <1>1 DEF Valid, Unused, Sent
  <1>10. Touches(m)
    BY <1>1, <1>8, <1>9 DEF Touches
  <1>11. r.stale \/ ActiveOwners \subseteq ActiveOwners'
    BY <1>6, <1>8 DEF ActiveOwners
  <1>12. QED
    BY <1>1, <1>4, <1>5, <1>7, <1>8, <1>9, <1>10, <1>11, CommitStep DEF r

LEMMA CommitAcceptStep ==
  ASSUME IInv, NEW s \in Slots, CommitAccept(s)
  PROVE  IInv'
  <1> DEFINE r == req[s]
  <1>1. r.op = "accept" /\ Finish(s) /\ UNCHANGED <<role, claims>>
        /\ password' = [password EXCEPT ![r.target] = TRUE]
        /\ status' = [status EXCEPT ![r.target] = "ACTIVE"]
        /\ invites' = [t \in Tokens |-> IF t \in r.seen THEN [invites[t] EXCEPT !.is = "SPENT"] ELSE invites[t]]
    BY DEF CommitAccept
  <1>2. TypeOK /\ r \in Requests /\ r.target \in Members /\ Checked(r)
    BY <1>1, Committing
  <1>3. PICK m \in Members : m = r.target
    BY <1>2
  <1>4. status[m] # "NONE"
    BY <1>1, <1>2, <1>3 DEF Checked
  <1>seen. \A t \in r.seen : t \in Tokens /\ invites[t].member = m /\ invites[t].is # "UNSENT"
    BY <1>1, <1>2, <1>3 DEF Checked, Sent
  <1> HIDE DEF r
  <1>5. TypeOK'
    <2>1. status' \in [Members -> Statuses] /\ password' \in [Members -> BOOLEAN]
      BY <1>1, <1>2 DEF TypeOK, Statuses
    <2>2. invites' \in [Tokens -> [member: Members \cup {"none"}, is: {"UNSENT", "VALID", "EXPIRED", "SPENT"}]]
      BY <1>1, <1>2 DEF TypeOK
    <2>3. \A n \in Members : role'[n] = "NONE" <=> status'[n] = "NONE"
      BY <1>1, <1>2, <1>3, <1>4 DEF TypeOK
    <2>4. req' \in [Slots -> Requests]
      BY <1>1, <1>2, FinishFollows
    <2>5. QED
      BY <1>1, <1>2, <2>1, <2>2, <2>3, <2>4 DEF TypeOK, Requests
  <1>6. /\ status'[m] = "ACTIVE" /\ password'[m] /\ role' = role
        /\ \A n \in Members : n # m => status'[n] = status[n] /\ password'[n] = password[n]
    BY <1>1, <1>2, <1>3 DEF TypeOK
  <1>7. \A n \in Members : Valid(n)' \subseteq Valid(n)
    <2>1. \A t \in Tokens : invites'[t].is = "VALID" => invites'[t] = invites[t]
      BY <1>1, <1>2 DEF TypeOK
    <2>2. QED
      BY <2>1 DEF Valid
  <1>kept. \A n \in Members : Sent(n) \subseteq Sent(n)' /\ (n # m => Unused(n) \subseteq Unused(n)')
    <2>1. \A t \in Tokens : /\ invites'[t].member = invites[t].member
                             /\ invites'[t].is = IF t \in r.seen THEN "SPENT" ELSE invites[t].is
      BY <1>1, <1>2 DEF TypeOK
    <2>2. QED
      BY <1>seen, <2>1 DEF Sent, Unused
  <1>8. Touches(m)
    BY <1>1, <1>6, <1>7, <1>kept DEF Touches
  <1>9. ActiveOwners \subseteq ActiveOwners'
    BY <1>6 DEF ActiveOwners
  <1>10. QED
    BY <1>1, <1>3, <1>5, <1>6, <1>7, <1>8, <1>9, CommitStep DEF r

\* A role change or deactivation that takes an owner has counted the others.
LEMMA TakesCounted ==
  ASSUME NEW r \in Requests, NEW m \in Members, m = r.target, r.op \in {"role", "deactivate"},
         r.stage # "uncounted", Checked(r), m \in ActiveOwners, r.op = "role" => r.newRole # "OWNER"
  PROVE  r.stale \/ (r.byOwner /\ ActiveOwners \ {m} # {})
  BY DEF Checked, Current, ActiveOwners

LEMMA CommitRoleStep ==
  ASSUME IInv, NEW s \in Slots, CommitRole(s)
  PROVE  IInv'
  <1> DEFINE r == req[s]
  <1>1. r.op = "role" /\ r.stage # "uncounted" /\ Finish(s)
        /\ role' = [role EXCEPT ![r.target] = r.newRole]
        /\ UNCHANGED <<status, password, invites, claims>>
    BY DEF CommitRole
  <1>2. TypeOK /\ r \in Requests /\ r.target \in Members /\ Checked(r)
    BY <1>1, Committing
  <1>3. PICK m \in Members : m = r.target
    BY <1>2
  <1>4. status[m] # "NONE" /\ r.newRole \in Roles
    BY <1>1, <1>2, <1>3 DEF Checked
  <1>5. TypeOK'
    <2>1. role' \in [Members -> Roles \cup {"NONE"}]
      BY <1>1, <1>2, <1>4 DEF TypeOK
    <2>2. \A n \in Members : role'[n] = "NONE" <=> status'[n] = "NONE"
      BY <1>1, <1>2, <1>3, <1>4, RoleNames DEF TypeOK
    <2>3. req' \in [Slots -> Requests]
      BY <1>1, <1>2, FinishFollows
    <2>4. QED
      BY <1>1, <1>2, <2>1, <2>2, <2>3 DEF TypeOK, Requests
  <1>6. role'[m] = r.newRole /\ \A n \in Members : n # m => role'[n] = role[n]
    BY <1>1, <1>2, <1>3 DEF TypeOK
  <1>7. \A n \in Members : Valid(n)' \subseteq Valid(n) /\ Unused(n) = Unused(n)' /\ Sent(n) = Sent(n)'
    BY <1>1 DEF Valid, Unused, Sent
  <1>8. Touches(m)
    BY <1>1, <1>6, <1>7 DEF Touches
  <1>9. r.stale \/ ActiveOwners \subseteq ActiveOwners' \/ ActiveOwners \ {m} # {}
    <2>1. CASE m \in ActiveOwners /\ r.newRole # "OWNER"
      BY <1>1, <1>2, <1>3, <2>1, TakesCounted
    <2>2. CASE ~ (m \in ActiveOwners /\ r.newRole # "OWNER")
      BY <1>1, <1>6, <2>2 DEF ActiveOwners
    <2>3. QED
      BY <2>1, <2>2
  <1>10. QED
    BY <1>1, <1>3, <1>4, <1>5, <1>7, <1>8, <1>9, CommitStep DEF IInv, ActiveHasPassword,
       InvitedHasInvite, Unused

LEMMA CommitDeactivateStep ==
  ASSUME IInv, NEW s \in Slots, CommitDeactivate(s)
  PROVE  IInv'
  <1> DEFINE r == req[s]
  <1>1. r.op = "deactivate" /\ r.stage # "uncounted" /\ Finish(s)
        /\ status' = [status EXCEPT ![r.target] = "DEACTIVATED"]
        /\ UNCHANGED <<role, password, invites, claims>>
    BY DEF CommitDeactivate
  <1>2. TypeOK /\ r \in Requests /\ r.target \in Members /\ Checked(r)
    BY <1>1, Committing
  <1>3. PICK m \in Members : m = r.target
    BY <1>2
  <1>4. status[m] # "NONE"
    BY <1>1, <1>2, <1>3 DEF Checked
  <1>5. TypeOK'
    <2>1. status' \in [Members -> Statuses]
      BY <1>1, <1>2 DEF TypeOK, Statuses
    <2>2. \A n \in Members : role'[n] = "NONE" <=> status'[n] = "NONE"
      BY <1>1, <1>2, <1>3, <1>4 DEF TypeOK
    <2>3. req' \in [Slots -> Requests]
      BY <1>1, <1>2, FinishFollows
    <2>4. QED
      BY <1>1, <1>2, <2>1, <2>2, <2>3 DEF TypeOK, Requests
  <1>6. status'[m] = "DEACTIVATED" /\ \A n \in Members : n # m => status'[n] = status[n]
    BY <1>1, <1>2, <1>3 DEF TypeOK
  <1>7. \A n \in Members : Valid(n)' \subseteq Valid(n) /\ Unused(n) = Unused(n)' /\ Sent(n) = Sent(n)'
    BY <1>1 DEF Valid, Unused, Sent
  <1>8. Touches(m)
    BY <1>1, <1>6, <1>7 DEF Touches
  <1>9. r.stale \/ ActiveOwners \subseteq ActiveOwners' \/ ActiveOwners \ {m} # {}
    <2>1. CASE m \in ActiveOwners
      BY <1>1, <1>2, <1>3, <2>1, TakesCounted
    <2>2. CASE m \notin ActiveOwners
      BY <1>1, <1>6, <2>2 DEF ActiveOwners
    <2>3. QED
      BY <2>1, <2>2
  <1>10. QED
    BY <1>1, <1>3, <1>5, <1>6, <1>7, <1>8, <1>9, CommitStep
--------------------------------------------------------------------------------
LEMMA InitHolds == Init => IInv
  <1> SUFFICES ASSUME Init PROVE IInv
    OBVIOUS
  <1>1. /\ \A m \in Members : /\ status[m] = IF m \in Founders THEN "ACTIVE" ELSE "NONE"
                              /\ role[m] = IF m \in Founders THEN "OWNER" ELSE "NONE"
                              /\ password[m] = (m \in Founders)
        /\ \A t \in Tokens : invites[t] = Unsent
    BY DEF Init
  <1>2. TypeOK
    <2>1. req \in [Slots -> Requests]
      BY IdleTyped DEF Init
    <2>2. status \in [Members -> Statuses] /\ role \in [Members -> Roles \cup {"NONE"}]
      BY MembersAssumption DEF Init, Statuses
    <2>3. \A m \in Members : role[m] = "NONE" <=> status[m] = "NONE"
      BY <1>1
    <2>4. password \in [Members -> BOOLEAN]
      BY DEF Init
    <2>5. invites \in [Tokens -> [member: Members \cup {"none"}, is: {"UNSENT", "VALID", "EXPIRED", "SPENT"}]]
      BY DEF Init, Unsent
    <2>6. claims \in [Members -> Roles \cup {"NONE", "OTHER"}]
      BY DEF Init
    <2>7. QED
      BY <2>1, <2>2, <2>3, <2>4, <2>5, <2>6 DEF TypeOK, Requests
  <1>3. ActiveHasPassword /\ InvitedHasInvite
    BY <1>1 DEF ActiveHasPassword, InvitedHasInvite
  <1>4. OwnerRemains
    BY <1>1, MembersAssumption DEF OwnerRemains, ActiveOwners
  <1>5. OneInvite
    <2>1. \A m \in Members : Valid(m) = {}
      BY <1>1 DEF Valid, Unsent
    <2>2. Cardinality({}) = 0
      BY FS_EmptySet
    <2>3. \A m \in Members : Cardinality(Valid(m)) = 0
      BY <2>1, <2>2
    <2>4. QED
      BY <2>3 DEF OneInvite
  <1>6. \A t \in Slots : Checked(req[t])
    BY IdleChecked DEF Init
  <1>7. QED
    BY <1>2, <1>3, <1>4, <1>5, <1>6 DEF IInv

LEMMA NextHolds == IInv /\ [Next]_vars => IInv'
  <1>1. SUFFICES ASSUME IInv, [Next]_vars PROVE IInv'
    OBVIOUS
  <1>2. ASSUME NEW s \in Slots,
               \/ ReadAccept(s) \/ CommitAccept(s) \/ ReadInvite(s) \/ ReadResend(s) \/ ReadReactivate(s)
               \/ BeginInvite(s) \/ CommitInvite(s) \/ CommitActivate(s) \/ ReadRole(s) \/ ReadDeactivate(s)
               \/ CountOwners(s) \/ CommitRole(s) \/ CommitDeactivate(s) \/ Abort(s)
        PROVE  IInv'
    BY <1>1, <1>2, ReadAcceptStep, CommitAcceptStep, ReadInviteStep, ReadResendStep, ReadReactivateStep,
       BeginInviteStep, CommitInviteStep, CommitActivateStep, ReadRoleStep, ReadDeactivateStep,
       CountOwnersStep, CommitRoleStep, CommitDeactivateStep, AbortStep
  <1>3. QED
    BY <1>1, <1>2, ExpireInviteStep, JoinsElsewhereStep, ClaimsStep, StutterStep DEF Next

THEOREM Invariance == Spec => []IInv
  BY InitHolds, NextHolds, PTL DEF Spec

\* Rows, tokens and open requests keep their types; a role and a membership come together.
THEOREM Typing == Spec => []TypeOK
  BY Invariance, PTL DEF IInv

\* Nobody is made active without a password, however requests about a member overlap.
THEOREM ActivesHavePasswords == Spec => []ActiveHasPassword
  BY Invariance, PTL DEF IInv

\* An organization without an active owner got there by a request whose reads another had
\* overtaken (ensureActiveOwnerCount counts outside the transaction that updates).
THEOREM OwnersRemain == Spec => []OwnerRemains
  BY Invariance, PTL DEF IInv

\* Two usable invitations of a member were sent by overlapping requests.
THEOREM InvitesAreUnique == Spec => []OneInvite
  BY Invariance, PTL DEF IInv

\* However inviting, resending and accepting overlap, an invited member has an invitation
\* that nobody has used and no newer one has replaced.
THEOREM InvitesOutlast == Spec => []InvitedHasInvite
  BY Invariance, PTL DEF IInv

--------------------------------------------------------------------------------
\* A step that takes the status or the role of an active owner is the commit of a
\* request for that member; the other slots keep their operation.
LEMMA WhoTakesOwners ==
  ASSUME IInv, [Next]_vars, NEW m \in ActiveOwners, m \notin ActiveOwners'
  PROVE  \E t \in Slots :
           /\ CommitRole(t) \/ CommitDeactivate(t) \/ CommitInvite(t) \/ CommitActivate(t)
           /\ req[t].op # "idle" /\ req[t].target = m
           /\ \A u \in Slots \ {t} : req'[u].op = req[u].op
  <1>1. TypeOK /\ m \in Members /\ status[m] = "ACTIVE" /\ role[m] = "OWNER"
    BY DEF IInv, ActiveOwners
  <1>2. status'[m] # "ACTIVE" \/ role'[m] # "OWNER"
    BY <1>1 DEF ActiveOwners
  <1>3. ~ UNCHANGED <<status, role>>
    BY <1>1, <1>2
  <1>4. PICK t \in Slots :
          CommitRole(t) \/ CommitDeactivate(t) \/ CommitInvite(t) \/ CommitActivate(t) \/ CommitAccept(t)
    BY <1>3 DEF Next, vars, rows, ExpireInvite, JoinsElsewhere, LogIn, TokenExpires, ReadAccept, ReadInvite, ReadResend,
       ReadReactivate, ReadRole, ReadDeactivate, BeginInvite, CountOwners, Abort, Begin
  <1>5. ~CommitAccept(t)
    BY <1>1, <1>2 DEF CommitAccept, TypeOK
  <1>6. req[t].op # "idle" /\ Finish(t)
    <2>1. Checked(req[t])
      BY DEF IInv
    <2>2. Finish(t)
      BY <1>4 DEF CommitRole, CommitDeactivate, CommitInvite, CommitActivate, CommitAccept
    <2>3. req[t] # Idle
      BY <1>4, IdleTyped DEF CommitRole, CommitDeactivate, CommitInvite, CommitActivate, CommitAccept
    <2>4. QED
      BY <2>1, <2>2, <2>3 DEF Checked
  <1>7. req[t].target = m
    BY <1>1, <1>2, <1>4, <1>5 DEF CommitRole, CommitDeactivate, CommitInvite, CommitActivate, TypeOK
  <1>8. \A u \in Slots \ {t} : req'[u].op = req[u].op
    <2>1. \A u \in Slots : req[u] \in Requests
      BY <1>1, ReqTyped
    <2>2. \A u \in Slots \ {t} : Follows(u, Changed(m))
      BY <1>1, <1>6, <1>7, FinishFollows
    <2>3. QED
      BY <2>1, <2>2 DEF Follows, Requests
  <1>9. QED
    BY <1>4, <1>5, <1>6, <1>7, <1>8

\* "Only owners can manage another owner": roles are compared when the request reads, and
\* with the role the token claims; an owner falls only to an owner's request or a stale one.
THEOREM OwnersFallToOwners == Spec => OnlyOwnersTakeOwners
  <1>1. ASSUME IInv, [Next]_vars, NEW m \in ActiveOwners, NEW s \in Slots,
               m \notin ActiveOwners', ~Free(s), req'[s] = Idle
        PROVE  req[s].byOwner \/ req[s].stale
    <2>1. PICK t \in Slots :
            /\ CommitRole(t) \/ CommitDeactivate(t) \/ CommitInvite(t) \/ CommitActivate(t)
            /\ req[t].op # "idle" /\ req[t].target = m
            /\ \A u \in Slots \ {t} : req'[u].op = req[u].op
      BY <1>1, WhoTakesOwners
    <2>2. t = s
      BY <1>1, <2>1, IdleTyped DEF Free
    <2>3. PICK r \in Requests : r = req[s]
      BY <1>1, ReqTyped DEF IInv
    <2>4. m \in Members /\ status[m] = "ACTIVE" /\ role[m] = "OWNER" /\ TypeOK /\ Checked(r) /\ r.target = m
      BY <1>1, <2>1, <2>2, <2>3 DEF ActiveOwners, IInv
    <2>5. CASE CommitRole(s)
      <3>1. r.op = "role" /\ r.stage # "uncounted" /\ role' = [role EXCEPT ![m] = r.newRole] /\ status' = status
        BY <2>3, <2>4, <2>5 DEF CommitRole
      <3>2. r.newRole # "OWNER"
        BY <1>1, <2>4, <3>1 DEF ActiveOwners, TypeOK
      <3>3. QED
        BY <1>1, <2>3, <2>4, <3>1, <3>2, TakesCounted
    <2>6. CASE CommitDeactivate(s)
      <3>1. r.op = "deactivate" /\ r.stage # "uncounted"
        BY <2>3, <2>6 DEF CommitDeactivate
      <3>2. QED
        BY <1>1, <2>3, <2>4, <3>1, TakesCounted
    <2>7. CASE CommitInvite(s)
      <3>1. r.stage = "begun" /\ r.op # "idle"
        BY <2>1, <2>2, <2>3, <2>7 DEF CommitInvite
      <3>2. r.op \in {"invite", "reactivate", "resend"} /\ ~r.activates
        BY <2>4, <3>1 DEF Checked
      <3>3. r.op # "resend"
        <4>1. SUFFICES ASSUME r.op = "resend" PROVE FALSE
          OBVIOUS
        <4>2. status' = status /\ role' = role
          BY <2>3, <2>7, <4>1 DEF CommitInvite
        <4>3. QED
          BY <1>1, <4>2 DEF ActiveOwners
      <3>4. r.stale
        BY <2>4, <3>1, <3>2, <3>3 DEF Checked, Current
      <3>5. QED
        BY <2>3, <3>4
    <2>8. CASE CommitActivate(s)
      <3>1. r.activates /\ r.op # "idle" /\ status' = [status EXCEPT ![m] = "ACTIVE"]
            /\ (r.op # "invite" => role' = role)
        BY <2>1, <2>2, <2>3, <2>4, <2>8 DEF CommitActivate
      <3>2. status'[m] = "ACTIVE"
        BY <2>4, <3>1 DEF TypeOK
      <3>3. r.op = "invite"
        BY <1>1, <2>4, <3>1, <3>2 DEF ActiveOwners
      <3>4. r.stale
        BY <2>4, <3>1, <3>3 DEF Checked, Current
      <3>5. QED
        BY <2>3, <3>4
    <2>9. QED
      BY <2>1, <2>2, <2>5, <2>6, <2>7, <2>8
  <1>2. IInv /\ [Next]_vars =>
          [\A m \in ActiveOwners, s \in Slots :
             m \notin ActiveOwners' /\ ~Free(s) /\ req'[s] = Idle => req[s].byOwner \/ req[s].stale]_vars
    BY <1>1
  <1>3. QED
    BY <1>2, Invariance, PTL DEF Spec, OnlyOwnersTakeOwners

\* An acceptance makes a deactivated member active only when it had found the member
\* invited before: acceptInvitation checks the status and writes it later.
THEOREM DeactivatedStayOut == Spec => DeactivationHolds
  <1>1. ASSUME IInv, [Next]_vars, NEW m \in Members, NEW s \in Slots,
               status[m] = "DEACTIVATED", status'[m] = "ACTIVE", req[s].op = "accept", req'[s] = Idle
        PROVE  req[s].stale
    <2>1. TypeOK /\ Checked(req[s]) /\ status' # status
      BY <1>1 DEF IInv
    <2>2. PICK t \in Slots :
            CommitRole(t) \/ CommitDeactivate(t) \/ CommitInvite(t) \/ CommitActivate(t) \/ CommitAccept(t)
      BY <1>1, <2>1 DEF Next, vars, rows, ExpireInvite, JoinsElsewhere, LogIn, TokenExpires, ReadAccept, ReadInvite,
         ReadResend, ReadReactivate, ReadRole, ReadDeactivate, BeginInvite, CountOwners, Abort, Begin
    <2>3. Finish(t)
      BY <2>2 DEF CommitRole, CommitDeactivate, CommitInvite, CommitActivate, CommitAccept
    <2>4. PICK n : n = req[t].target
      OBVIOUS
    <2>5. \A u \in Slots \ {t} : Follows(u, Changed(n))
      BY <2>1, <2>3, <2>4, FinishFollows
    <2>6. \A u \in Slots \ {t} : req'[u].op = req[u].op
      <3>1. \A u \in Slots : req[u] \in Requests
        BY <2>1, ReqTyped
      <3>2. QED
        BY <2>5, <3>1 DEF Follows, Requests
    <2>7. t = s
      BY <1>1, <2>6, IdleTyped
    <2>8. CommitAccept(s)
      <3>1. /\ req[s].stage = "begun" => req[s].op # "accept"
            /\ req[s].activates => req[s].op # "accept"
        BY <2>1 DEF Checked
      <3>2. QED
        BY <1>1, <2>2, <2>7, <3>1 DEF CommitRole, CommitDeactivate, CommitInvite, CommitActivate
    <2>9. req[s].target = m
      BY <1>1, <2>1, <2>8 DEF CommitAccept, TypeOK
    <2>10. QED
      BY <1>1, <2>1, <2>9 DEF Checked, Current
  <1>2. IInv /\ [Next]_vars =>
          [\A m \in Members, s \in Slots :
             status[m] = "DEACTIVATED" /\ status'[m] = "ACTIVE" /\ req[s].op = "accept" /\ req'[s] = Idle
               => req[s].stale]_vars
    BY <1>1
  <1>3. QED
    BY <1>2, Invariance, PTL DEF Spec, DeactivationHolds

--------------------------------------------------------------------------------
(* The rules of access: the hierarchy of team management agrees with the   *)
(* permissions, the web application offers what the backend accepts, and   *)
(* nobody passes on locations they do not have.                            *)

\* Nobody manages somebody of a higher tier.
LEMMA AboveIsLower ==
  ASSUME NEW actor \in AllRoles, NEW target \in AllRoles, Above(actor, target)
  PROVE  \/ actor = "OWNER"
         \/ actor = "MANAGER" /\ target \in {"CASHIER", "SUPPORT", "INVENTORY_CLERK"}
  BY DEF Above, ROLE_TIER, AllRoles

\* The permissions of each role, as far as the comparisons below need them.
LEMMA RoleHolds ==
  /\ Holds("OWNER") = Permissions
  /\ Holds("MANAGER") = Reading \cup Counting \cup Selling \cup Managing
  /\ Holds("CASHIER") = Reading \cup Selling
  /\ Holds("SUPPORT") = Reading
  /\ Holds("INVENTORY_CLERK") \subseteq Reading \cup Counting
  BY DEF Holds, ROLE_PERMISSIONS, AllRoles, Reading

LEMMA ManagerHoldsTheirs ==
  ASSUME NEW target \in {"CASHIER", "SUPPORT", "INVENTORY_CLERK"}
  PROVE  Holds(target) \subseteq Holds("MANAGER")
  BY RoleHolds

LEMMA OwnerHoldsAll ==
  ASSUME NEW target \in AllRoles
  PROVE  Holds(target) \subseteq Holds("OWNER")
  <1>1. Holds("MANAGER") \subseteq Permissions
    BY RoleHolds DEF Permissions
  <1>2. CASE target \in {"OWNER", "MANAGER"}
    BY <1>1, <1>2, RoleHolds
  <1>3. CASE target \in {"CASHIER", "SUPPORT", "INVENTORY_CLERK"}
    BY <1>1, <1>3, ManagerHoldsTheirs, RoleHolds
  <1>4. QED
    BY <1>2, <1>3 DEF AllRoles

--------------------------------------------------------------------------------
\* Whoever may hand out a role (canAssignRole) or manage a member of it
\* (canManageMember) has every permission of that role, and every route
\* PermissionsGuard opens for it is open to them too: an invitation or a change of
\* role never gives somebody more than the one who made it has.
THEOREM NobodyGrantsMore ==
  ASSUME NEW actor \in AllRoles, NEW target \in AllRoles,
         canAssignRole(actor, target) \/ canManageMember(actor, target, TRUE)
  PROVE  /\ Holds(target) \subseteq Holds(actor)
         /\ \A required, requiredAny :
              canActivate(target, required, requiredAny) => canActivate(actor, required, requiredAny)
  <1>1. \/ actor = "OWNER"
        \/ actor = "MANAGER" /\ target \in {"CASHIER", "SUPPORT", "INVENTORY_CLERK"}
    BY AboveIsLower DEF canAssignRole, canManageMember
  <1>2. Holds(target) \subseteq Holds(actor)
    BY <1>1, ManagerHoldsTheirs, OwnerHoldsAll
  <1>3. ASSUME NEW required, NEW requiredAny, canActivate(target, required, requiredAny)
        PROVE  canActivate(actor, required, requiredAny)
    <2>1. CASE actor = "OWNER"
      BY <1>3, <2>1 DEF canActivate
    <2>2. CASE actor # "OWNER"
      <3>1. target # "OWNER"
        BY <1>1, <2>2
      <3>2. required \subseteq Holds(target) /\ (requiredAny # {} => requiredAny \cap Holds(target) # {})
        BY <1>3, <3>1 DEF canActivate
      <3>3. required \subseteq Holds(actor) /\ (requiredAny # {} => requiredAny \cap Holds(actor) # {})
        BY <1>2, <3>2
      <3>4. QED
        BY <1>3, <2>2, <3>3 DEF canActivate
    <2>3. QED
      BY <2>1, <2>2
  <1>4. QED
    BY <1>2, <1>3

--------------------------------------------------------------------------------
LEMMA TeamPermissions ==
  ASSUME NEW actor \in {"OWNER", "MANAGER"}
  PROVE  MayReadTeam(actor) /\ MayManageTeam(actor) /\ MayReadDashboard(actor)
  <1>1. CASE actor = "OWNER"
    BY <1>1 DEF MayReadTeam, MayManageTeam, MayReadDashboard, canActivate, AllRoles
  <1>2. CASE actor = "MANAGER"
    <2>1. {"USERS_READ", "USERS_INVITE", "REPORTS_READ", "ORDERS_READ", "CUSTOMERS_READ", "INVENTORY_READ"}
            \subseteq Holds("MANAGER")
      BY RoleHolds DEF Reading, Managing
    <2>2. QED
      BY <1>2, <2>1 DEF MayReadTeam, MayManageTeam, MayReadDashboard, canActivate, AllRoles
  <1>3. QED
    BY <1>1, <1>2

\* What the web application shows as possible the backend does not refuse for the
\* user's role: the dashboard and team pages (dashboard-access.ts, team-access.ts),
\* changing a role and deactivating (team-member-sheet.tsx), and editing a profile
\* except that of another owner, which only the application offers.
THEOREM OfferedIsAccepted ==
  ASSUME NEW actor \in AllRoles, NEW target \in AllRoles, NEW newRole \in AllRoles,
         NEW isMe \in BOOLEAN, NEW itsStatus
  PROVE  /\ canAccessDashboard(actor) => MayReadDashboard(actor)
         /\ canAccessTeam(actor) => MayReadTeam(actor) /\ MayManageTeam(actor)
         /\ OffersRole(actor, isMe, target, newRole) => MayChangeRole(actor, target, newRole)
         /\ canDeactivateMember(actor, isMe, target, itsStatus) => MayDeactivate(actor, target)
         /\ canEditMemberProfile(actor, isMe, target)
              <=> MayEdit(actor, target, isMe) \/ (actor = "OWNER" /\ target = "OWNER")
  <1>1. canAccessDashboard(actor) => MayReadDashboard(actor)
    BY TeamPermissions DEF canAccessDashboard
  <1>2. canAccessTeam(actor) => MayReadTeam(actor) /\ MayManageTeam(actor)
    BY TeamPermissions DEF canAccessTeam
  <1>3. actor # "OWNER" /\ Above(actor, target) => target # "OWNER"
    BY AboveIsLower
  <1>4. OffersRole(actor, isMe, target, newRole) => MayChangeRole(actor, target, newRole)
    BY <1>3 DEF OffersRole, MayChangeRole, TakesOwner, canManageMember
  <1>5. canDeactivateMember(actor, isMe, target, itsStatus) => MayDeactivate(actor, target)
    BY <1>3 DEF canDeactivateMember, MayDeactivate, canManageMember
  <1>6. canEditMemberProfile(actor, isMe, target)
          <=> MayEdit(actor, target, isMe) \/ (actor = "OWNER" /\ target = "OWNER")
    BY DEF canEditMemberProfile, MayEdit, canManageMember
  <1>7. QED
    BY <1>1, <1>2, <1>4, <1>5, <1>6

--------------------------------------------------------------------------------
\* The locations somebody gives another member (resolveScopedLocationIds) show that
\* member nothing the giver does not see: also when the request names no location,
\* which for the membership itself would mean all of them.
THEOREM ScopeNeverWidens ==
  ASSUME NEW ids, NEW requested, NEW locations, NEW active \in SUBSET locations,
         NEW given \in Resolved(ScopeOf(ids), requested, active)
  PROVE  Visible(ScopeOf(given), locations) \subseteq Visible(ScopeOf(ids), locations)
  <1>1. CASE ids = {}
    BY <1>1 DEF Visible, ScopeOf
  <1>2. CASE ids # {}
    <2>1. ScopeOf(ids).hasAllLocations = FALSE /\ ScopeOf(ids).allowedLocationIds = ids
      BY <1>2 DEF ScopeOf
    <2>2. given # {} /\ given \subseteq active \cap ids
      BY <1>2, <2>1 DEF Resolved, Visible
    <2>3. ScopeOf(given).hasAllLocations = FALSE /\ ScopeOf(given).allowedLocationIds = given
      BY <2>2 DEF ScopeOf
    <2>4. QED
      BY <2>1, <2>2, <2>3 DEF Visible
  <1>3. QED
    BY <1>1, <1>2
================================================================================
