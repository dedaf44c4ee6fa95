---------------------------------- MODULE Auth ----------------------------------
(***************************************************************************)
(* AuthService: logins, refreshes and logouts of one user, and what team   *)
(* management does to the user's membership meanwhile.                     *)
(*                                                                         *)
(* An access token carries the membership (role and locations) as it was   *)
(* when the token was signed and is believed until it expires; a refresh   *)
(* token stands for a session row.  Clients (Browser, TokenManager) put    *)
(* their requests in call and find the answer there.                       *)
(*                                                                         *)
(* Time: a token has left ticks to live, Life when it is signed.           *)
(***************************************************************************)
EXTENDS Integers

CONSTANTS
  Clients,     \* who has requests to the auth routes: the tabs of a browser, or running tools
  Claims,      \* what a token may say of the membership: a role and locations
  MaxLogins,   \* bound: RefreshToken rows ever created
  Life         \* JwtModule expiresIn, in ticks

ASSUME LifeAssumption == Life \in Nat \ {0}
ASSUME LoginsAssumption == MaxLogins \in Nat

VARIABLES
  status,      \* Membership.status: "ACTIVE", "DEACTIVATED"
  claims,      \* Membership.role and locations
  leaving,     \* deactivateMember has revoked the sessions and not committed
  age,         \* ghost: ticks since a value was last that of an active membership, up to Life
  session,     \* RefreshToken rows: "NONE", "VALID", "ENDED": revoked or expired
  missed,      \* ghost: sessions that a deactivation did not revoke
  call         \* the request of each client and its answer

member   == <<status, claims, leaving, age>>
authVars == <<member, session, missed, call>>

Sessions  == 1..MaxLogins
NoToken   == [claims |-> "none", left |-> 0]
NoSession == 0
Idle      == [op |-> "none", at |-> "idle", session |-> NoSession, token |-> NoToken]
Tokens    == [claims: Claims, left: 1..Life] \cup {NoToken}

Calls ==
  [op: {"none", "login", "refresh", "logout"}, at: {"idle", "sent", "created", "checked", "ok", "refused"},
   session: Sessions \cup {NoSession}, token: Tokens]

AuthTypeOK ==
  /\ status \in {"ACTIVE", "DEACTIVATED"} /\ claims \in Claims /\ leaving \in BOOLEAN
  /\ age \in [Claims -> 0..Life]
  /\ session \in [Sessions -> {"NONE", "VALID", "ENDED"}]
  /\ missed \in SUBSET Sessions
  /\ call \in [Clients -> Calls]

AuthInit ==
  /\ status = "ACTIVE" /\ claims \in Claims /\ leaving = FALSE
  /\ age = [v \in Claims |-> IF v = claims THEN 0 ELSE Life]
  /\ session = [s \in Sessions |-> "NONE"] /\ missed = {}
  /\ call = [c \in Clients |-> Idle]

Answered(c) == call[c].at \in {"ok", "refused"}

\* A request of client c, with the session or the token it presents.
Sent(op, s, t) == [op |-> op, at |-> "sent", session |-> s, token |-> t]

--------------------------------------------------------------------------------
(* Requests *)

\* login, the password verified: the session is stored first ...
CreateSession(c) ==
  /\ call[c].op = "login" /\ call[c].at = "sent"
  /\ \E s \in Sessions :
       /\ session[s] = "NONE" /\ \A r \in Sessions : r < s => session[r] # "NONE"
       /\ session' = [session EXCEPT ![s] = "VALID"]
       /\ call' = [call EXCEPT ![c].at = "created", ![c].session = s]
  /\ UNCHANGED <<member, missed>>

\* refresh: the session must be one of the user's that is neither revoked nor expired.
CheckSession(c) ==
  /\ call[c].op = "refresh" /\ call[c].at = "sent"
  /\ call' = [call EXCEPT ![c].session = NoSession, ![c].at =
       IF call[c].session # NoSession /\ session[call[c].session] = "VALID" THEN "checked" ELSE "refused"]
  /\ UNCHANGED <<member, session, missed>>

\* ... and then the active membership is read and signed, or the request is refused.
AnyMembership == TRUE                                                   \* mutated form
HasMembership == status = "ACTIVE"

Sign(c) ==
  /\ call[c].at \in {"created", "checked"}
  /\ call' = IF HasMembership
               THEN [call EXCEPT ![c].at = "ok", ![c].token = [claims |-> claims, left |-> Life]]
               ELSE [call EXCEPT ![c].at = "refused", ![c].session = NoSession]
  /\ UNCHANGED <<member, session, missed>>

\* Every session of the user that is in use.
Revoked == [s \in Sessions |-> IF session[s] = "VALID" THEN "ENDED" ELSE session[s]]

\* logout requires an access token that is still valid.
RevokeAll(c) ==
  /\ call[c].op = "logout" /\ call[c].at = "sent"
  /\ IF call[c].token = NoToken
       THEN call' = [call EXCEPT ![c].at = "refused"] /\ UNCHANGED session
       ELSE call' = [call EXCEPT ![c].at = "ok", ![c].token = NoToken] /\ session' = Revoked
  /\ UNCHANGED <<member, missed>>

\* The server fails half way, or its answer does not arrive.
Fail(c) ==
  /\ call[c].op # "none" /\ call[c].at # "refused"
  /\ call' = [call EXCEPT ![c] = [Idle EXCEPT !.op = call[c].op, !.at = "refused"]]
  /\ UNCHANGED <<member, session, missed>>

Serve(c) == CreateSession(c) \/ CheckSession(c) \/ Sign(c) \/ RevokeAll(c)

--------------------------------------------------------------------------------
(* The membership *)

\* deactivateMember: one transaction, whose revocation sees the sessions stored by then.
BeginDeactivate ==
  /\ status = "ACTIVE" /\ ~leaving
  /\ leaving' = TRUE /\ session' = Revoked
  /\ UNCHANGED <<status, claims, age, missed, call>>

Deactivate ==
  /\ leaving
  /\ leaving' = FALSE /\ status' = "DEACTIVATED"
  /\ missed' = missed \cup {s \in Sessions : session[s] = "VALID"}
  /\ UNCHANGED <<claims, age, session, call>>

\* reactivateMember: the sessions are revoked once more.
KeepsSessions  == session                                               \* mutated form
AfterReactivation == Revoked

Reactivate ==
  /\ status = "DEACTIVATED"
  /\ status' = "ACTIVE" /\ age' = [age EXCEPT ![claims] = 0]
  /\ session' = AfterReactivation
  /\ UNCHANGED <<claims, leaving, missed, call>>

\* updateMemberRole, updateMemberLocations, deleteLocation.
ChangeMembership ==
  /\ \E v \in Claims \ {claims} :
       /\ claims' = v
       /\ age' = IF status = "ACTIVE" THEN [age EXCEPT ![v] = 0] ELSE age
  /\ UNCHANGED <<status, leaving, session, missed, call>>

--------------------------------------------------------------------------------
(* Time *)

CountsDown(t)   == [t EXCEPT !.left = @ - 1]                            \* mutated form
NeverExpires(t) == t                                                    \* mutated form
Aged(t)         == IF t.left <= 1 THEN NoToken ELSE [t EXCEPT !.left = @ - 1]

Older(v) == IF status = "ACTIVE" /\ v = claims THEN 0
            ELSE IF age[v] < Life THEN age[v] + 1 ELSE Life

AuthTick ==
  /\ age' = [v \in Claims |-> Older(v)]
  /\ call' = [c \in Clients |-> [call[c] EXCEPT !.token = Aged(@)]]
  /\ UNCHANGED <<status, claims, leaving, session, missed>>

Recent(t) == t = NoToken \/ age[t.claims] <= Life - t.left
================================================================================
