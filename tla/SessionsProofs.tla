------------------------------ MODULE SessionsProofs ------------------------------
(***************************************************************************)
(* What Sessions promises of tokens and sessions, for any number of tabs   *)
(* and tools, logins and membership values and any token life.             *)
(*                                                                         *)
(* The properties need two facts more: a login's answer names a session,   *)
(* and whoever waits for a login has asked for one.                        *)
(***************************************************************************)
EXTENDS Sessions, TLAPS

\* The browser and the tools do not use one account together.
Apart ==
  /\ uses = "tools" => \A c \in Clients : tab[c] = "blank"
  /\ uses = "browser" => \A c \in Clients : tool[c] = "idle"

\* Who waits for a login has asked for one, and its answer names the session.
LoginsAnswered ==
  \A c \in Clients :
    /\ tab[c] = "submitting" \/ tool[c] = "loggingIn" => call[c].op = "login"
    /\ call[c].op = "login" /\ call[c].at \in {"created", "checked", "ok"} => call[c].session \in Sessions

\* A tool asks for a refresh with a session; only a failing refresh takes it away.
RefreshHasSession == kept = NoSession /\ (\E c \in Clients : tool[c] = "refreshing") => dropped

ActiveIsRecent == status = "ACTIVE" => age[claims] = 0

MissedExist == \A s \in missed : session[s] # "NONE"

LEMMA NoTokenType == NoToken \in Tokens
BY DEF Tokens

LEMMA SignedType == ASSUME NEW v \in Claims PROVE [claims |-> v, left |-> Life] \in Tokens
BY LifeAssumption DEF Tokens

--------------------------------------------------------------------------------
(* Types *)

LEMMA ServerTypes ==
  ASSUME AuthTypeOK, NEW c \in Clients, Serve(c) \/ Fail(c)
  PROVE  AuthTypeOK'
<1> USE NoTokenType, SignedType DEF AuthTypeOK, member, Calls
<1>1. CASE CreateSession(c)
  <2>1. PICK s \in Sessions :
          /\ session' = [session EXCEPT ![s] = "VALID"]
          /\ call' = [call EXCEPT ![c].at = "created", ![c].session = s]
    BY <1>1 DEF CreateSession
  <2>2. call' = [call EXCEPT ![c] = [call[c] EXCEPT !.at = "created", !.session = s]]
    BY <2>1
  <2>3. [call[c] EXCEPT !.at = "created", !.session = s] \in Calls
    BY DEF Calls
  <2>4. call' \in [Clients -> Calls]
    <3> HIDE DEF Calls
    <3> QED BY <2>2, <2>3
  <2>5. session' \in [Sessions -> {"NONE", "VALID", "ENDED"}]
    BY <2>1
  <2>6. UNCHANGED <<member, missed>>
    BY <1>1 DEF CreateSession
  <2> QED BY <2>4, <2>5, <2>6
<1>2. CASE CheckSession(c) BY <1>2 DEF CheckSession
<1>3. CASE Sign(c)
  <2>1. [claims |-> claims, left |-> Life] \in Tokens OBVIOUS
  <2>2. \E r \in Calls : call' = [call EXCEPT ![c] = r]
    <3>1. [call[c] EXCEPT !.at = "ok", !.token = [claims |-> claims, left |-> Life]] \in Calls
      BY <2>1 DEF Calls
    <3>2. [call[c] EXCEPT !.at = "refused", !.session = NoSession] \in Calls
      BY DEF Calls
    <3> QED BY <1>3, <3>1, <3>2 DEF Sign
  <2> QED BY <1>3, <2>2 DEF Sign
<1>4. CASE RevokeAll(c) BY <1>4 DEF RevokeAll, Revoked
<1>5. CASE Fail(c) BY <1>5 DEF Fail, Idle
<1> QED BY <1>1, <1>2, <1>3, <1>4, <1>5 DEF Serve

LEMMA ManagementTypes ==
  ASSUME AuthTypeOK, BeginDeactivate \/ Deactivate \/ Reactivate \/ ChangeMembership
  PROVE  AuthTypeOK'
<1> USE LifeAssumption DEF AuthTypeOK
<1>1. CASE BeginDeactivate BY <1>1 DEF BeginDeactivate, Revoked
<1>2. CASE Deactivate BY <1>2 DEF Deactivate
<1>3. CASE Reactivate BY <1>3 DEF Reactivate, Revoked, AfterReactivation
<1>4. CASE ChangeMembership BY <1>4 DEF ChangeMembership
<1> QED BY <1>1, <1>2, <1>3, <1>4

LEMMA AgedType == ASSUME NEW t \in Tokens PROVE Aged(t) \in Tokens
BY LifeAssumption DEF Aged, Tokens, NoToken

LEMMA TickTypes == ASSUME AuthTypeOK, AuthTick PROVE AuthTypeOK'
<1>1. age' \in [Claims -> 0..Life]
  BY LifeAssumption DEF AuthTypeOK, AuthTick, Older
<1>2. ASSUME NEW c \in Clients PROVE Aged(call[c].token) \in Tokens
  BY AgedType DEF AuthTypeOK, Calls
<1>3. call' \in [Clients -> Calls]
  BY <1>2 DEF AuthTypeOK, AuthTick, Calls
<1> QED BY <1>1, <1>3 DEF AuthTypeOK, AuthTick

LEMMA StepTypes ==
  ASSUME TypeOK, NEW c \in Clients, Act(c) \/ Step(c)
  PROVE  AuthTypeOK' /\ BrowserTypeOK'
<1> USE NoTokenType
    DEF TypeOK, AuthTypeOK, Calls, BrowserTypeOK, Goes, Takes, Waits, Working, Stays, Idle, Sent,
        AsksRefresh, StoreAccess, Cleared, authVars, member, jar
<1>1. CASE Visit(c) BY <1>1 DEF Visit
<1>2. CASE Redirect(c) BY <1>2 DEF Redirect
<1>3. CASE Admit(c) BY <1>3 DEF Admit
<1>4. CASE AskRefresh(c) BY <1>4 DEF AskRefresh
<1>5. CASE Refreshed(c) BY <1>5 DEF Refreshed, ClearsFailed
<1>6. CASE LoginPage(c) BY <1>6 DEF LoginPage
<1>7. CASE Submit(c) BY <1>7 DEF Submit
<1>8. CASE LoggedIn(c) BY <1>8 DEF LoggedIn
<1>9. CASE SignOut(c) BY <1>9 DEF SignOut
<1>10. CASE SignedOut(c) BY <1>10 DEF SignedOut, ClearsOnSignOut
<1>11. CASE Renew(c) BY <1>11 DEF Renew
<1>12. CASE Renewed(c) BY <1>12 DEF Renewed
<1> QED
  BY <1>1, <1>2, <1>3, <1>4, <1>5, <1>6, <1>7, <1>8, <1>9, <1>10, <1>11, <1>12 DEF Act, Step

LEMMA ToolTypes ==
  ASSUME TypeOK, NEW c \in Clients, Ask(c) \/ ToolStep(c)
  PROVE  AuthTypeOK' /\ ManagerTypeOK'
<1> USE NoTokenType
    DEF TypeOK, AuthTypeOK, Calls, ManagerTypeOK, Becomes, Got, Idle, Sent, authVars, member, managerState
<1>1. CASE Ask(c) BY <1>1 DEF Ask
<1>2. CASE UseCached(c) BY <1>2 DEF UseCached
<1>3. CASE AskAgain(c)
  <2>1. \E r \in Calls : call' = [call EXCEPT ![c] = r]
    BY <1>3 DEF AskAgain
  <2> QED BY <1>3, <2>1 DEF AskAgain
<1>4. CASE TokenRefreshed(c) BY <1>4 DEF TokenRefreshed
<1>5. CASE RefreshFailed(c) BY <1>5 DEF RefreshFailed, EmptiesState
<1>6. CASE ToolLoggedIn(c) BY <1>6 DEF ToolLoggedIn
<1> QED BY <1>1, <1>2, <1>3, <1>4, <1>5, <1>6 DEF ToolStep

\* Every step keeps the types.
LEMMA NextTypes == TypeOK /\ [Next]_vars => TypeOK'
<1> SUFFICES ASSUME TypeOK, [Next]_vars PROVE TypeOK'
  OBVIOUS
<1> USE DEF TypeOK
<1>1. CASE Tick
  <2>1. access \in Tokens /\ cached \in Tokens
    BY DEF BrowserTypeOK, ManagerTypeOK
  <2>2. Aged(access) \in Tokens /\ Aged(cached) \in Tokens
    BY <2>1, AgedType
  <2> QED
    BY <1>1, <2>2, TickTypes DEF Tick, BrowserTick, ManagerTick, BrowserTypeOK, ManagerTypeOK
<1>2. CASE Management
  BY <1>2, ManagementTypes
  DEF Management, browserVars, jar, managerVars, managerState, BrowserTypeOK, ManagerTypeOK
<1>3. CASE SessionEnds
  <2>1. PICK s \in Sessions : RunsOut(s) /\ UNCHANGED <<managerVars, uses>>
    BY <1>3 DEF SessionEnds
  <2>2. AuthTypeOK' BY <2>1 DEF RunsOut, AuthTypeOK, member
  <2>3. BrowserTypeOK' BY <2>1 DEF RunsOut, BrowserTypeOK
  <2> QED BY <2>1, <2>2, <2>3 DEF managerVars, managerState, ManagerTypeOK
<1>4. CASE RestartBrowser
  <2>1. Idle \in Calls BY NoTokenType DEF Idle, Calls
  <2> QED
    BY <1>4, <2>1
    DEF RestartBrowser, Restart, AuthTypeOK, BrowserTypeOK, Stays, member, managerVars,
        managerState, ManagerTypeOK
<1>5. ASSUME NEW c \in Clients, UserActs(c) PROVE TypeOK'
  BY <1>5, StepTypes DEF UserActs, managerVars, managerState, ManagerTypeOK
<1>6. ASSUME NEW c \in Clients, ToolCalls(c) PROVE TypeOK'
  BY <1>6, ToolTypes DEF ToolCalls, browserVars, jar, BrowserTypeOK
<1>7. ASSUME NEW c \in Clients, GoesOn(c) PROVE TypeOK'
  <2>1. CASE Server(c)
    BY <2>1, ServerTypes
    DEF Server, browserVars, jar, managerVars, managerState, BrowserTypeOK, ManagerTypeOK
  <2>2. CASE Step(c) /\ UNCHANGED <<managerVars, uses>>
    BY <2>2, StepTypes DEF managerVars, managerState, ManagerTypeOK
  <2>3. CASE ToolStep(c) /\ UNCHANGED <<browserVars, uses>>
    BY <2>3, ToolTypes DEF browserVars, jar, BrowserTypeOK
  <2> QED BY <1>7, <2>1, <2>2, <2>3 DEF GoesOn
<1>8. CASE UNCHANGED vars
  BY <1>8
  DEF vars, authVars, member, browserVars, jar, managerVars, managerState, AuthTypeOK,
      BrowserTypeOK, ManagerTypeOK
<1> QED BY <1>1, <1>2, <1>3, <1>4, <1>5, <1>6, <1>7, <1>8 DEF Next

\* In every state the variables have their types.
THEOREM Typing == Spec => []TypeOK
<1>1. Init => TypeOK
  <2> SUFFICES ASSUME Init PROVE TypeOK
    OBVIOUS
  <2>1. Idle \in Calls BY NoTokenType DEF Idle, Calls
  <2>2. AuthTypeOK
    <3>1. age \in [Claims -> 0..Life] BY LifeAssumption DEF Init, AuthInit
    <3>2. call \in [Clients -> Calls] BY <2>1 DEF Init, AuthInit
    <3> QED BY <3>1, <3>2 DEF Init, AuthInit, AuthTypeOK
  <2> QED
    BY <2>2, NoTokenType
    DEF Init, TypeOK, BrowserInit, BrowserTypeOK, Stays, ManagerInit, ManagerTypeOK
<1> QED BY <1>1, NextTypes, PTL DEF Spec

--------------------------------------------------------------------------------
(* Tokens say what was true a token's life ago at most *)

\* A tick ages a token as much as what it says.
LEMMA AgedRecent ==
  ASSUME AuthTypeOK, AuthTick, NEW t \in Tokens, Recent(t)
  PROVE  Recent(Aged(t))'
<1>1. CASE t.left <= 1 BY <1>1 DEF Aged, Recent
<1>2. CASE t.left > 1
  <2>1. t \in [claims: Claims, left: 1..Life] BY <1>2 DEF Tokens, NoToken
  <2>2. age'[t.claims] <= age[t.claims] + 1
    BY <2>1, LifeAssumption DEF AuthTick, Older, AuthTypeOK
  <2>3. age[t.claims] <= Life - t.left BY <1>2, <2>1 DEF Recent, NoToken
  <2>4. Aged(t) = [t EXCEPT !.left = t.left - 1] BY <1>2, <2>1, LifeAssumption DEF Aged
  <2>5. age'[t.claims] \in Int /\ age[t.claims] \in Int
    BY <2>1, LifeAssumption DEF AuthTick, Older, AuthTypeOK
  <2> QED BY <2>1, <2>2, <2>3, <2>4, <2>5, LifeAssumption DEF Recent
<1> QED BY <1>1, <1>2, LifeAssumption DEF Tokens, NoToken

\* The tokens that are anywhere.
Held == {access, cached, NoToken} \cup {call[c].token : c \in Clients}

\* Tokens that were somewhere before are as recent as they were.
LEMMA CopiesAreRecent ==
  ASSUME ClaimsAreRecent, UNCHANGED age, access' \in Held, cached' \in Held,
         \A c \in Clients : call'[c].token \in Held
  PROVE  ClaimsAreRecent'
<1>1. ASSUME NEW t \in Held PROVE Recent(t)'
  BY <1>1 DEF Held, ClaimsAreRecent, Recent
<1> QED BY <1>1 DEF ClaimsAreRecent

LEMMA ServerRecent ==
  ASSUME TypeOK, ActiveIsRecent, ClaimsAreRecent, NEW c \in Clients, Server(c)
  PROVE  ClaimsAreRecent' /\ ActiveIsRecent'
<1> USE DEF TypeOK, AuthTypeOK, Calls, member
<1>1. UNCHANGED <<status, claims, age, access, cached>>
  BY DEF Server, Serve, CreateSession, CheckSession, Sign, RevokeAll, Fail, browserVars, jar,
         managerVars, managerState
<1>2. ActiveIsRecent' BY <1>1 DEF ActiveIsRecent
<1>3. CASE Sign(c) /\ HasMembership
  <2>1. Recent([claims |-> claims, left |-> Life])
    BY <1>3, LifeAssumption DEF HasMembership, ActiveIsRecent, Recent
  <2>2. \A d \in Clients : call'[d].token \in {call[d].token, [claims |-> claims, left |-> Life]}
    BY <1>3 DEF Sign
  <2> QED BY <1>1, <1>2, <2>1, <2>2 DEF ClaimsAreRecent, Recent
<1>4. CASE ~(Sign(c) /\ HasMembership)
  <2>1. \A d \in Clients : call'[d].token \in {call[d].token, NoToken}
    <3>1. CASE CreateSession(c) BY <3>1 DEF CreateSession
    <3>2. CASE CheckSession(c) BY <3>2 DEF CheckSession
    <3>3. CASE Sign(c) BY <1>4, <3>3 DEF Sign
    <3>4. CASE RevokeAll(c) BY <3>4 DEF RevokeAll
    <3>5. CASE Fail(c) BY <3>5 DEF Fail, Idle
    <3> QED BY <3>1, <3>2, <3>3, <3>4, <3>5 DEF Server, Serve
  <2> QED BY <1>1, <1>2, <2>1, CopiesAreRecent DEF Held
<1> QED BY <1>3, <1>4

LEMMA ManagementRecent ==
  ASSUME TypeOK, ActiveIsRecent, ClaimsAreRecent, Management
  PROVE  ClaimsAreRecent' /\ ActiveIsRecent'
<1> USE LifeAssumption DEF TypeOK, AuthTypeOK
<1>1. UNCHANGED <<access, cached, call>>
  BY DEF Management, BeginDeactivate, Deactivate, Reactivate, ChangeMembership, browserVars, jar,
         managerVars, managerState
<1>2. \A v \in Claims : age'[v] \in {age[v], 0}
  BY DEF Management, BeginDeactivate, Deactivate, Reactivate, ChangeMembership
<1>3. ActiveIsRecent'
  BY DEF Management, BeginDeactivate, Deactivate, Reactivate, ChangeMembership, ActiveIsRecent
<1>4. ASSUME NEW t \in Tokens, Recent(t) PROVE Recent(t)'
  <2>1. CASE t = NoToken BY <2>1 DEF Recent
  <2>2. CASE t \in [claims: Claims, left: 1..Life] BY <1>2, <1>4, <2>2 DEF Recent
  <2> QED BY <2>1, <2>2 DEF Tokens
<1>5. access \in Tokens /\ cached \in Tokens /\ \A c \in Clients : call[c].token \in Tokens
  BY DEF BrowserTypeOK, ManagerTypeOK, Calls
<1> QED BY <1>1, <1>3, <1>4, <1>5 DEF ClaimsAreRecent

LEMMA ClientRecent ==
  ASSUME TypeOK, ActiveIsRecent, ClaimsAreRecent, NEW c \in Clients,
         \/ (Act(c) \/ Step(c)) /\ UNCHANGED managerVars
         \/ (Ask(c) \/ ToolStep(c)) /\ UNCHANGED browserVars
  PROVE  ClaimsAreRecent' /\ ActiveIsRecent'
<1> USE DEF TypeOK, AuthTypeOK, Calls, authVars, member, browserVars, jar, managerVars, managerState,
            Idle, Sent
<1>1. UNCHANGED <<status, claims, age>>
  BY DEF Act, Step, Visit, Redirect, Admit, AskRefresh, Refreshed, LoginPage, Submit, LoggedIn,
         SignOut, SignedOut, Renew, Renewed, Ask, ToolStep, UseCached, AskAgain, TokenRefreshed,
         RefreshFailed, ToolLoggedIn
<1>2. ActiveIsRecent' BY <1>1 DEF ActiveIsRecent
<1>3. \A d \in Clients : call'[d].token \in {call[d].token, access, NoToken}
  BY DEF Act, Step, Visit, Redirect, Admit, AskRefresh, Refreshed, LoginPage, Submit, LoggedIn,
         SignOut, SignedOut, Renew, Renewed, Ask, ToolStep, UseCached, AskAgain, TokenRefreshed,
         RefreshFailed, ToolLoggedIn, Takes, AsksRefresh
<1>4. access' \in {access, NoToken, call[c].token}
  BY DEF Act, Step, Visit, Redirect, Admit, AskRefresh, Refreshed, LoginPage, Submit, LoggedIn,
         SignOut, SignedOut, Renew, Renewed, StoreAccess, Cleared, ClearsFailed, ClearsOnSignOut
<1>5. cached' \in {cached, NoToken, call[c].token}
  BY DEF Ask, ToolStep, UseCached, AskAgain, TokenRefreshed, RefreshFailed, EmptiesState, ToolLoggedIn
<1> QED BY <1>1, <1>2, <1>3, <1>4, <1>5, CopiesAreRecent DEF Held

LEMMA NextRecent ==
  TypeOK /\ ActiveIsRecent /\ ClaimsAreRecent /\ [Next]_vars => ClaimsAreRecent' /\ ActiveIsRecent'
<1> SUFFICES ASSUME TypeOK, ActiveIsRecent, ClaimsAreRecent, [Next]_vars
             PROVE  ClaimsAreRecent' /\ ActiveIsRecent'
  OBVIOUS
<1>1. CASE Tick
  <2>1. access \in Tokens /\ cached \in Tokens /\ \A c \in Clients : call[c].token \in Tokens
    BY DEF TypeOK, AuthTypeOK, BrowserTypeOK, ManagerTypeOK, Calls
  <2>2. \A t \in Tokens : Recent(t) => Recent(Aged(t))'
    BY <1>1, AgedRecent DEF Tick, TypeOK
  <2>3. access' = Aged(access) /\ cached' = Aged(cached)
    BY <1>1 DEF Tick, BrowserTick, ManagerTick
  <2>4. \A c \in Clients : call'[c].token = Aged(call[c].token)
    BY <1>1 DEF Tick, AuthTick, TypeOK, AuthTypeOK, Calls
  <2>5. ClaimsAreRecent'
    <3>1. Recent(access)' /\ Recent(cached)'
      BY <2>1, <2>2, <2>3 DEF ClaimsAreRecent, Recent
    <3>2. ASSUME NEW c \in Clients PROVE Recent(call[c].token)'
      BY <2>1, <2>2, <2>4 DEF ClaimsAreRecent, Recent
    <3> QED BY <3>1, <3>2 DEF ClaimsAreRecent
  <2>6. ActiveIsRecent'
    BY <1>1 DEF Tick, AuthTick, Older, ActiveIsRecent, TypeOK, AuthTypeOK
  <2> QED BY <2>5, <2>6
<1>2. CASE Management BY <1>2, ManagementRecent
<1>3. CASE SessionEnds \/ RestartBrowser \/ UNCHANGED vars
  <2>1. UNCHANGED <<status, claims, age, access, cached>>
    BY <1>3 DEF SessionEnds, RunsOut, RestartBrowser, Restart, vars, authVars, member, browserVars,
                jar, managerVars, managerState
  <2>2. \A c \in Clients : call'[c].token \in {call[c].token, NoToken}
    BY <1>3 DEF SessionEnds, RunsOut, RestartBrowser, Restart, vars, authVars, Idle
  <2> QED BY <2>1, <2>2, CopiesAreRecent DEF Held, ActiveIsRecent
<1>4. ASSUME NEW c \in Clients, UserActs(c) PROVE ClaimsAreRecent' /\ ActiveIsRecent'
  <2>1. Act(c) /\ UNCHANGED managerVars BY <1>4 DEF UserActs
  <2> QED BY <2>1, ClientRecent
<1>5. ASSUME NEW c \in Clients, ToolCalls(c) PROVE ClaimsAreRecent' /\ ActiveIsRecent'
  BY <1>5, ClientRecent DEF ToolCalls
<1>6. ASSUME NEW c \in Clients, GoesOn(c) PROVE ClaimsAreRecent' /\ ActiveIsRecent'
  <2>1. CASE Server(c) BY <2>1, ServerRecent
  <2>2. CASE Step(c) /\ UNCHANGED managerVars BY <2>2, ClientRecent
  <2>3. CASE ToolStep(c) /\ UNCHANGED browserVars BY <2>3, ClientRecent
  <2> QED BY <1>6, <2>1, <2>2, <2>3 DEF GoesOn
<1> QED BY <1>1, <1>2, <1>3, <1>4, <1>5, <1>6 DEF Next

\* No cookie, tool or answer holds a token whose role and locations are out of date by
\* more than its age.
THEOREM RecentClaims == Spec => []ClaimsAreRecent
<1>1. Init => ClaimsAreRecent /\ ActiveIsRecent
  BY DEF Init, AuthInit, BrowserInit, ManagerInit, Idle, ClaimsAreRecent, ActiveIsRecent, Recent
<1>2. TypeOK /\ ClaimsAreRecent /\ ActiveIsRecent /\ [Next]_vars => (ClaimsAreRecent /\ ActiveIsRecent)'
  BY NextRecent
<1> QED BY <1>1, <1>2, Typing, PTL DEF Spec

--------------------------------------------------------------------------------
(* Sessions from before a deactivation *)

LEMMA ServerKeepsDead ==
  ASSUME TypeOK, MissedExist, OldSessionsStayDead, NEW c \in Clients, Server(c)
  PROVE  MissedExist' /\ OldSessionsStayDead'
<1> USE DEF TypeOK, AuthTypeOK, MissedExist, OldSessionsStayDead, member
<1>1. UNCHANGED <<status, missed>>
  BY DEF Server, Serve, CreateSession, CheckSession, Sign, RevokeAll, Fail
<1>2. CASE CreateSession(c) BY <1>1, <1>2 DEF CreateSession
<1>3. CASE RevokeAll(c) BY <1>1, <1>3 DEF RevokeAll, Revoked
<1>4. CASE CheckSession(c) \/ Sign(c) \/ Fail(c)
  BY <1>1, <1>4 DEF CheckSession, Sign, Fail
<1> QED BY <1>2, <1>3, <1>4 DEF Server, Serve

LEMMA NextKeepsDead ==
  TypeOK /\ MissedExist /\ OldSessionsStayDead /\ [Next]_vars => MissedExist' /\ OldSessionsStayDead'
<1> SUFFICES ASSUME TypeOK, MissedExist, OldSessionsStayDead, [Next]_vars
             PROVE  MissedExist' /\ OldSessionsStayDead'
  OBVIOUS
<1>1. CASE Management
  <2> USE DEF TypeOK, AuthTypeOK, MissedExist, OldSessionsStayDead
  <2>1. CASE BeginDeactivate BY <2>1 DEF BeginDeactivate, Revoked
  <2>2. CASE Deactivate BY <2>2 DEF Deactivate
  <2>3. CASE Reactivate BY <2>3 DEF Reactivate, AfterReactivation, Revoked
  <2>4. CASE ChangeMembership BY <2>4 DEF ChangeMembership
  <2> QED BY <1>1, <2>1, <2>2, <2>3, <2>4 DEF Management
<1>2. CASE SessionEnds
  BY <1>2
  DEF SessionEnds, RunsOut, member, TypeOK, AuthTypeOK, MissedExist, OldSessionsStayDead
<1>3. ASSUME NEW c \in Clients, Server(c) PROVE MissedExist' /\ OldSessionsStayDead'
  BY <1>3, ServerKeepsDead
<1>4. CASE UNCHANGED <<status, session, missed>>
  BY <1>4 DEF MissedExist, OldSessionsStayDead
<1>5. CASE Tick \/ RestartBrowser \/ UNCHANGED vars
  BY <1>4, <1>5 DEF Tick, AuthTick, RestartBrowser, Restart, member, vars, authVars
<1>6. ASSUME NEW c \in Clients, Act(c) \/ Step(c) PROVE UNCHANGED <<status, session, missed>>
  BY <1>6 DEF Act, Step, Visit, Redirect, Admit, AskRefresh, Refreshed, LoginPage, Submit, LoggedIn,
              SignOut, SignedOut, Renew, Renewed, authVars, member
<1>7. ASSUME NEW c \in Clients, Ask(c) \/ ToolStep(c) PROVE UNCHANGED <<status, session, missed>>
  BY <1>7 DEF Ask, ToolStep, UseCached, AskAgain, TokenRefreshed, RefreshFailed, ToolLoggedIn,
              authVars, member
<1> QED
  BY <1>1, <1>2, <1>3, <1>4, <1>5, <1>6, <1>7 DEF Next, UserActs, ToolCalls, GoesOn

\* Deactivation ends sessions for good, with those it has not revoked itself.
THEOREM DeadSessions == Spec => []OldSessionsStayDead
<1>1. Init => MissedExist /\ OldSessionsStayDead
  BY DEF Init, AuthInit, MissedExist, OldSessionsStayDead
<1> QED BY <1>1, NextKeepsDead, Typing, PTL DEF Spec

--------------------------------------------------------------------------------
(* Tokens and what renews them *)

Renewal == Apart /\ LoginsAnswered /\ RefreshHasSession /\ TokensCanBeRenewed

LEMMA ServerRenewal ==
  ASSUME TypeOK, Renewal, NEW c \in Clients, Server(c)
  PROVE  Renewal'
<1> USE DEF TypeOK, AuthTypeOK, Calls, Renewal, browserVars, jar, managerVars, managerState
<1>1. UNCHANGED <<browserVars, managerVars, uses>> BY DEF Server
<1>2. Apart' /\ RefreshHasSession' /\ TokensCanBeRenewed'
  BY <1>1 DEF Apart, RefreshHasSession, TokensCanBeRenewed, Known
<1>3. \A d \in Clients : call'[d].op = call[d].op
  <2>1. CASE CreateSession(c) BY <2>1 DEF CreateSession
  <2>2. CASE CheckSession(c) BY <2>2 DEF CheckSession
  <2>3. CASE Sign(c) BY <2>3 DEF Sign
  <2>4. CASE RevokeAll(c) BY <2>4 DEF RevokeAll
  <2>5. CASE Fail(c) BY <2>5 DEF Fail
  <2> QED BY <2>1, <2>2, <2>3, <2>4, <2>5 DEF Server, Serve
<1>4. \A d \in Clients : call'[d].op = "login" /\ call'[d].at \in {"created", "checked", "ok"}
                         => call'[d].session \in Sessions
  <2> USE DEF LoginsAnswered
  <2>1. CASE CreateSession(c) BY <2>1 DEF CreateSession
  <2>2. CASE CheckSession(c) BY <2>2 DEF CheckSession
  <2>3. CASE Sign(c) BY <2>3 DEF Sign
  <2>4. CASE RevokeAll(c) BY <2>4 DEF RevokeAll
  <2>5. CASE Fail(c) BY <2>5 DEF Fail, Idle
  <2> QED BY <2>1, <2>2, <2>3, <2>4, <2>5 DEF Server, Serve
<1> QED BY <1>1, <1>2, <1>3, <1>4 DEF LoginsAnswered

LEMMA BrowserRenewal ==
  ASSUME TypeOK, Renewal, NEW c \in Clients, UserActs(c) \/ (Step(c) /\ UNCHANGED <<managerVars, uses>>)
  PROVE  Renewal'
<1> USE NoTokenType
    DEF TypeOK, AuthTypeOK, BrowserTypeOK, Calls, authVars, jar, managerVars, managerState
<1> DEFINE R == /\ access' # NoToken /\ ~Known' => orphaned'
                /\ \A d \in Clients : tab'[d] = "submitting" => call'[d].op = "login"
                /\ \A d \in Clients :
                     call'[d].op = "login" /\ call'[d].at \in {"created", "checked", "ok"}
                       => call'[d].session \in Sessions
<1>1. uses = "browser" /\ UNCHANGED <<tool, cached, kept, dropped, uses>>
  <2>1. CASE UserActs(c) BY <2>1 DEF UserActs
  <2>2. CASE Step(c) /\ UNCHANGED <<managerVars, uses>>
    <3>1. tab[c] # "blank"
      BY <2>2 DEF Step, Redirect, Admit, AskRefresh, Refreshed, LoginPage, LoggedIn, SignedOut,
                  Renewed, Waits
    <3> QED BY <2>2, <3>1 DEF Renewal, Apart
  <2> QED BY <2>1, <2>2
<1>2. \A d \in Clients : tool'[d] = "idle" BY <1>1 DEF Renewal, Apart
<1>3. R
  <2> USE DEF Renewal, TokensCanBeRenewed, LoginsAnswered, Known, Goes, Takes, Waits, Idle, Sent,
              AsksRefresh, StoreAccess, Cleared
  <2>1. CASE Visit(c) BY <2>1 DEF Visit
  <2>2. CASE Redirect(c) BY <2>2 DEF Redirect
  <2>3. CASE Admit(c) BY <2>3 DEF Admit
  <2>4. CASE AskRefresh(c) BY <2>4 DEF AskRefresh
  <2>5. CASE Refreshed(c)
    <3>1. access' # NoToken /\ ~Known' => orphaned'
      <4>1. CASE call[c].at = "ok" /\ StoreAccess(c) BY <4>1
      <4>2. CASE ClearsFailed BY <4>2 DEF ClearsFailed
      <4>3. CASE UNCHANGED jar BY <4>3
      <4> QED BY <2>5, <4>1, <4>2, <4>3 DEF Refreshed
    <3>2. tab' = [tab EXCEPT ![c] = tab'[c]] /\ tab'[c] # "submitting"
      BY <2>5 DEF Refreshed
    <3> QED BY <2>5, <3>1, <3>2 DEF Refreshed
  <2>6. CASE LoginPage(c) BY <2>6 DEF LoginPage
  <2>7. CASE Submit(c) BY <2>7 DEF Submit
  <2>8. CASE LoggedIn(c)
    <3>1. call[c].at = "ok" => call[c].session \in Sessions /\ call[c].session # NoSession
      BY <2>8, LoginsAssumption DEF LoggedIn, Sessions, NoSession
    <3> QED BY <2>8, <3>1 DEF LoggedIn
  <2>9. CASE SignOut(c) BY <2>9 DEF SignOut
  <2>10. CASE SignedOut(c) BY <2>10 DEF SignedOut, ClearsOnSignOut
  <2>11. CASE Renew(c) BY <2>11 DEF Renew
  <2>12. CASE Renewed(c) BY <2>12 DEF Renewed
  <2> QED
    BY <2>1, <2>2, <2>3, <2>4, <2>5, <2>6, <2>7, <2>8, <2>9, <2>10, <2>11, <2>12
    DEF UserActs, Act, Step
<1> QED
  BY <1>1, <1>2, <1>3
  DEF Renewal, Apart, LoginsAnswered, RefreshHasSession, TokensCanBeRenewed

LEMMA ToolRenewal ==
  ASSUME TypeOK, Renewal, NEW c \in Clients, ToolCalls(c) \/ (ToolStep(c) /\ UNCHANGED <<browserVars, uses>>)
  PROVE  Renewal'
<1> USE NoTokenType
    DEF TypeOK, AuthTypeOK, ManagerTypeOK, Calls, authVars, managerState, browserVars, jar
<1> DEFINE R == /\ cached' # NoToken /\ kept' = NoSession => dropped'
                /\ RefreshHasSession'
                /\ \A d \in Clients : tool'[d] = "loggingIn" => call'[d].op = "login"
                /\ \A d \in Clients :
                     call'[d].op = "login" /\ call'[d].at \in {"created", "checked", "ok"}
                       => call'[d].session \in Sessions
<1>1. uses = "tools" /\ UNCHANGED <<tab, access, refresh, userId, orphaned, uses>>
  <2>1. CASE ToolCalls(c) BY <2>1 DEF ToolCalls
  <2>2. CASE ToolStep(c) /\ UNCHANGED <<browserVars, uses>>
    <3>1. tool[c] # "idle"
      BY <2>2 DEF ToolStep, UseCached, AskAgain, TokenRefreshed, RefreshFailed, ToolLoggedIn, Got
    <3> QED BY <2>2, <3>1 DEF Renewal, Apart
  <2> QED BY <2>1, <2>2
<1>2. \A d \in Clients : tab'[d] = "blank" BY <1>1 DEF Renewal, Apart
<1>3. R
  <2> USE DEF Renewal, TokensCanBeRenewed, LoginsAnswered, RefreshHasSession, Becomes, Got, Idle, Sent
  <2>1. CASE Ask(c) BY <2>1 DEF Ask
  <2>2. CASE UseCached(c) BY <2>2 DEF UseCached
  <2>3. CASE AskAgain(c) BY <2>3 DEF AskAgain
  <2>4. CASE TokenRefreshed(c) BY <2>4 DEF TokenRefreshed
  <2>5. CASE RefreshFailed(c) BY <2>5 DEF RefreshFailed, EmptiesState
  <2>6. CASE ToolLoggedIn(c)
    <3>1. call[c].at = "ok" => call[c].session \in Sessions /\ call[c].session # NoSession
      BY <2>6, LoginsAssumption DEF ToolLoggedIn, Sessions, NoSession
    <3> QED BY <2>6, <3>1 DEF ToolLoggedIn
  <2> QED BY <2>1, <2>2, <2>3, <2>4, <2>5, <2>6 DEF ToolCalls, ToolStep
<1>4. TokensCanBeRenewed' BY <1>1, <1>3 DEF Renewal, TokensCanBeRenewed, Known
<1> QED
  BY <1>1, <1>2, <1>3, <1>4 DEF Renewal, Apart, LoginsAnswered

LEMMA NextRenewal == TypeOK /\ Renewal /\ [Next]_vars => Renewal'
<1> SUFFICES ASSUME TypeOK, Renewal, [Next]_vars PROVE Renewal'
  OBVIOUS
<1> USE DEF Renewal, Apart, LoginsAnswered, RefreshHasSession, TokensCanBeRenewed, Known
<1>1. CASE Tick
  <2>1. Aged(NoToken) = NoToken BY DEF Aged, NoToken
  <2>2. UNCHANGED <<tab, tool, uses, refresh, userId, kept, dropped>>
    BY <1>1 DEF Tick, BrowserTick, ManagerTick
  <2>3. \A d \in Clients : UNCHANGED <<call[d].op, call[d].at, call[d].session>>
    BY <1>1 DEF Tick, AuthTick, TypeOK, AuthTypeOK, Calls
  <2>4. access' # NoToken /\ orphaned => orphaned'
    BY <1>1 DEF Tick, BrowserTick
  <2>5. access' = Aged(access) /\ cached' = Aged(cached)
    BY <1>1 DEF Tick, BrowserTick, ManagerTick
  <2> QED BY <2>1, <2>2, <2>3, <2>4, <2>5
<1>2. CASE Management
  BY <1>2
  DEF Management, BeginDeactivate, Deactivate, Reactivate, ChangeMembership, browserVars, jar,
      managerVars, managerState
<1>3. CASE SessionEnds
  <2>1. PICK s \in Sessions : RunsOut(s) /\ UNCHANGED <<managerVars, uses>>
    BY <1>3 DEF SessionEnds
  <2>2. access' # NoToken /\ ~Known' => orphaned'
    BY <2>1 DEF RunsOut, TypeOK, BrowserTypeOK
  <2> QED BY <2>1, <2>2 DEF RunsOut, managerVars, managerState
<1>4. CASE RestartBrowser BY <1>4 DEF RestartBrowser, Restart, managerVars, managerState, Idle
<1>5. CASE UNCHANGED vars
  BY <1>5 DEF vars, authVars, browserVars, jar, managerVars, managerState
<1>6. ASSUME NEW c \in Clients, UserActs(c) PROVE Renewal'
  BY <1>6, BrowserRenewal
<1>7. ASSUME NEW c \in Clients, ToolCalls(c) PROVE Renewal'
  BY <1>7, ToolRenewal
<1>8. ASSUME NEW c \in Clients, GoesOn(c) PROVE Renewal'
  BY <1>8, ServerRenewal, BrowserRenewal, ToolRenewal DEF GoesOn
<1> QED BY <1>1, <1>2, <1>3, <1>4, <1>5, <1>6, <1>7, <1>8 DEF Next

\* Whoever has an access token can renew it, but for the events that orphaned and dropped name.
THEOREM RenewableTokens == Spec => []TokensCanBeRenewed
<1>1. Init => Renewal
  BY DEF Init, AuthInit, BrowserInit, ManagerInit, Idle, Renewal, Apart, LoginsAnswered,
         RefreshHasSession, TokensCanBeRenewed
<1>2. Renewal => TokensCanBeRenewed BY DEF Renewal
<1> QED BY <1>1, <1>2, NextRenewal, Typing, PTL DEF Spec
================================================================================
