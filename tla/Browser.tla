--------------------------------- MODULE Browser ---------------------------------
(***************************************************************************)
(* The web application's part in a session: the middleware that guards the *)
(* pages, the login, logout and refresh route handlers, and the tabs of    *)
(* one browser, which share the cookies.                                   *)
(*                                                                         *)
(* A page reads the access token cookie when it is mounted and keeps that  *)
(* copy; copies age like the cookie and are not modelled.  A route handler *)
(* and the browser's processing of its cookies are one step.               *)
(***************************************************************************)
EXTENDS Auth

CONSTANT
  Buffer       \* the middleware's 60 seconds, in ticks

ASSUME BufferAssumption == Buffer \in 0..Life

VARIABLES
  tab,         \* what each tab shows or waits for
  access,      \* ACCESS_TOKEN cookie, which lives as long as the token
  refresh,     \* REFRESH_TOKEN cookie
  userId,      \* the USER_ID cookie is there
  orphaned     \* ghost: why an access token cookie may be left without the others

jar         == <<access, refresh, userId, orphaned>>
browserVars == <<tab, jar>>

Stays   == {"blank", "page", "form"}       \* blank: closed, or an error
Working == {"asked", "asksLogin", "refreshing", "submitting", "leaving", "renewing"}

BrowserTypeOK ==
  /\ tab \in [Clients -> Stays \cup Working]
  /\ access \in Tokens /\ refresh \in Sessions \cup {NoSession} /\ userId \in BOOLEAN
  /\ orphaned \in BOOLEAN

BrowserInit ==
  /\ tab = [t \in Clients |-> "blank"]
  /\ access = NoToken /\ refresh = NoSession /\ userId = FALSE /\ orphaned = FALSE

\* isTokenExpired, negated: more than the buffer remains.
Fresh == access.left > Buffer
Known == refresh # NoSession /\ userId

Goes(t, where)  == tab' = [tab EXCEPT ![t] = where]
AsksRefresh(t)  == call' = [call EXCEPT ![t] = Sent("refresh", refresh, NoToken)]
Takes(t)        == call' = [call EXCEPT ![t] = Idle]
Waits(t, where) == tab[t] = where /\ Answered(t)
Cleared         == access' = NoToken /\ refresh' = NoSession /\ userId' = FALSE /\ orphaned' = FALSE

--------------------------------------------------------------------------------
(* The middleware *)

\* Somebody opens a private page; leaving a form or a page for another one included.
Visit(t) ==
  /\ tab[t] \in Stays /\ Goes(t, "asked")
  /\ UNCHANGED <<authVars, jar>>

Redirect(t) ==
  /\ tab[t] = "asked" /\ ~Known /\ Goes(t, "asksLogin")
  /\ UNCHANGED <<authVars, jar>>

Admit(t) ==
  /\ tab[t] = "asked" /\ Known /\ Fresh /\ Goes(t, "page")
  /\ UNCHANGED <<authVars, jar>>

AskRefresh(t) ==
  /\ tab[t] = "asked" /\ Known /\ ~Fresh
  /\ Goes(t, "refreshing") /\ AsksRefresh(t)
  /\ UNCHANGED <<member, session, missed, jar>>

\* A new access token is stored whatever has become of the other cookies.
StoreAccess(t) ==
  /\ access' = call[t].token
  /\ orphaned' = (orphaned \/ ~Known)
  /\ UNCHANGED <<refresh, userId>>

ClearsFailed == Cleared

\* When the fetch throws, the request fails with an error and nothing is cleared.
Refreshed(t) ==
  /\ Waits(t, "refreshing") /\ Takes(t)
  /\ \/ call[t].at = "ok" /\ StoreAccess(t) /\ Goes(t, "page")
     \/ call[t].at = "refused" /\ ClearsFailed /\ Goes(t, "asksLogin")
     \/ call[t].at = "refused" /\ UNCHANGED jar /\ Goes(t, "blank")
  /\ UNCHANGED <<member, session, missed>>

\* The login page, for somebody with a fresh access token the start page.
LoginPage(t) ==
  /\ tab[t] = "asksLogin" /\ Goes(t, IF Fresh THEN "asked" ELSE "form")
  /\ UNCHANGED <<authVars, jar>>

--------------------------------------------------------------------------------
(* Pages and route handlers *)

Submit(t) ==
  /\ tab[t] = "form" /\ Goes(t, "submitting")
  /\ call' = [call EXCEPT ![t] = Sent("login", NoSession, NoToken)]
  /\ UNCHANGED <<member, session, missed, jar>>

LoggedIn(t) ==
  /\ Waits(t, "submitting") /\ Takes(t)
  /\ IF call[t].at = "ok"
       THEN /\ access' = call[t].token /\ refresh' = call[t].session /\ userId' = TRUE
            /\ orphaned' = FALSE /\ Goes(t, "asked")
       ELSE Goes(t, "form") /\ UNCHANGED jar
  /\ UNCHANGED <<member, session, missed>>

SignOut(t) ==
  /\ tab[t] = "page" /\ Goes(t, "leaving")
  /\ call' = [call EXCEPT ![t] = Sent("logout", NoSession, access)]
  /\ UNCHANGED <<member, session, missed, jar>>

\* The cookies are cleared whenever the backend has answered; with anything but success
\* the page stays.
KeepsAccess     == refresh' = NoSession /\ userId' = FALSE /\ UNCHANGED <<access, orphaned>>  \* mutated form
ClearsOnSignOut == Cleared

SignedOut(t) ==
  /\ Waits(t, "leaving") /\ Takes(t)
  /\ \/ call[t].at = "ok" /\ ClearsOnSignOut /\ Goes(t, "asksLogin")
     \/ call[t].at = "refused" /\ ClearsOnSignOut /\ Goes(t, "page")
     \/ call[t].at = "refused" /\ UNCHANGED jar /\ Goes(t, "page")
  /\ UNCHANGED <<member, session, missed>>

\* acceptInvite of somebody logged in: the refresh route, which asks only with both cookies.
Renew(t) ==
  /\ tab[t] = "page" /\ Known
  /\ Goes(t, "renewing") /\ AsksRefresh(t)
  /\ UNCHANGED <<member, session, missed, jar>>

Renewed(t) ==
  /\ Waits(t, "renewing") /\ Takes(t) /\ Goes(t, "page")
  /\ IF call[t].at = "ok" THEN StoreAccess(t) ELSE UNCHANGED jar
  /\ UNCHANGED <<member, session, missed>>

Step(t) ==
  \/ Redirect(t) \/ Admit(t) \/ AskRefresh(t) \/ Refreshed(t) \/ LoginPage(t)
  \/ LoggedIn(t) \/ SignedOut(t) \/ Renewed(t)

Act(t) == Visit(t) \/ Submit(t) \/ SignOut(t) \/ Renew(t)

--------------------------------------------------------------------------------
(* The browser *)

\* USER_ID has no max age: it goes with the browser, the token cookies stay.
Restart ==
  /\ tab' = [t \in Clients |-> "blank"]
  /\ call' = [c \in Clients |-> Idle]
  /\ userId' = FALSE /\ orphaned' = (orphaned \/ access # NoToken)
  /\ UNCHANGED <<member, session, missed, access, refresh>>

\* Seven days after a login both ends of the session run out.
RunsOut(s) ==
  /\ session' = [session EXCEPT ![s] = "ENDED"]
  /\ refresh' = IF refresh = s THEN NoSession ELSE refresh
  /\ orphaned' = (orphaned \/ (refresh = s /\ access # NoToken))
  /\ UNCHANGED <<member, missed, call, tab, access, userId>>

BrowserTick ==
  /\ access' = Aged(access) /\ orphaned' = (orphaned /\ Aged(access) # NoToken)
  /\ UNCHANGED <<tab, refresh, userId>>
================================================================================
