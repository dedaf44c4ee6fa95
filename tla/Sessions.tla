--------------------------------- MODULE Sessions ---------------------------------
(***************************************************************************)
(* The auth routes together with their clients: either the tabs of a       *)
(* member's browser, or the tools of the MCP server's service account.     *)
(***************************************************************************)
EXTENDS Browser, TokenManager

ASSUME NamesAssumption == "none" \notin Claims

VARIABLE uses   \* who uses the account: "browser" or "tools"

vars == <<authVars, browserVars, managerVars, uses>>

TypeOK == AuthTypeOK /\ BrowserTypeOK /\ ManagerTypeOK /\ uses \in {"browser", "tools"}

Init == AuthInit /\ BrowserInit /\ ManagerInit /\ uses \in {"browser", "tools"}

Tick == AuthTick /\ BrowserTick /\ ManagerTick /\ UNCHANGED uses

Server(c) == (Serve(c) \/ Fail(c)) /\ UNCHANGED <<browserVars, managerVars, uses>>

Management ==
  /\ BeginDeactivate \/ Deactivate \/ Reactivate \/ ChangeMembership
  /\ UNCHANGED <<browserVars, managerVars, uses>>

\* The MCP server's session runs out as well, and the server keeps presenting it.
SessionEnds == \E s \in Sessions : session[s] = "VALID" /\ RunsOut(s) /\ UNCHANGED <<managerVars, uses>>

RestartBrowser == uses = "browser" /\ Restart /\ UNCHANGED <<managerVars, uses>>

\* Users open pages and call tools; the rest goes on by itself.
UserActs(c)  == uses = "browser" /\ Act(c) /\ UNCHANGED <<managerVars, uses>>
ToolCalls(c) == uses = "tools" /\ Ask(c) /\ UNCHANGED <<browserVars, uses>>

GoesOn(c) ==
  \/ Server(c)
  \/ Step(c) /\ UNCHANGED <<managerVars, uses>>
  \/ ToolStep(c) /\ UNCHANGED <<browserVars, uses>>

Next ==
  \/ Tick \/ Management \/ SessionEnds \/ RestartBrowser
  \/ \E c \in Clients : UserActs(c) \/ ToolCalls(c) \/ GoesOn(c)

Spec == Init /\ [][Next]_vars

\* A request is answered or its connection fails, pages and tools go on when they can,
\* time passes.  Nobody has to act.
Fairness == WF_vars(Tick) /\ \A c \in Clients : WF_vars(GoesOn(c))

FairSpec == Spec /\ Fairness

--------------------------------------------------------------------------------
(* Properties *)

\* A role or location list that a membership has lost is believed for the life of an
\* access token and no longer, whatever cookies, tools and late answers do with tokens.
ClaimsAreRecent ==
  /\ Recent(access) /\ Recent(cached)
  /\ \A c \in Clients : Recent(call[c].token)

\* A session from before a deactivation does not come back with the membership, also
\* when its login had slipped through the revocation (deactivateMember, reactivateMember).
OldSessionsStayDead == \A s \in missed : session[s] = "VALID" => status = "DEACTIVATED"

\* A client that has an access token can renew it.  The exceptions: a browser restart or
\* the end of a session took the other cookies, or an answer came after a sign-out, or
\* after another tool's refresh had failed.
TokensCanBeRenewed ==
  /\ access # NoToken /\ ~Known => orphaned
  /\ cached # NoToken /\ kept = NoSession => dropped

\* A page, a form or an error is shown in the end, and a tool gets its token or an error:
\* redirects between the pages and the login page stop when the token they disagree
\* about expires.
RequestsEnd ==
  \A c \in Clients :
    tab[c] \in Working \/ tool[c] # "idle" ~> tab[c] \in Stays /\ tool[c] = "idle"
================================================================================
