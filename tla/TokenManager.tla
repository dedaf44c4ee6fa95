------------------------------- MODULE TokenManager -------------------------------
(***************************************************************************)
(* The MCP server's TokenManager: one state, which the running tools share *)
(* and each changes when its own request to the auth routes is answered.   *)
(***************************************************************************)
EXTENDS Auth

CONSTANT
  BufferSec    \* TokenManager.BUFFER_SEC, in ticks

ASSUME BufferSecAssumption == BufferSec \in 0..Life

VARIABLES
  tool,        \* what each tool waits for
  cached,      \* state.accessToken, NoToken when state is null
  kept,        \* state.refreshToken, NoSession when state is null
  dropped      \* ghost: a failing refresh has emptied the state while another was asked

managerState == <<cached, kept, dropped>>
managerVars  == <<tool, managerState>>

ManagerTypeOK ==
  /\ tool \in [Clients -> {"idle", "asked", "refreshing", "loggingIn"}]
  /\ cached \in Tokens /\ kept \in Sessions \cup {NoSession} /\ dropped \in BOOLEAN

ManagerInit ==
  /\ tool = [k \in Clients |-> "idle"]
  /\ cached = NoToken /\ kept = NoSession /\ dropped = FALSE

Becomes(k, what) == tool' = [tool EXCEPT ![k] = what]
Got(k, what)     == tool[k] = what /\ Answered(k)

--------------------------------------------------------------------------------
(* getAccessToken *)

Ask(k) ==
  /\ tool[k] = "idle" /\ Becomes(k, "asked")
  /\ UNCHANGED <<authVars, managerState>>

UseCached(k) ==
  /\ tool[k] = "asked" /\ cached.left > BufferSec
  /\ Becomes(k, "idle")
  /\ UNCHANGED <<authVars, managerState>>

AskAgain(k) ==
  /\ tool[k] = "asked" /\ cached.left <= BufferSec
  /\ IF kept # NoSession
       THEN Becomes(k, "refreshing") /\ call' = [call EXCEPT ![k] = Sent("refresh", kept, NoToken)]
       ELSE Becomes(k, "loggingIn") /\ call' = [call EXCEPT ![k] = Sent("login", NoSession, NoToken)]
  /\ UNCHANGED <<member, session, missed, managerState>>

\* {...this.state, accessToken}: the refresh token is the one of now, if there is one.
TokenRefreshed(k) ==
  /\ Got(k, "refreshing") /\ call[k].at = "ok"
  /\ cached' = call[k].token /\ call' = [call EXCEPT ![k] = Idle]
  /\ Becomes(k, "idle")
  /\ UNCHANGED <<member, session, missed, kept, dropped>>

\* Any failure empties the state, and the same request goes on to log in.
EmptiesState == cached' = NoToken /\ kept' = NoSession

RefreshFailed(k) ==
  /\ Got(k, "refreshing") /\ call[k].at # "ok"
  /\ EmptiesState /\ dropped' = TRUE
  /\ call' = [call EXCEPT ![k] = Sent("login", NoSession, NoToken)]
  /\ Becomes(k, "loggingIn")
  /\ UNCHANGED <<member, session, missed>>

ToolLoggedIn(k) ==
  /\ Got(k, "loggingIn") /\ call' = [call EXCEPT ![k] = Idle]
  /\ IF call[k].at = "ok"
       THEN cached' = call[k].token /\ kept' = call[k].session /\ dropped' = FALSE
       ELSE UNCHANGED managerState
  /\ Becomes(k, "idle")
  /\ UNCHANGED <<member, session, missed>>

ToolStep(k) ==
  UseCached(k) \/ AskAgain(k) \/ TokenRefreshed(k) \/ RefreshFailed(k) \/ ToolLoggedIn(k)

ManagerTick == cached' = Aged(cached) /\ UNCHANGED <<tool, kept, dropped>>
================================================================================
