\* Two tabs of a browser, or two tools; a token lives two ticks and is renewed in the
\* last one.
SPECIFICATION FairSpec
CONSTANTS
  c1 = c1
  c2 = c2
  Clients = {c1, c2}
  Claims = {"manager", "cashier"}
  MaxLogins = 1
  Life = 2
  Buffer = 1
  BufferSec = 1
INVARIANTS
  TypeOK
  ClaimsAreRecent
  OldSessionsStayDead
  TokensCanBeRenewed
PROPERTIES
  RequestsEnd
CHECK_DEADLOCK FALSE
