SPECIFICATION Spec
CONSTANTS
  a1 = a1
  a2 = a2
  b1 = b1
  k1 = k1
  k2 = k2
  Tabs = {a1, a2, b1}
  FrontOf <- FrontTable
  MaxIds = 4
  Surfaces = {"web", "admin"}
  Txs = {a1, a2}
  Handlers = {a1, a2}
  Orgs = {"staff", "public"}
  Scopes = {"read", "knowbase:admin"}
  OrgsOf <- OrgTable
  ScopesOf <- ScopeTable
  TxTtl = 1
  SessionTtl = 2
  MaxLife = 3
  AuthMaxTime = 6
  MaxSessions = 2
  Keys = {k1, k2}
  Verifiers = {a1, a2}
  KeyTtl = 2
  FetchLatency = 1
  OidcMaxTime = 7
  MaxMoves = 1
  Callers = {a1, a2}
  Margin = 2
  MaxTtl = 5
  DefaultTtl = 4
  Lives = {3, 4, 6}
  CallLatency = 1
  TokenMaxTime = 8
  NoExpiry = NoExpiry
  Requests = {a1, a2}
  Tokens <- TokenTable
  Batches <- BatchSet
  Tools = {"list", "sql"}
  PerMinute = 2
  Minute = 2
  McpMaxTime = 3
SYMMETRY Symmetry
CHECK_DEADLOCK FALSE
INVARIANTS SessionsRight CookiesRight KeysRight
PROPERTIES GrantedInTime ActsAsShown KeysFollow TokensRight CallsRight
