CONSTANTS
  Sessions = {s1}
  Perms = {p1, p2}
  Questions = {}
  SessionOf <- OneSession
  RequestOf <- OneRequest
  Options <- TwoOptions
  c1 = c1
  c2 = c2
  None = None
  Legacy = {p1}
  Busy = {s1}
  MaxQueue = 1
  Scopes <- PermsOrQuestions
SPECIFICATION AgentSpec
INVARIANTS AgentTypeOK WaiterOwned PromptsIndexed PromptHasAsk
