CONSTANTS
  Sessions = {s1}
  Perms = {p1}
  Questions = {q1, q2}
  SessionOf <- OneSession
  RequestOf <- OneRequest
  Options <- OneOption
  c1 = c1
  c2 = c2
  None = None
  Legacy = {p1}
  Busy = {}
  MaxQueue = 1
  Scopes <- PermsOrQuestions
SPECIFICATION AgentLiveSpec
INVARIANT QuestionHasAsk
PROPERTIES FirstAnswerReported EveryAskEnds
