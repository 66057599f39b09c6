SPECIFICATION Spec
CONSTANTS
  Agents = {"uc01", "uc03", "uc08"}
  Operators = {op1, op2}
  Card <- MCCard
  Installed <- MCInstalled
  Edited = {"uc01", "uc03"}
  ActiveTools = {"read_ticket"}
  Given = {"draft", "active"}
  MaxEvents = 3
  ServiceOf <- MCServiceOf
  LongPrefixes <- MCLong
  Grants <- MCGrants
  Turns = {1, 2}
  Asks <- MCAsks
  SplitReplies <- MCSplitReplies
  RewriteReplies <- MCRewriteReplies
  Picks <- MCPicks
  Retrievers = {"lexical", "vector"}
  Vectors <- MCVectors
  Labels <- MCLabels
  Unified = FALSE
  MinAbstain = 0
  Honest = TRUE
INVARIANTS  KnownRecords SurvivorsAllowed
PROPERTIES PlanIsRunnable
SYMMETRY MCOperators
