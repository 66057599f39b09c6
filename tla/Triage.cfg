SPECIFICATION Spec
CONSTANTS
  Jobs = {1, 2, 3, 4}
  Asks <- MCAsks
  Rankings <- MCRankings
  Replies <- MCReplies
  Table0 <- MCTable
  Staff <- MCStaff
  Closing = {"i1"}
INVARIANTS
  DecisionIsKept
  SlaFollowsPriority
  StaffOfTenant
  DuplicateIsAnother
