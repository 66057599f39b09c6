SPECIFICATION Spec
CONSTANTS
  Jobs = {1, 2}
  Asks <- MCAsks
  Tickets0 <- MCTickets
  Kb0 <- MCKb
  TicketEdits <- MCTicketEdits
  KbEdits <- MCKbEdits
  FieldReplies <- MCFieldReplies
  Contents = {"text", "blank", "error"}
  RelevantReplies <- MCRelevant
  RankReplies <- MCRank
  TextReplies <- MCText
  Cosine <- MCCosine
  Trail <- MCTrail
  Classifications <- MCClasses
  Privileged = {"service_desk_agent"}
  ServiceOfId <- MCServiceOfId
INVARIANTS
  ToldAsRead
  OwnTicketsOnly
  ReadableArticles
