SPECIFICATION AuditSpec
CONSTANTS
  Backends = {b1, b2}
  UnhealthyThreshold = 3
  HealthyThreshold = 2
  MaxStreak = 4
  U64Max = 5
  Bodies <- MCBodies
INVARIANTS TypeOK ScrapedIsFresh StreaksAgree ScrapeMatchesBody
PROPERTIES MeetsFeed FlagFollowsBackend FlagMatchesHistory
