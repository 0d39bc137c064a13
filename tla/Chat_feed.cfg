SPECIFICATION Spec
CONSTANTS
  Rounds <- MCOneMail
  Old = 1
  MaxTurns = 3
  MaxConfirms = 2
  MaxRounds = 1
  MaxEvents = 4
CHECK_DEADLOCK FALSE
INVARIANTS TypeOK FeedInTurns MailsWithinApprovals ShownToolsRun
PROPERTIES MessagesStay ComposerReturns
