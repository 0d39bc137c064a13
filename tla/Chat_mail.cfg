SPECIFICATION Spec
CONSTANTS
  Rounds <- MCTwoMails
  Old = 0
  MaxTurns = 2
  MaxConfirms = 4
  MaxRounds = 1
  MaxEvents = 4
CHECK_DEADLOCK FALSE
INVARIANT MailedOnlyApproved
