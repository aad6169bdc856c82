SPECIFICATION MailboxFairSpec
CONSTANTS
  Args = {a, b, c}
  NoArg = NoArg
  Patient = TRUE
INVARIANTS
  SentWhole
PROPERTIES
  CommandsDone
CHECK_DEADLOCK FALSE
