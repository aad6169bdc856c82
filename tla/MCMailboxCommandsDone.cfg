SPECIFICATION MailboxFairSpec
CONSTANTS
  Args = {a, b, c}
  NoArg = NoArg
  Patient = FALSE
PROPERTIES
  CommandsDone
CHECK_DEADLOCK FALSE
