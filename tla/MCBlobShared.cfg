SPECIFICATION Spec
CONSTANTS
  a1 = a1
  a2 = a2
  a3 = a3
  a4 = a4
  api = api
  smtpd = smtpd
  logo = logo
  letter = letter
  NoCall = NoCall
  Calls = {a1, a2, a3, a4}
  Content <- MCContent
  Process <- MCProcess
  Blocks = 2
  MaxFaults = 0
INVARIANTS WholeOrAbsent
CHECK_DEADLOCK FALSE
