SPECIFICATION FairSpec
CONSTANTS
  Sessions = {s1, s2}
  MaxConnections = 1
  Addresses = {alice, bob, remote}
  Local = {alice, bob}
  Inboxes = {alice, bob, remote}
  Letters = {fine, broken, forged}
  Unparsable = {broken}
  HardFails = {forged}
  TlsOffered = TRUE
  MaxPipelined = 2
  MaxRcpts = 2
  NoAddress = NoAddress
  NoLetter = NoLetter
INVARIANTS TypeOK OneTransaction UpgradeStartsFresh ReplyIsHonest
PROPERTIES CapacityReturns
CHECK_DEADLOCK FALSE
