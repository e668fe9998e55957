SPECIFICATION FairSpec
CONSTANTS
  i1 = i1
  i2 = i2
  m1 = m1
  m2 = m2
  m3 = m3
  j1 = j1
  j2 = j2
  j3 = j3
  Inboxes = {i1, i2}
  w1 = w1
  w2 = w2
  w3 = w3
  Tenants = {w1, w2, w3}
  Org <- MCOrg
  Mids = {m1, m2}
  ThreadIds = {t1, t2, t3, t4, t5}
  Jobs = {j1, j2, j3}
  Mail <- MailEcho
  Rank <- MCRank2
  Owner <- MCOwner
  Window = 3
  MaxFaults = 2
  MaxEdits = 0
  NoThread = NoThread
  NoTenant = NoTenant
INVARIANTS ThreadsSpanOneInbox CountAccounting
PROPERTIES LetterSettled
CHECK_DEADLOCK FALSE
ACTION_CONSTRAINT InOrder
