SPECIFICATION Spec
CONSTANTS
  i1 = i1
  i2 = i2
  m1 = m1
  m2 = m2
  m3 = m3
  j1 = j1
  j2 = j2
  j3 = j3
  Inboxes = {i1}
  w1 = w1
  w2 = w2
  w3 = w3
  Tenants = {w1, w2, w3}
  Org <- MCOrg
  Mids = {m1, m2, m3}
  ThreadIds = {t1, t2, t3, t4}
  Jobs = {j1, j2, j3}
  Mail <- MailReplies
  Rank <- MCRank
  Owner <- MCOwner
  Window = 3
  MaxFaults = 1
  MaxEdits = 2
  NoThread = NoThread
  NoTenant = NoTenant
SYMMETRY Symmetric
INVARIANTS TypeOK ThreadsSpanOneInbox CountAccounting
PROPERTIES ReplyJoinsParent ImplementsMailbox
CHECK_DEADLOCK FALSE
