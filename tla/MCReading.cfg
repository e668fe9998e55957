SPECIFICATION Spec
CONSTANTS
  o = o
  p1 = p1
  p2 = p2
  ia = ia
  ib = ib
  ic = ic
  nowhere = nowhere
  t1 = t1
  t2 = t2
  t3 = t3
  m1 = m1
  m2 = m2
  m3 = m3
  m4 = m4
  bytes1 = bytes1
  bytes2 = bytes2
  None = None
  Flags = {"message_read", "message_update", "message_delete", "label_spam_read"}
  Restricted = {"spam"}
  System = {"received", "sent"}
  LabelReadFlag <- MCReadFlag
  Messages = {m1, m2, m3, m4}
  Threads = {t1, t2, t3}
  Opens = {m1, m3, m4}
  ThreadOf <- MCThreadOf
  Home <- MCHome
  Arrives <- MCArrives
  Stamp <- MCStamp
  Order <- MCOrder
  BlobOf <- MCBlobOf
  Pods <- MCPods
  Inboxes <- MCInboxes
  Requests <- MCRequests
  Crowds <- MCCrowds
  DEFAULT_LIMIT = 1
  MAX_LIMIT = 2
  TTL = 1
  MaxClock = 2
INVARIANTS TypeOK OutOfScopeIsNotFound WindowHeld WalkComplete BodyHonest ListHidesOpeners
  PatchSticks BytesWereReadable
CHECK_DEADLOCK FALSE
