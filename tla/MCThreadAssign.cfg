SPECIFICATION Spec
CONSTANTS
  m1 = m1
  m2 = m2
  m3 = m3
  bare1 = bare1
  blank = blank
  Mids = {m1, m2, m3}
  ThreadIds = {t1, t2}
  Links <- MCLinks
  canonical_link <- MCCanonical
  RefLists <- MCRefLists
  NoThread = NoThread
  NoMid = NoMid
  NoLink = NoLink
INVARIANTS AnswersRule ReasonIsRight CreditIsRight
CHECK_DEADLOCK FALSE
