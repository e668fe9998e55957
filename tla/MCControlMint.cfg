SPECIFICATION Spec
CONSTANTS
  o1 = o1
  o2 = o2
  p1 = p1
  p2 = p2
  p3 = p3
  n1 = n1
  n2 = n2
  ia = ia
  ib = ib
  ic = ic
  root = root
  boss = boss
  kp1 = kp1
  kia = kia
  mint2 = mint2
  other = other
  s1 = s1
  s2 = s2
  s3 = s3
  s4 = s4
  s5 = s5
  s6 = s6
  x1 = x1
  seed = seed
  nowhere = nowhere
  None = None
  Flags = {"pod_create", "pod_read", "pod_delete", "inbox_create", "inbox_read",
    "inbox_update", "inbox_delete", "api_key_create", "api_key_read", "api_key_delete"}
  Restricted = {}
  LabelReadFlag <- NoLabels
  Ids <- MCIds
  Addresses <- MCAddresses
  Secrets <- MCSecrets
  Starts <- MCNarrow
  PrefixOf <- MCPrefixOf
  Order <- MCOrder
  MINT_ATTEMPTS = 2
INVARIANT MintInherits
CHECK_DEADLOCK FALSE
