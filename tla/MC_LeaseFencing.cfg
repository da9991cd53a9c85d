CONSTANTS
  Node = {n1, n2}
  Transfer = {t1}
  NoOwner = NoOwner
  TTL = 3
SPECIFICATION ClientSpec
INVARIANT StaleTokenRejected
