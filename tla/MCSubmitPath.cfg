SPECIFICATION FairSpec
CONSTANTS
  c1 = c1
  c2 = c2
  c3 = c3
  d1 = d1
  d2 = d2
  Clients = {c1, c2, c3}
  Digests = {d1, d2}
  DigestOf <- MCDigestOf
  QueueCapacity = 1
  MempoolCapacity = 1
  NoWaiter = NoWaiter
INVARIANTS TypeOK NoLeakedWaiter ReceiptIsReal ReceiptNotMissed
PROPERTIES EveryRequestAnswered ImplementsContract
