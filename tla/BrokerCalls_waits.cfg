CONSTANTS
  Market = {m}
  Pending = {p}
  Closing = {}
  Scans = {s}
  Cancels = {}
  Workers = 2
  Attempts = 2
  MaxPools = 2
  Replies = {"done", "requote", "rejected"}
  Free = Free
  m = m
  p = p
  s = s
SPECIFICATION FairSpec
INVARIANT StuckIsOwed
PROPERTY EveryCallReturns
PROPERTY WaitersLeave
PROPERTY ImplementsPromise
