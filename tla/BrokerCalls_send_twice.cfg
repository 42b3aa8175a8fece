CONSTANTS
  Market = {m}
  Pending = {}
  Closing = {}
  Scans = {}
  Cancels = {}
  Workers = 2
  Attempts = 3
  MaxPools = 1
  Replies = {"done", "filling", "rejected"}
  Free = Free
  m = m
SPECIFICATION Spec
INVARIANT MarketExecutedOnce
