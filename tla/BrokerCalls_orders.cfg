CONSTANTS
  Market = {m}
  Pending = {}
  Closing = {k}
  Scans = {}
  Cancels = {x}
  Workers = 2
  Attempts = 3
  MaxPools = 2
  Replies = {"done", "placed", "filling", "requote", "rejected", "lost"}
  Free = Free
  m = m
  k = k
  x = x
SPECIFICATION Spec
INVARIANT OrdersSerialised
INVARIANT ExecutedOnce
INVARIANT AnswersAreTrue
PROPERTY FailedIsFinal
