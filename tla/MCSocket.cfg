SPECIFICATION SSpec
CONSTANTS
  Handle = {1, 2}
  Open = {1, 2}
  Ask <- AskUsed
  MaxRequests = 3
  MaxReady = 2
  Size = 2
  CurSizes = 3
  MAX_POLLING_INTERVAL = 1
INVARIANT WaitersReachable
CHECK_DEADLOCK FALSE
