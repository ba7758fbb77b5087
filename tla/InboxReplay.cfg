SPECIFICATION Spec
CONSTANTS
  Events <- TwoEvents
  Requests = {r1}
  Drains <- TwoDrains
  Limit = 1
  MaxInboxAttempts = 2
  Threshold = 1
  ReviveLimit = 1
  MaxActionAttempts = 1
  MaxFaults = 1
INVARIANT ReplayedIsRecorded
