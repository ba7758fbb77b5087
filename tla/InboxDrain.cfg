SPECIFICATION FairSpec
CONSTANTS
  Events <- TwoEvents
  Requests = {r1}
  Drains <- TwoDrains
  Limit = 2
  MaxInboxAttempts = 2
  Threshold = 1
  ReviveLimit = 1
  MaxActionAttempts = 1
  MaxFaults = 1
INVARIANT TypeOK
INVARIANT AppliedIsReal
PROPERTY AppliedIsFinal
PROPERTY QueueDrains
