SPECIFICATION RelayFairSpec
CONSTANTS
  Messages <- TwoMessages
  Relays <- TwoRelays
  RelayLimit = 2
  MaxOutboxAttempts = 2
  MaxRelayFaults = 1
INVARIANT RelayedWasDelivered
INVARIANT DeadWasTriedOut
PROPERTY EndIsFinal
PROPERTY OutboxDrains
