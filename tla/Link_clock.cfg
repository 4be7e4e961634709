SPECIFICATION Spec
CONSTANTS
  Regimes <- MCRegimes
  Keepalive = 2
  Stale = 4
  MaxResends = 1
  MaxFlight = 1
INVARIANTS SyncKeepsLinks
