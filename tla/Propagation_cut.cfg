SPECIFICATION Spec
CONSTANTS
  Uploads = {1, 2}
  Good = {1, 2}
  Own = {3}
  To <- MCTo
  Here = "here"
  Nobody = "nobody"
  MaxPending = 1
  MaxEach = 1
  MaxTotal = 2
  Expiry = 0
  Floor = 1
  MaxTime = 1
  MaxCuts = 1
INVARIANTS OfferedIsChecked
