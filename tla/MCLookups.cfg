SPECIFICATION Spec
CONSTANTS
  Requests = {q1, q2}
  Phones = {n1}
  Providers <- Catalog
  Verifier = "TWILIO"
  Implemented <- Catalog
  CredentialFree = {}
  OnSearch = {"BATCHDATA", "ENDATO"}
  Level <- Levels
  Price <- Prices
  SpendCap <- SearchCaps
  Limit <- Limits
  EnrichCap = 1
  Mixes <- Days
  Updates <- Switches
  MaxExpiries = 1
  MaxChanges = 2
SYMMETRY Symmetric
INVARIANTS TypeOK LimitOvershoot SpendOvershoot CacheFirst ListedIsBlocked
CHECK_DEADLOCK FALSE
