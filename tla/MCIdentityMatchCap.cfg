SPECIFICATION Spec
CONSTANTS
  Requests = {q1}
  Phones = {n1}
  Providers <- Catalog
  Verifier = "TWILIO"
  Implemented <- Catalog
  CredentialFree = {}
  OnSearch = {"BATCHDATA", "ENDATO"}
  Level <- Levels
  Price <- Prices
  SpendCap <- SearchCaps
  Limit <- Limits
  EnrichCap = 1
  Mixes <- EnrichOnly
  Updates <- Switches
  MaxExpiries = 6
  MaxChanges = 2
SYMMETRY Symmetric
INVARIANT IdentityMatchCapped
CHECK_DEADLOCK FALSE
