CONSTANTS
  None = None
  Redacted = Redacted
  Names = {"a", "b"}
  Symbols = {1, 2}
  Clients <- ClientSet
  Requests <- RequestSet
  Listings <- ListingSet
  Configs <- ConfigSet
  MaxText = 5
  MaxLines = 3
SPECIFICATION Spec
INVARIANTS
  DispatchIsAuthorized
  ModernIsHonoured
  StreamIsRedacted
  NoSecretIsSent
  CancellationsCountedOnce
PROPERTIES
  ListingsMatchCalls
