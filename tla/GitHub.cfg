SPECIFICATION FairSpec
CONSTANTS
  GitHubPAT = FALSE
  Callers = {c1, c2}
  Repositories = {Allowed, Refused}
  Forbidden = {Refused}
  Allowed = Allowed
  Refused = Refused
  Requests <- MCRequests
  RateLimit = 2
  ClientLife = 2
  RepositoryLife = 2
  TokenLife = 3
  TokenCacheLife = 3
  CredentialLife = 1
  MaxTicks = 3
  MaxFaults = 1
  None = None
  Zero = Zero
INVARIANTS
  TypeOK
  TokenWithinLimit
  OnlyAllowedRepositories
  NoRedundantFetch
PROPERTIES
  CredentialObtained
