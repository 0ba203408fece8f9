CONSTANTS Limits <- MCLimits
          Default <- MCDefault
          Requests = {1, 2}
          Time = {0, 1, 2}
          MaxSpent = 3
          MaxDebt = 3
          None = None
          Tenants = {"alpha", "beta"}
          Keys = {"k1", "k2"}
          Users = {"alice", "bob"}
          RoleTables <- MCRoleTables
          DefaultTables <- MCDefaultTables
          DefaultKeys <- MCDefaultKeys
          KeyGrants <- MCKeyGrants
          Expiries <- MCExpiries
          Second = 2
          LastTime = 4
          MaxTokens = 1
SPECIFICATION GatewaySpec
INVARIANTS RateConforms AdmittedAsGranted KeyAndTokenAgree
PROPERTY RetryAfterHonest
