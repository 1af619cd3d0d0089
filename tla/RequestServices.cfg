SPECIFICATION Spec
CONSTANTS
  Requests = {r1, r2}
  TokensChecked = TRUE
  Funds = {f1}
  NoFund = NoFund
  ServicesFail = TRUE
  Files = {k1}
  NoFile = NoFile
  MaxVersions = 2
  S3Fails = TRUE
  PoolSize = 1
  MaxBatch = 2
  MongoFails = TRUE
INVARIANTS
  ServicesInv UrlNamesObject  OneSnapshot
   IncompleteFails
PROPERTY RequestsAnswered
CHECK_DEADLOCK FALSE
