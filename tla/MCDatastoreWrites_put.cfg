SPECIFICATION WritesFairSpec
CONSTANTS
  u1 = u1  u2 = u2  r1 = r1  r2 = r2
  User = {u1}
  Nobody = Nobody
  Named = {1, 2}
  MaxKey = 4
  Value = {"a", "b"}
  Request = {r1}
  Batch <- Batches
  Operations <- Transactions
  Retries = 1
  PutKeyless = TRUE
PROPERTIES
  PutReturns
