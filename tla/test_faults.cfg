\* One object of one test with two retries; files that fail or are torn; one kill.
CONSTANTS
  t1 = t1
  t2 = t2
  Uid <- OneObject
  NameOf <- OwnNames
  NumTests <- OneEach
  MaxActive = 1
  Nodes = 1
  FailureRetries = 2
  MaxRestarts = 1
  MaxCopies = 1
  Faults = {"io", "torn"}
SPECIFICATION Spec
CHECK_DEADLOCK FALSE
ACTION_CONSTRAINT LastWritesSucceed
INVARIANTS TypeOK EveryEntryListed
