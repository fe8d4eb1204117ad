\* One object, one test with two retries; one kill.
CONSTANTS
  t1 = t1
  t2 = t2
  Uid <- OneObject
  NameOf <- OwnNames
  NumTests <- OneEach
  MaxActive = 1
  Nodes = 1
  FailureRetries = 2
  MaxRestarts = 1
  MaxCopies = 2
  Faults = {}
SPECIFICATION Spec
INVARIANT RetriesAreCounted
