\* One object, one test; it may be deleted; fairness.
CONSTANTS
  t1 = t1
  t2 = t2
  Uid <- OneObject
  NameOf <- OwnNames
  NumTests <- OneEach
  MaxActive = 1
  Nodes = 1
  FailureRetries = 0
  MaxRestarts = 0
  MaxCopies = 1
  Faults = {"delete"}
SPECIFICATION FairSpec
PROPERTY DeletedAreDropped
