\* Two objects, one of two tests, of which both may run; expired tests; fairness; no kill.
CONSTANTS
  t1 = t1
  t2 = t2
  Uid <- TwoObjects
  NameOf <- OwnNames
  NumTests <- TwoAndOne
  MaxActive = 2
  Nodes = 1
  FailureRetries = 0
  MaxRestarts = 0
  MaxCopies = 1
  Faults = {"slow"}
SPECIFICATION FairSpec
INVARIANT NoStrayJob
PROPERTY AllTestsEnd
