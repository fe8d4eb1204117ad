\* Two objects of one test and one retry; one kill.
CONSTANTS
  t1 = t1
  t2 = t2
  Uid <- TwoObjects
  NameOf <- OwnNames
  NumTests <- OneEach
  MaxActive = 1
  Nodes = 1
  FailureRetries = 1
  MaxRestarts = 1
  MaxCopies = 2
  Faults = {}
SPECIFICATION Spec
SYMMETRY Interchangeable
INVARIANTS ActiveBounded RetriesBounded CollectionsInLine FilesSuffice CompleteMeansDone PercentEarned PublishedIsSaved
PROPERTY PublishedStays
