\* Two objects of one test that bear one name in turn; API errors, scheduled tasks.
CONSTANTS
  t1 = t1
  t2 = t2
  Uid <- TwoObjects
  NameOf <- OneName
  NumTests <- OneEach
  MaxActive = 1
  Nodes = 1
  FailureRetries = 0
  MaxRestarts = 0
  MaxCopies = 2
  Faults = {"api", "due", "delete"}
SPECIFICATION Spec
INVARIANTS EveryEntryListed ActiveBounded PublishedIsSaved
