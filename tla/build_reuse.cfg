\* Two objects under one name, one after the other; two attempts; one kill.
CONSTANTS
  u1 = u1
  u2 = u2
  NoUid = NoUid
  Stranger = Stranger
  Uid <- TwoObjects
  MaxAttempts = 2
  MaxRestarts = 1
  Faults = {"delete"}
SPECIFICATION Spec
SYMMETRY Interchangeable
INVARIANTS
  VerdictEarned
  IdleSaved
  SavedIsPublished
PROPERTIES
  DurableVerdict
  KeepsPromise
\* The name may be free for ever once every object has been deleted.
CHECK_DEADLOCK FALSE
