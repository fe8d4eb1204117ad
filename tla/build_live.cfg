\* One object, two attempts, fairness; Pods vanish, files fail; one kill.
CONSTANTS
  u1 = u1
  u2 = u2
  NoUid = NoUid
  Stranger = Stranger
  Uid <- OneObject
  MaxAttempts = 2
  MaxRestarts = 1
  Faults = {"slow", "podloss", "io"}
SPECIFICATION FairSpec
INVARIANT SavedPrefix
PROPERTIES VerdictFinal AttemptsDecide DeadlineDecides
