\* The success of the last attempt that is allowed.
CONSTANTS
  u1 = u1
  u2 = u2
  NoUid = NoUid
  Stranger = Stranger
  Uid <- OneObject
  MaxAttempts = 2
  MaxRestarts = 0
  Faults = {}
SPECIFICATION Spec
INVARIANT SuccessWins
