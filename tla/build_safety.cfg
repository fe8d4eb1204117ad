\* One object; API errors, two kills at any place; two attempts.
CONSTANTS
  u1 = u1
  u2 = u2
  NoUid = NoUid
  Stranger = Stranger
  Uid <- OneObject
  MaxAttempts = 2
  MaxRestarts = 2
  Faults = {"api", "torn", "short", "elsewhere"}
SPECIFICATION Spec
INVARIANTS
  TypeOK
  AttemptsInOrder
  NothingAfterSuccess
