\* Three builds, one of them followed through its Job; two URLs.
CONSTANTS
  n1 = n1
  n2 = n2
  n3 = n3
  NoName = NoName
  Name <- ThreeNames
  Build = n1
  Window = 1
  Delay = 2
  MaxLag = 1
  MaxBackoff = 1
  MaxErrors = 1
  a = a
  b = b
  jar = jar
  war = war
  Url <- TwoUrls
  File <- TwoFiles
  NoUrl = NoUrl
SPECIFICATION CycleSpec
SYMMETRY Interchangeable
INVARIANTS CycleTypeOK TimersBounded ExitNoticed SuccessIsPushed PushedIsWhole StorageCleared
\* The Pod may end with no operator near.
CHECK_DEADLOCK FALSE
