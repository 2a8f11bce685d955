SPECIFICATION Spec
CONSTANTS
  a = a
  b = b
  c = c
  f = f
  g = g
  o = o
  Outside = Outside
  Global = ""
  NoObject = NoObject
  Installed <- MCInstalled
  IgnoredTests = {c}
  Group <- MCGroup
  Name <- MCName
  Numbers <- MCNumbers
  Within <- MCWithin
  CommandLines <- MCCommandLines
  Repertoires <- MCRepertoires
  Doable <- MCDoable
  MaxSteps <- MCMaxSteps
  MaxBlocks = 4
  MaxSet = 2
  Pointers = {"p"}
  Scopes = {"", "s"}
  Expectable <- MCExpectable
  Callable <- MCCallable
INVARIANTS
  OnlyTheGuiltyAreBlamed
  TestsAreIsolated
  JumpsLandWhereTheyShould
  ExitStatusTells
  CannotHappenDoesNot
CHECK_DEADLOCK FALSE
