SPECIFICATION Spec
CONSTANTS
  Width = 4
  SizeWidth = 5
  MaxEntries <- MCMaxEntries
INVARIANTS LifecycleTypeOK RoundsUp LeftBehindOnFailure
PROPERTIES FreeReturnsEverything
