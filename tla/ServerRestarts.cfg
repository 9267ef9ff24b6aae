CONSTANTS
  Reloader = {g1, g2}
  Handler = {h1}
  Name = {a, b}
  MaxEdits = 2
  MaxReloads = 4
  MaxRequests = 4
  MaxCalls = 4
  MaxCrashes = 2
SPECIFICATION Spec
CHECK_DEADLOCK FALSE
INVARIANTS
  TypeOK
  AlwaysScheduling
  OthersAreBeingStopped
  SavedWhenQuiet
  KeySavedWhenQuiet
