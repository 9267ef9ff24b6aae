CONSTANTS
  Reloader = {g1}
  Handler = {h1, h2}
  Name = {a, b}
  MaxEdits = 0
  MaxReloads = 0
  MaxRequests = 2
  MaxCalls = 2
  MaxCrashes = 0
SPECIFICATION Spec
CHECK_DEADLOCK FALSE
INVARIANTS
  SavedWhenQuiet
