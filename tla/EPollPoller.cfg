CONSTANTS
  Fd = {f1, f2}
  Data = {1, 2}
  MaxOps = 2
  MaxErrors = 1
  InitEvents = 1
  MaxEvents = 2
  MaxChannels = 2
  MaxChanges = 3
  Interests = {{}, {"OUT"}, {"IN", "OUT"}}
SPECIFICATION Spec
SYMMETRY HandlesAlike
INVARIANT TablesAgree ReadersAreWatched
PROPERTY ReportsAreChannels
CHECK_DEADLOCK FALSE
