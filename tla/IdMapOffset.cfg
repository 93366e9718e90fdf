SPECIFICATION Spec
CONSTANTS
  UID_T_MAX = 3
  MapId = {1, 2, 3}
  MaxEntries = 3
  Offset <- MCOffset
  Settings <- MCSettings
INVARIANT ChownReachesMappedUser
CHECK_DEADLOCK FALSE
