SPECIFICATION Spec
CONSTANTS
  Option = {"allow_other", "fsname", "nofail"}
  Ignored = {"nofail"}
  OptLen <- Lengths
  MinRoom = 70
  Width = 3
  BlockRoom = 4
  Inputs <- AllInputs
CHECK_DEADLOCK FALSE
INVARIANTS TypeOK ArenaDisjoint MirrorExact OptionsFiltered RecursionDenied CacheInBounds LookupExact
