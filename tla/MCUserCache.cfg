SPECIFICATION FairSpec
CONSTANTS
  Worker = {w1, w2}
  Name = {"alice", "bob", "carol"}
  Id = {1, 2}
  PasswdVersions = 2
  GroupVersions = 2
  Passwd <- MCPasswd
  Group <- MCGroup
  Query <- MCQuery
INVARIANTS TypeOK AnswerFresh UsableWhenUnlocked
PROPERTIES ReadersUndisturbed RebuildNotStarved
