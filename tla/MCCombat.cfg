SPECIFICATION Spec
CONSTANTS
  Levels <- MCLevels
  FirstPlot <- MCFirstPlot
  Goals <- MCGoals
  Price <- MCPrice
  Drops <- MCDrops
  FirstDrops <- MCFirstDrops
  NextLevel <- MCNextLevel
  LevelExp <- MCLevelExp
  MaxLevel = 4
  MaxFights = 2
  Stamina = 3
  Lines = {1}
  DatingOf <- MCDatingOf
  Steps <- MCSteps
  Entrances = {1, 2, 3, 4, 5, 6, 7}
  Jump <- MCJump
  Usable = {1, 2, 3, 4, 5, 6}
  Sweeps = {0, 2}
  NoRow = NoRow
  NoFight = NoFight
  NoResult = NoResult
  NoSave = NoSave
  Conns = {c1}
  Overlap = FALSE
  WriteMayFail = TRUE
INVARIANTS TypeOK RowsAgreeWithPassed FirstClearPaidOnce FightsSettledOnce StoredAnswerTrue ExpAccounted TownFollowsWins ViewCurrent
PROPERTIES DiskKeeps KeepsLedger
