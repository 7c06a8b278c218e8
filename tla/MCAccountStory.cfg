SPECIFICATION Spec
CONSTANTS
  NoDay = 0
  LastDay = 2
  Goods = {1, 2, 3}
  Limit <- MCLimit
  Price <- MCPrice
  Content <- MCContent
  Stores = {1, 2}
  ShelfOf <- MCShelf
  OwnRefresh = {1}
  RefreshCost <- MCRefreshCost
  RefreshCid = 1
  Cids = {1, 2, 3}
  SellValue <- MCSell
  UseValue <- MCUse
  Counts = {1, 2}
  GoodsLists <- MCGoodsLists
  Mails = {1, 2}
  Attached <- MCAttached
  Tasks = {1, 2, 3}
  TaskPays <- MCTaskPays
  Signs = {1, 2}
  SignPays <- MCSignPays
  MailLists <- MCMailLists
  TaskLists <- MCTaskLists
  Pids = {11, 12, 13}
  OwnPid = 9
  PidSets <- MCPidSets
  PointLists <- MCPointLists
  GuideJumps = {3}
  GuideJump <- MCGuideJump
  QueryFrom = 8
  GuideIds = {0, 2, 3, 8}
  Blank = Blank
  NotGiven = NotGiven
  Texts = {"Rei"}
  Scripts = {1, 2}
  Stocked <- MCStocked
  Float = 1
  NoSid = NoSid
  StarterSid = StarterSid
  StarterCid = 101
  FirstPlot = 1
  GuideFinished = 7
  StartSaves <- MCStories
  MaxBehind = 0
INVARIANTS SettlementNames
CHECK_DEADLOCK FALSE
