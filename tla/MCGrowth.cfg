SPECIFICATION Spec
CONSTANTS
  NoCost = NoCost
  MaxLevel = 3
  HeroExp <- MCHeroExp
  ExpValue <- MCExpValue
  AdvanceCost <- MCAdvanceCost
  QualityCost <- MCQualityCost
  DefaultSkin <- MCDefaultSkin
  Paint <- MCPaint
  PaintQuality <- MCPaintQuality
  BoughtSkins <- MCBoughtSkins
  Nodes <- MCNodes
  Slots <- MCSlots
  AwakeCost <- MCAwakeCost
  StrengthenCost <- MCStrengthenCost
  Stages <- MCStages
  Banners = {1, 2}
  Pool <- MCPool
  CardCount <- MCCardCount
  RareEvery <- MCRareEvery
  RareQualities <- MCRareQualities
  Costs <- MCCosts
  FirstCosts <- MCFirstCosts
  HeroCids = {101, 102, 103}
  BaseQuality <- MCBaseQuality
  GearCids = {201, 202}
  GridMax <- MCGridMax
  TeamTypes = {1}
  Backups = {1, 2}
  TeamSize = 2
  NoHero = NoHero
  Cids = {1, 2, 3, 4, 5, 6}
  StartSaves <- MCStartSaves
  Foods <- MCFoods
  Skins = {6, 7, 8}
  Strangers <- MCStrangers
  UsedPages = {1, 2}
  MaxBehind = 1
INVARIANTS TypeOK BooksBalance PullsFair DrawnIsOwned LevelsEarned PointsAccounted PassiveOnce TeamsValid NothingUnsaved
CHECK_DEADLOCK FALSE
