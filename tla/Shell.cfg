SPECIFICATION ShellSpec
CONSTANTS
  Names = {"a", "b"}
  MaxImports = 1
  MaxTasks = 2
  MaxTries = 3
  MaxActs = 3
  Offers <- MCOffers
  DockPanels = {"d", "n"}
  DockTabs = {"d"}
  DockChannels = {"c"}
  DockSaved = {"s"}
  DockLinks <- MCLinks
  DockActs = 4
INVARIANTS
  LinkIsCurrent
  OpensOnce
  VerifiedOnly
  ProposalSound
  SlicesCover
PROPERTIES
  ImportIsFaithful
CHECK_DEADLOCK FALSE
