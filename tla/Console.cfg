SPECIFICATION FairConsoleSpec
CONSTANTS
  m1 = m1
  m2 = m2
  k1 = k1
  k2 = k2
  any = any
  few = few
  card = card
  waffoPay = waffoPay
  TestedModels <- TwoModels
  ModelPosition <- ModelPlaces
  Concurrency = 1
  MaxBatches = 2
  MaxSingles = 1
  MaxDeletes = 1
  MaxOpens = 2
  SavedKeys <- TwoOptions
  KeyPosition <- OptionPlaces
  Values = {0, 1}
  RebuiltDefaults = FALSE
  MaxSaves = 1
  MaxOutside = 1
  Styles = {"copy", "draft"}
  StoredLists <- SmallLists
  MaxEntries = 2
  MaxListSaves = 2
  MaxRequestFaults = 1
  Words = {any, few}
  NoWord = any
  Sizes = {1, 2}
  OrdersFor <- FewOrders
  MaxEvents = 4
  Amounts = {1, 2}
  Methods = {card, waffoPay}
  Kind <- TwoKinds
  MinOf <- Minima
  Default = card
  MaxHung = 1
PROPERTIES
  PagesKeepTheirWord
  WaitingEnds
CHECK_DEADLOCK FALSE
