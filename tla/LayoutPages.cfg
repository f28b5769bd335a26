SPECIFICATION SmallSpec
CONSTANTS
  Layouts = {default, custom}
  Default = default
  Unreadable = unreadable
  MaxRevision = 2
  None = None
  tab1 = tab1
  tab2 = tab2
  Tabs = {tab1, tab2}
  Slots = {1, 2}
  Types = {"narrow", "wide"}
  Limits <- SmallLimits
  Columns = 2
  Rows = 2
  MaxWidgets = 2
  HistoryLimit = 2
  DefaultDraft <- OneWide
  Reach = 1
INVARIANTS TagNamesBaseline
PROPERTIES NoUnseenOverwrite SavingEnds DraftsAreKept
CHECK_DEADLOCK FALSE
