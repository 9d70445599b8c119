SPECIFICATION FairSpec
CONSTANTS
    Words = {"a"}
    Statuses = {"on"}
    PageSizes = {1, 2}
    DefaultPageSize = 1
    Rows <- RowsShrink
    RemembersStatus = TRUE
    MaxEvents = 3
    MaxHistory = 12
PROPERTIES
    ComesToRest
CHECK_DEADLOCK FALSE
