\* Every group of roles, every status and every target; a feed of up to three
\* rows in two tables, of two tasks, in pages of one row; clocks from eleven
\* hours behind to twelve hours ahead of UTC, in seven months.
CONSTANTS
  taskEvents = taskEvents
  comments = comments
  brief = brief
  banner = banner
  FeedTables = {taskEvents, comments}
  FeedTasks = {brief, banner}
  RowIds = {1, 2, 3}
  PageSize = 1
  MaxLimit = 2
  MaxTime = 2
  MonthLengths <- months
  FirstWeekday = 5
  Offsets <- offsets
  Hours <- hours
  Pickable <- pickable
SPECIFICATION Spec
SYMMETRY symmetry
CHECK_DEADLOCK FALSE
INVARIANTS
  OffersMatchVerdicts
  BothSidesCloseATask
  FeedInOrder
  NothingSkipped
  DaySurvives
