SPECIFICATION SceneSpec
CONSTANTS
  Handler = {h1, h2}
  Tick = Tick
  Horizon = 4
  DayOf <- MCDayOf
  PeriodOf <- MCPeriodOf
  CycleOf <- MCCycleOf
  MaxRows = 3
  MaxRequests = 3
  MaxFaults = 1
INVARIANTS SyncTypeOK FiguresAgree
PROPERTIES UsageStaysCounted QuotaSeldomOlder NoSyncBeginsUnbound UsageArrives
CHECK_DEADLOCK FALSE
