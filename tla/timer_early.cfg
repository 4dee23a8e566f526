SPECIFICATION UtilsSpec
CONSTANTS
  t1 = t1
  t2 = t2
  d1 = d1
  d2 = d2
  None = None
  Timers = {t1, t2}
  Ids = {d1, d2}
  Delays = {0, 1}
  MaxTime = 1
  Files <- SomeFiles
  Devices <- SomeDevices
  Reported <- SomeReports
  Updates <- SomeUpdates
  MaxReports = 2
  Parts = {"timer"}
PROPERTIES
  NotEarly
