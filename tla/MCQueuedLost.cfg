CONSTANTS
  Messages = {1, 2, 3}
  w1 = w1
  w2 = w2
  Workers = {w1, w2}
  Expected <- MCExpected
  MaxAttempts = 1
  MaxApps = 2
  MaxFaults = 1
  Nobody = nobody
  Ops = {1, 2}
  MaxLost = 3
  MaxRestarts = 2
  Entries = {e1}
  cron = cron
  admin = admin
  Closers = {cron, admin}
  Payers = {q1, q2}
  TimeZones = {1}
  Settings <- MCSettings
  DayLength = 2
  MaxClock = 5
  MaxCrashes = 1
  Cron = cron
  NoCloser = nobody
  NoDay = noday
SPECIFICATION MCSpec
CHECK_DEADLOCK FALSE
PROPERTY QueuedIsNeverLost
