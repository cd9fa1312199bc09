\* a browser, stalls, lost connections, a restart that reuses the run id; fairness
CONSTANTS
  Watcher = {w1}
  Conn = {c1, c2}
  NoConn = NoConn
  ChanCap = 1
  WireCap = 1
  MaxEvents = 3
  MaxLives = 2
  MaxDrops = 2
SPECIFICATION LiveSpec
INVARIANTS TypeOK PaneIsPrefix SubscriptionsAreSound
PROPERTY WatchersSeeTheEnd
CHECK_DEADLOCK FALSE
