SPECIFICATION PipeSpec
CONSTANTS
  t1 = t1
  w1 = w1
  consumer = consumer
  Loggers = {t1, w1}
  Consumer = consumer
  Callers = {t1, w1, consumer}
  Getters = {g1}
  Closer = closer
  Workers = {w1}
  Keys = {k1, k2}
  LCap = 4
  LBatch = 2
  LSent = LSent
  Stopper = stopper
  Released = Released
  MaxLogs = 3
  EveryN = 2
  Setups <- MCSetups
  Sent = Sent
  NoKey = NoKey
  MaxAppends = 4
  MaxOpens = 2
INVARIANTS PipeTypeOK IndexSound RequestsOwned CloseFlushesAll PoolFits MessageFate
PROPERTIES RecoveryKeepsSynced QueueIsBatcher AppendsSettle LoggedIsWritten ShutdownsReturn
CHECK_DEADLOCK FALSE
