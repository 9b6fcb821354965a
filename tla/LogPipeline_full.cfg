SPECIFICATION PipeSpec
CONSTANTS
  t1 = t1
  w1 = w1
  consumer = consumer
  Loggers = {t1, w1}
  Consumer = consumer
  Callers = {t1, w1, consumer}
  Getters = {}
  Closer = closer
  Workers = {w1}
  Keys = {k1}
  LCap = 2
  LBatch = 2
  LSent = LSent
  Stopper = stopper
  Released = Released
  MaxLogs = 4
  EveryN = 2
  Setups <- FullDiskSetups
  Sent = Sent
  NoKey = NoKey
  MaxAppends = 5
  MaxOpens = 1
PROPERTY AppendsGetThrough
CHECK_DEADLOCK FALSE
