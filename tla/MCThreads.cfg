CONSTANTS
  Worker = {w1, w2}
  Producer = {p1, p2}
  Consumer = {c1, c2}
  Owner = o
  ThreadObject = {t1, t2}
  MaxQueueSize = 2
  MaxSize = 2
  PerProducer = 2
  MaxThrows = 1
  RollSize = 1
  FlushInterval = 1
  CheckEveryN = 2
  Period = 2
  BufferSize = 3
  MaxPending = 2
  Lengths = {1, 3}
  MaxLines = 3
  MaxTime = 3
  MaxErrors = 1
SPECIFICATION Spec
INVARIANT TasksDone NoNotificationLost LogKept
PROPERTY ImplementsFifo CallsReturn LineIsWritten
CHECK_DEADLOCK FALSE
