CONSTANTS
  Base = 2
  kCheapPrepend = 2
  kInitialSize = 2
  Extra = 1
  CR = 0
  LF = 1
  MaxArgument = 2
  MaxReadable = 3
  Widths = {1, 2}
  Years <- LeapAndCommon
  SecondsOfDay = {0, 1, 59, 3600, 86399}
  Numbers <- AroundZero
  Quantities <- AroundLimits
  kMaxNumericSize = 48
  kSmallBuffer = 4096
  Levels = {0, 2, 5}
  TextLengths = {56, 4000}
  Logged = {1234567890}
  NameLength = 7
  MaxLines = 2
  MaxNested = 2
  MaxStreamed = 2
  MaxSecond = 2
  Char = {0, 1}
  MaxLength = 3
  Kinds = {"other", "denied", "pipe", "named", "refused", "silent"}
  MaxProcesses = 2
  MaxHandles = 2
  PollChannel = {c1, c2, c3}
  Fd = {1, 2, 3}
  PollEvents <- Wants
  kBufferSize = 2
  MaxFileSize = 4
  MaxSizes = {0, 1, 3, 5}
  Octets = 2
  Hosts = {"192.0.2.1"}
SPECIFICATION Spec
INVARIANT IndicesInOrder ConversionsRight LineWhole HandlesAccounted SlotsMatch
PROPERTY ImplementsByteString
CHECK_DEADLOCK FALSE
