\* Messages shorter and longer than the reader's buffer; more of them than the
\* channel, the waiting reader and one blocked sender hold.
SPECIFICATION SocketSpec
CONSTANTS
  Sizes = {0, 1, 3}
  ReadSizes = {1, 2}
  MaxMessages = 4
INVARIANTS EOFIsLast
PROPERTIES ImplementsStream ReadsEverything
CHECK_DEADLOCK FALSE
