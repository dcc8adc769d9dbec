\* Two writers race for a pipe of limit 0, which the first message fills;
\* one reader keeps reading, as in every use of a pipe.
SPECIFICATION LiveSpec
CONSTANTS
  Writers = {w1, w2}
  Readers = {r1}
  Sizes = {1}
  MaxSize = 1
  Limit = 0
  DiscardOverflow = {TRUE, FALSE}
  MaxWrites = 2
INVARIANTS EOFMeansDrained WriteOutcome NoLostWakeup
PROPERTIES NoneLeftWaiting AcceptedIsDelivered ImplementsStream
