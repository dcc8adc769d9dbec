-------------------------------- MODULE Pipe --------------------------------
(***************************************************************************)
(* transport/pipe: the in-memory pipe that joins an inbound to an outbound. *)
(*                                                                         *)
(* A pipe is a mutex-protected buffer, two one-slot Notifiers and a done    *)
(* channel.  A critical section is one step; the Signal() that follows it   *)
(* outside the lock is a step of its own, as is waking from a select.  So   *)
(* other goroutines may run between the two, which is where a wake-up can   *)
(* be lost.                                                                *)
(*                                                                         *)
(* A MultiBuffer is one message with an identity (its writer and that       *)
(* writer's count) and a size; `accepted' and `delivered' are histories.    *)
(***************************************************************************)
EXTENDS Integers, Sequences

CONSTANTS
  Writers,          \* goroutines that call WriteMultiBuffer
  Readers,          \* goroutines that call ReadMultiBuffer[Timeout]
  Sizes,            \* sizes a MultiBuffer may have, in units
  MaxSize,          \* the largest of them
  Limit,            \* pipeOption.limit: -1 for no limit
  DiscardOverflow,  \* the values pipeOption.discardOverflow may have
  MaxWrites         \* bound: how many writes a writer makes

ASSUME SizesAssumption == /\ Sizes \subseteq Nat \ {0}
                          /\ MaxSize \in Nat
                          /\ \A s \in Sizes : s <= MaxSize
ASSUME OptionAssumption == /\ Limit \in Int /\ Limit >= -1
                           /\ DiscardOverflow \subseteq BOOLEAN
ASSUME BoundAssumption == MaxWrites \in Nat

VARIABLES
  data,         \* p.data
  dataLen,      \* p.data.Len()
  state,        \* p.state
  readSignal,   \* TRUE iff the readSignal notifier holds its token
  writeSignal,  \* TRUE iff the writeSignal notifier holds its token
  done,         \* TRUE iff p.done is closed
  discardOverflow,  \* p.option.discardOverflow, set once
  wpc,          \* where each writer is in WriteMultiBuffer
  wmb,          \* the message it is writing, or last wrote
  wres,         \* what its WriteMultiBuffer (will have) returned
  rpc,          \* where each reader is in ReadMultiBuffer
  timed,        \* whether it runs ReadMultiBufferTimeout
  rres,         \* what its read (will have) returned
  accepted,     \* history: the messages the pipe took, in order
  delivered     \* history: the messages handed to readers, in order

pipeVars   == <<data, dataLen, state, done, discardOverflow>>
signals    == <<readSignal, writeSignal>>
writerVars == <<wpc, wmb, wres>>
readerVars == <<rpc, timed, rres>>
history    == <<accepted, delivered>>
vars == <<pipeVars, signals, writerVars, readerVars, history>>

Message == [from : Writers, num : Nat, size : 0 .. MaxSize]

isFull(size) == Limit >= 0 /\ size > Limit

\* A bug: a closed pipe reports EOF while it still holds data.
getStateEarlyEOF(forRead) ==
  CASE state = "open"   -> IF ~forRead /\ isFull(dataLen) THEN "errBufferFull" ELSE "nil"
    [] state = "closed" -> IF ~forRead THEN "ErrClosedPipe" ELSE "EOF"
    [] state = "errord" -> "ErrClosedPipe"

\* getState: what an operation is told before it touches the data.
getState(forRead) ==
  CASE state = "open"   -> IF ~forRead /\ isFull(dataLen) THEN "errBufferFull" ELSE "nil"
    [] state = "closed" -> IF ~forRead THEN "ErrClosedPipe"
                           ELSE IF data # <<>> THEN "nil" ELSE "EOF"
    [] state = "errord" -> "ErrClosedPipe"

-----------------------------------------------------------------------------
(* Writers *)

\* WriteMultiBuffer is called with a non-empty MultiBuffer (an empty one
\* returns at once and changes nothing).
WriteMultiBuffer(w, size) ==
  /\ wpc[w] = "idle"
  /\ wmb[w].num < MaxWrites
  /\ wmb' = [wmb EXCEPT ![w] = [from |-> w, num |-> @.num + 1, size |-> size]]
  /\ wpc' = [wpc EXCEPT ![w] = "try"]
  /\ UNCHANGED <<pipeVars, signals, wres, readerVars, history>>

\* One turn of the loop in WriteMultiBuffer: writeMultiBufferInternal under
\* the lock, and the branch on what it returned when the buffer is not full.  Storing into an empty and
\* merging into a non-empty buffer (errSlowDown) lead to the same next step.
writeMultiBufferInternal(w) ==
  LET err == getState(FALSE) IN
  /\ wpc[w] = "try"
  /\ \/ /\ err = "nil"
        /\ data' = Append(data, wmb[w])
        /\ dataLen' = dataLen + wmb[w].size
        /\ accepted' = Append(accepted, wmb[w])
        /\ wpc' = [wpc EXCEPT ![w] = "signal"]
        /\ wres' = [wres EXCEPT ![w] = "nil"]
     \/ /\ err = "ErrClosedPipe"
        /\ wpc' = [wpc EXCEPT ![w] = "signal"]
        /\ wres' = [wres EXCEPT ![w] = "ErrClosedPipe"]
        /\ UNCHANGED <<data, dataLen, accepted>>
  /\ UNCHANGED <<state, done, discardOverflow, signals, wmb, readerVars, delivered>>

\* The same turn on a full buffer: drop the message, or go to sleep.
bufferFull(w) ==
  /\ wpc[w] = "try"
  /\ getState(FALSE) = "errBufferFull"
  /\ \/ /\ discardOverflow
        /\ wpc' = [wpc EXCEPT ![w] = "idle"]
        /\ wres' = [wres EXCEPT ![w] = "nil"]
     \/ /\ ~discardOverflow
        /\ wpc' = [wpc EXCEPT ![w] = "wait"]
        /\ UNCHANGED wres
  /\ UNCHANGED <<pipeVars, signals, wmb, readerVars, history>>

\* A bug: the reader is not told.
SignalReaderForgotten(w) ==
  /\ wpc[w] = "signal"
  /\ wpc' = [wpc EXCEPT ![w] = "idle"]
  /\ UNCHANGED <<pipeVars, signals, wmb, wres, readerVars, history>>

\* p.readSignal.Signal() and return.
SignalReader(w) ==
  /\ wpc[w] = "signal"
  /\ readSignal' = TRUE
  /\ wpc' = [wpc EXCEPT ![w] = "idle"]
  /\ UNCHANGED <<pipeVars, writeSignal, wmb, wres, readerVars, history>>

\* A bug: a writer woken by done reports success.
WakeWriterSwallowed(w) ==
  /\ wpc[w] = "wait"
  /\ \/ /\ writeSignal
        /\ writeSignal' = FALSE
        /\ wpc' = [wpc EXCEPT ![w] = "try"]
        /\ UNCHANGED wres
     \/ /\ done
        /\ wpc' = [wpc EXCEPT ![w] = "idle"]
        /\ wres' = [wres EXCEPT ![w] = "nil"]
        /\ UNCHANGED writeSignal
  /\ UNCHANGED <<pipeVars, readSignal, wmb, readerVars, history>>

\* The select of a writer that found the buffer full.
WakeWriter(w) ==
  /\ wpc[w] = "wait"
  /\ \/ /\ writeSignal
        /\ writeSignal' = FALSE
        /\ wpc' = [wpc EXCEPT ![w] = "try"]
        /\ UNCHANGED wres
     \/ /\ done
        /\ wpc' = [wpc EXCEPT ![w] = "idle"]
        /\ wres' = [wres EXCEPT ![w] = "ErrClosedPipe"]
        /\ UNCHANGED writeSignal
  /\ UNCHANGED <<pipeVars, readSignal, wmb, readerVars, history>>

-----------------------------------------------------------------------------
(* Readers *)

\* ReadMultiBuffer, or ReadMultiBufferTimeout when isTimed.
ReadMultiBuffer(r, isTimed) ==
  /\ rpc[r] = "idle"
  /\ rpc' = [rpc EXCEPT ![r] = "try"]
  /\ timed' = [timed EXCEPT ![r] = isTimed]
  /\ UNCHANGED <<pipeVars, signals, writerVars, rres, history>>

\* One turn of the loop: readMultiBufferInternal takes all there is.
readMultiBufferInternal(r) ==
  LET err == getState(TRUE) IN
  /\ rpc[r] = "try"
  /\ \/ /\ err # "nil"
        /\ rres' = [rres EXCEPT ![r] = err]
        /\ rpc' = [rpc EXCEPT ![r] = "signal"]
        /\ UNCHANGED <<data, dataLen, delivered>>
     \/ /\ err = "nil" /\ data # <<>>
        /\ delivered' = delivered \o data
        /\ data' = <<>>
        /\ dataLen' = 0
        /\ rres' = [rres EXCEPT ![r] = "data"]
        /\ rpc' = [rpc EXCEPT ![r] = "signal"]
     \/ /\ err = "nil" /\ data = <<>>
        /\ rpc' = [rpc EXCEPT ![r] = "wait"]
        /\ UNCHANGED <<data, dataLen, delivered, rres>>
  /\ UNCHANGED <<state, done, discardOverflow, signals, writerVars, timed, accepted>>

\* A bug: blocked writers are not told.
SignalWriterForgotten(r) ==
  /\ rpc[r] = "signal"
  /\ rpc' = [rpc EXCEPT ![r] = "idle"]
  /\ UNCHANGED <<pipeVars, signals, writerVars, timed, rres, history>>

\* p.writeSignal.Signal() and return.
SignalWriter(r) ==
  /\ rpc[r] = "signal"
  /\ writeSignal' = TRUE
  /\ rpc' = [rpc EXCEPT ![r] = "idle"]
  /\ UNCHANGED <<pipeVars, readSignal, writerVars, timed, rres, history>>

\* The select of a reader that found the buffer empty.
WakeReader(r) ==
  /\ rpc[r] = "wait"
  /\ \/ /\ readSignal
        /\ readSignal' = FALSE
        /\ rpc' = [rpc EXCEPT ![r] = "try"]
        /\ UNCHANGED rres
     \/ /\ done
        /\ rpc' = [rpc EXCEPT ![r] = "try"]
        /\ UNCHANGED <<readSignal, rres>>
     \/ /\ timed[r]
        /\ rpc' = [rpc EXCEPT ![r] = "idle"]
        /\ rres' = [rres EXCEPT ![r] = "ErrReadTimeout"]
        /\ UNCHANGED readSignal
  /\ UNCHANGED <<pipeVars, writeSignal, writerVars, timed, history>>

-----------------------------------------------------------------------------
(* Either end, any goroutine *)

\* A bug: Close leaves p.done open.
CloseQuietly ==
  /\ state = "open"
  /\ state' = "closed"
  /\ UNCHANGED <<data, dataLen, done, discardOverflow, signals, writerVars, readerVars, history>>

\* A second Close or Interrupt returns without a change.
Close ==
  /\ state = "open"
  /\ state' = "closed"
  /\ done' = TRUE
  /\ UNCHANGED <<data, dataLen, discardOverflow, signals, writerVars, readerVars, history>>

\* A bug: Interrupt also breaks a closed pipe.
InterruptAnytime ==
  /\ state # "errord"
  /\ state' = "errord"
  /\ data' = <<>>
  /\ dataLen' = 0
  /\ done' = TRUE
  /\ UNCHANGED <<discardOverflow, signals, writerVars, readerVars, history>>

Interrupt ==
  /\ state = "open"
  /\ state' = "errord"
  /\ data' = <<>>
  /\ dataLen' = 0
  /\ done' = TRUE
  /\ UNCHANGED <<discardOverflow, signals, writerVars, readerVars, history>>

-----------------------------------------------------------------------------
Init ==
  /\ data = <<>> /\ dataLen = 0
  /\ state = "open" /\ done = FALSE /\ discardOverflow \in DiscardOverflow
  /\ readSignal = FALSE /\ writeSignal = FALSE
  /\ wpc = [w \in Writers |-> "idle"]
  /\ wmb = [w \in Writers |-> [from |-> w, num |-> 0, size |-> 0]]
  /\ wres = [w \in Writers |-> "none"]
  /\ rpc = [r \in Readers |-> "idle"]
  /\ timed = [r \in Readers |-> FALSE]
  /\ rres = [r \in Readers |-> "none"]
  /\ accepted = <<>> /\ delivered = <<>>

writerStep(w) ==
  writeMultiBufferInternal(w) \/ bufferFull(w) \/ SignalReader(w) \/ WakeWriter(w)
readerStep(r) == readMultiBufferInternal(r) \/ SignalWriter(r) \/ WakeReader(r)

Next ==
  \/ \E w \in Writers, size \in Sizes : WriteMultiBuffer(w, size)
  \/ \E w \in Writers : writerStep(w)
  \/ \E r \in Readers, isTimed \in BOOLEAN : ReadMultiBuffer(r, isTimed)
  \/ \E r \in Readers : readerStep(r)
  \/ Close
  \/ Interrupt

Spec == Init /\ [][Next]_vars

\* The Go scheduler runs every goroutine that can run; a call that was begun
\* proceeds whenever it is not blocked.
CallFairness ==
  /\ \A w \in Writers : WF_vars(writerStep(w))
  /\ \A r \in Readers : WF_vars(readerStep(r))

\* The reading side is a buf.Copy loop, which calls ReadMultiBuffer again.
ReaderFairness == \A r \in Readers : WF_vars(\E isTimed \in BOOLEAN : ReadMultiBuffer(r, isTimed))

LiveSpec == Spec /\ CallFairness /\ ReaderFairness

-----------------------------------------------------------------------------
(* Properties *)

\* Types, and the recorded length is zero exactly when there is no data.
TypeOK ==
  /\ data \in Seq(Message) /\ dataLen \in Nat
  /\ (data = <<>>) <=> (dataLen = 0)
  /\ state \in {"open", "closed", "errord"} /\ done \in BOOLEAN
  /\ discardOverflow \in BOOLEAN
  /\ readSignal \in BOOLEAN /\ writeSignal \in BOOLEAN
  /\ wpc \in [Writers -> {"idle", "try", "signal", "wait"}]
  /\ wmb \in [Writers -> Message]
  /\ wres \in [Writers -> {"none", "nil", "ErrClosedPipe"}]
  /\ rpc \in [Readers -> {"idle", "try", "signal", "wait"}]
  /\ timed \in [Readers -> BOOLEAN]
  /\ rres \in [Readers -> {"none", "data", "EOF", "ErrClosedPipe", "ErrReadTimeout"}]
  /\ accepted \in Seq(Message) /\ delivered \in Seq(Message)

\* Unless the pipe was interrupted, every message it took is either handed to
\* a reader or still buffered, once and in the order of the writes, whatever
\* the interleaving of writers, readers and Close.
InOrder == state # "errord" => accepted = delivered \o data

\* A limited pipe overshoots its limit by at most one MultiBuffer: writers
\* that race past the check cannot pile up.
BoundedBuffer == Limit >= 0 => dataLen <= Limit + MaxSize

\* A reader is told EOF only when the pipe was closed and everything it had
\* taken was handed out.
EOFMeansDrained ==
  \A r \in Readers : rres[r] = "EOF" => state = "closed" /\ delivered = accepted

\* The result of a finished write is the truth: after an error the message is
\* not in the pipe, after nil it is there once (or was discarded, on a
\* discarding pipe).  The retry loop never stores a message twice.
WriteOutcome ==
  \A w \in Writers : wpc[w] = "idle" =>
    LET copies == {i \in 1 .. Len(accepted) : accepted[i] = wmb[w]} IN
    /\ wres[w] = "ErrClosedPipe" => copies = {}
    /\ wres[w] = "nil" => IF copies = {} THEN discardOverflow
                          ELSE \A i, j \in copies : i = j

\* No lost wake-up.  A writer asleep on an open pipe has a wake-up coming: a
\* token, a reader about to signal, another writer already awake, or data that
\* the next read will answer with a signal.  A reader asleep while there is
\* data has one too.
NoLostWakeup ==
  /\ \A w \in Writers : wpc[w] = "wait" =>
       \/ done \/ writeSignal \/ data # <<>>
       \/ \E r \in Readers : rpc[r] = "signal"
       \/ \E v \in Writers : wpc[v] = "try"
  /\ \A r \in Readers : rpc[r] = "wait" /\ data # <<>> =>
       \/ done \/ readSignal
       \/ \E w \in Writers : wpc[w] = "signal"
       \/ \E q \in Readers : rpc[q] = "try"

\* What the pipe took is handed to a reader, unless the pipe is interrupted.
AcceptedIsDelivered ==
  \A w \in Writers, n \in 1 .. MaxWrites :
    LET is(m) == m.from = w /\ m.num = n IN
    (\E i \in 1 .. Len(accepted) : is(accepted[i]))
      ~> (state = "errord" \/ \E i \in 1 .. Len(delivered) : is(delivered[i]))

\* Nobody is left waiting: every WriteMultiBuffer returns as long as somebody
\* reads, and closing or interrupting the pipe, which sends no signal, releases
\* every blocked reader.
NoneLeftWaiting ==
  /\ \A w \in Writers : wpc[w] # "idle" ~> wpc[w] = "idle"
  /\ \A r \in Readers : (state # "open" /\ rpc[r] # "idle") ~> rpc[r] = "idle"

\* The pipe implements the abstract stream.
Abstract == INSTANCE Stream WITH status <- state
ImplementsStream == Abstract!StreamSpec
=============================================================================
