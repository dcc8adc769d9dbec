----------------------------- MODULE PipeProofs -----------------------------
(***************************************************************************)
(* Proofs about Pipe, for every set of writers and readers, every limit and *)
(* every number of writes.                                                  *)
(***************************************************************************)
EXTENDS Pipe, SequenceTheorems, TLAPS

(***************************************************************************)
(* TypeOK is not inductive: that a non-empty buffer has a non-zero length   *)
(* needs every message on its way into the pipe to be non-empty.            *)
(***************************************************************************)
WritesNonEmpty == \A w \in Writers : wpc[w] # "idle" => wmb[w].size \in Sizes

TypeInv == TypeOK /\ WritesNonEmpty

LEMMA TypeInit == Init => TypeInv
  <1> SUFFICES ASSUME Init
               PROVE  TypeInv
    OBVIOUS
  <1>1. data \in Seq(Message) /\ accepted \in Seq(Message) /\ delivered \in Seq(Message)
    BY EmptySeq DEF Init
  <1>2. wmb \in [Writers -> Message]
    BY SizesAssumption DEF Init, Message
  <1> QED
    BY <1>1, <1>2, OptionAssumption DEF Init, TypeInv, TypeOK, WritesNonEmpty

LEMMA WriteMultiBufferType ==
  ASSUME TypeInv, NEW w \in Writers, NEW size \in Sizes, WriteMultiBuffer(w, size)
  PROVE  TypeInv'
  <1>1. [from |-> w, num |-> wmb[w].num + 1, size |-> size] \in Message
    BY SizesAssumption DEF TypeInv, TypeOK, Message
  <1> QED
    BY <1>1 DEF TypeInv, TypeOK, WritesNonEmpty, WriteMultiBuffer, pipeVars, signals,
                readerVars, history

LEMMA writeMultiBufferInternalType ==
  ASSUME TypeInv, NEW w \in Writers, writeMultiBufferInternal(w)
  PROVE  TypeInv'
  <1> USE DEF writeMultiBufferInternal, signals, readerVars
  <1>1. CASE getState(FALSE) = "nil"
    <2>1. wmb[w] \in Message /\ wmb[w].size \in Nat \ {0}
      BY SizesAssumption DEF TypeInv, TypeOK, WritesNonEmpty
    <2>2. /\ data' = Append(data, wmb[w]) /\ accepted' = Append(accepted, wmb[w])
          /\ dataLen' = dataLen + wmb[w].size
      BY <1>1
    <2>3. data \in Seq(Message) /\ accepted \in Seq(Message) /\ dataLen \in Nat
      BY DEF TypeInv, TypeOK
    <2>4. data' \in Seq(Message) /\ data' # <<>> /\ accepted' \in Seq(Message)
      BY <2>1, <2>2, <2>3, AppendProperties
    <2>5. dataLen' \in Nat /\ dataLen' # 0
      BY <2>1, <2>2, <2>3
    <2> QED
      BY <1>1, <2>4, <2>5 DEF TypeInv, TypeOK, WritesNonEmpty
  <1>2. CASE getState(FALSE) # "nil"
    BY <1>2 DEF TypeInv, TypeOK, WritesNonEmpty
  <1> QED BY <1>1, <1>2

LEMMA readMultiBufferInternalType ==
  ASSUME TypeInv, NEW r \in Readers, readMultiBufferInternal(r)
  PROVE  TypeInv'
  <1> USE DEF readMultiBufferInternal, signals, writerVars
  <1>1. getState(TRUE) # "nil" => getState(TRUE) \in {"EOF", "ErrClosedPipe"}
    BY DEF getState, TypeInv, TypeOK
  <1>2. rres' \in [Readers -> {"none", "data", "EOF", "ErrClosedPipe", "ErrReadTimeout"}]
    BY <1>1 DEF TypeInv, TypeOK
  <1>3. data' \in Seq(Message) /\ delivered' \in Seq(Message)
    <2>1. <<>> \in Seq(Message) /\ delivered \o data \in Seq(Message)
      BY EmptySeq, ConcatProperties DEF TypeInv, TypeOK
    <2> QED
      BY <2>1 DEF TypeInv, TypeOK
  <1>4. dataLen' \in Nat /\ ((data' = <<>>) <=> (dataLen' = 0))
    <2>1. CASE UNCHANGED <<data, dataLen>>
      BY <2>1 DEF TypeInv, TypeOK
    <2>2. CASE data' = <<>> /\ dataLen' = 0
      BY <2>2
    <2> QED
      BY <2>1, <2>2
  <1> QED
    BY <1>2, <1>3, <1>4 DEF TypeInv, TypeOK, WritesNonEmpty

LEMMA TypeStep == TypeInv /\ [Next]_vars => TypeInv'
  <1> SUFFICES ASSUME TypeInv, [Next]_vars
               PROVE  TypeInv'
    OBVIOUS
  <1> USE DEF TypeInv, TypeOK, WritesNonEmpty, pipeVars, signals, writerVars, readerVars, history
  <1>1. ASSUME NEW w \in Writers, SignalReader(w) PROVE TypeInv'
    BY <1>1 DEF SignalReader
  <1>2. ASSUME NEW w \in Writers, WakeWriter(w) \/ bufferFull(w) PROVE TypeInv'
    BY <1>2 DEF WakeWriter, bufferFull
  <1>3. ASSUME NEW r \in Readers, NEW isTimed \in BOOLEAN, ReadMultiBuffer(r, isTimed)
        PROVE TypeInv'
    BY <1>3 DEF ReadMultiBuffer
  <1>4. ASSUME NEW r \in Readers, SignalWriter(r) PROVE TypeInv'
    BY <1>4 DEF SignalWriter
  <1>5. ASSUME NEW r \in Readers, WakeReader(r) PROVE TypeInv'
    BY <1>5 DEF WakeReader
  <1>6. CASE Close
    BY <1>6 DEF Close
  <1>7. CASE Interrupt
    BY <1>7 DEF Interrupt
  <1>8. CASE UNCHANGED vars
    BY <1>8 DEF vars
  <1> QED
    BY <1>1, <1>2, <1>3, <1>4, <1>5, <1>6, <1>7, <1>8, WriteMultiBufferType,
       writeMultiBufferInternalType, readMultiBufferInternalType DEF Next, writerStep, readerStep

\* Every reachable state of every pipe is well typed, and its recorded length
\* is zero exactly when it holds no data.
THEOREM TypeCorrect == Spec => []TypeOK
  <1>1. TypeInv => TypeOK
    BY DEF TypeInv
  <1> QED
    BY <1>1, TypeInit, TypeStep, PTL DEF Spec

-----------------------------------------------------------------------------
(* The safety properties of the runs *)

\* done is closed exactly when the pipe is no longer open: what lets a woken
\* goroutine tell the reason.
DoneIsClosed == done <=> state # "open"

\* The properties hold together: that EOF means drained needs the order of the
\* data, and that no wake-up is lost needs that done follows the state.
PipeInv == TypeInv /\ DoneIsClosed /\ InOrder /\ BoundedBuffer /\ EOFMeansDrained /\ NoLostWakeup

LEMMA PipeInit == Init => PipeInv
  <1> SUFFICES ASSUME Init
               PROVE  PipeInv
    OBVIOUS
  <1>1. <<>> \in Seq(Message) /\ <<>> \o <<>> = <<>>
    BY EmptySeq, ConcatEmptySeq
  <1>2. InOrder
    BY <1>1 DEF Init, InOrder
  <1>3. BoundedBuffer
    BY SizesAssumption, OptionAssumption DEF Init, BoundedBuffer
  <1>4. DoneIsClosed /\ EOFMeansDrained /\ NoLostWakeup
    BY DEF Init, DoneIsClosed, EOFMeansDrained, NoLostWakeup
  <1> QED
    BY <1>2, <1>3, <1>4, TypeInit DEF PipeInv

\* What getState tells a writer and a reader.
LEMMA WriterIsTold ==
  ASSUME TypeOK
  PROVE  /\ getState(FALSE) = "nil" <=> state = "open" /\ ~isFull(dataLen)
         /\ getState(FALSE) = "errBufferFull" <=> state = "open" /\ isFull(dataLen)
         /\ getState(FALSE) = "ErrClosedPipe" <=> state # "open"
  BY DEF TypeOK, getState

LEMMA ReaderIsTold ==
  ASSUME TypeOK
  PROVE  /\ getState(TRUE) = "nil" <=> state = "open" \/ (state = "closed" /\ data # <<>>)
         /\ getState(TRUE) = "EOF" <=> state = "closed" /\ data = <<>>
         /\ getState(TRUE) = "ErrClosedPipe" <=> state = "errord"
         /\ getState(TRUE) \in {"nil", "EOF", "ErrClosedPipe"}
  BY DEF TypeOK, getState

\* A full buffer holds data.
LEMMA FullHoldsData ==
  ASSUME TypeOK, isFull(dataLen)
  PROVE  data # <<>>
  BY OptionAssumption DEF TypeOK, isFull

LEMMA writeMultiBufferInternalInv ==
  ASSUME PipeInv, NEW w \in Writers, writeMultiBufferInternal(w)
  PROVE  DoneIsClosed' /\ InOrder' /\ BoundedBuffer' /\ EOFMeansDrained' /\ NoLostWakeup'
  <1> USE DEF PipeInv, TypeInv
  <1>0. UNCHANGED <<state, done, signals, rpc, rres, delivered, wmb>> /\ wpc[w] = "try"
    BY DEF writeMultiBufferInternal, readerVars
  <1>1. CASE getState(FALSE) = "nil"
    <2>1. state = "open" /\ ~isFull(dataLen) /\ ~done
      BY <1>1, WriterIsTold DEF DoneIsClosed
    <2>2. /\ data' = Append(data, wmb[w]) /\ accepted' = Append(accepted, wmb[w])
          /\ dataLen' = dataLen + wmb[w].size /\ wpc' = [wpc EXCEPT ![w] = "signal"]
      BY <1>1 DEF writeMultiBufferInternal
    <2>3. /\ data \in Seq(Message) /\ delivered \in Seq(Message) /\ wmb[w] \in Message
          /\ wmb[w].size \in Nat /\ wmb[w].size <= MaxSize /\ dataLen \in Nat
      BY <1>0, SizesAssumption DEF TypeOK, WritesNonEmpty
    <2>4. accepted' = delivered' \o data'
      <3>1. accepted = delivered \o data
        BY <2>1 DEF InOrder
      <3>2. <<wmb[w]>> \in Seq(Message)
        BY <2>3
      <3>3. delivered \o data \in Seq(Message)
        BY <2>3, ConcatProperties
      <3>4. /\ Append(data, wmb[w]) = data \o <<wmb[w]>>
            /\ Append(delivered \o data, wmb[w]) = (delivered \o data) \o <<wmb[w]>>
        BY <2>3, <3>3, AppendIsConcat
      <3>5. (delivered \o data) \o <<wmb[w]>> = delivered \o (data \o <<wmb[w]>>)
        BY <2>3, <3>2, ConcatAssociative
      <3> QED
        BY <1>0, <2>2, <3>1, <3>4, <3>5
    <2>5. InOrder'
      BY <2>4 DEF InOrder
    <2>6. BoundedBuffer'
      BY <2>1, <2>2, <2>3, OptionAssumption, SizesAssumption DEF BoundedBuffer, isFull
    <2>7. EOFMeansDrained' /\ DoneIsClosed'
      BY <1>0, <2>1 DEF EOFMeansDrained, DoneIsClosed
    <2>8. data' # <<>>
      BY <2>2, <2>3, AppendProperties
    <2>9. wpc \in [Writers -> {"idle", "try", "signal", "wait"}] /\ wpc'[w] = "signal"
      BY <2>2 DEF TypeOK
    <2>10. NoLostWakeup'
      BY <2>8, <2>9 DEF NoLostWakeup
    <2> QED
      BY <2>5, <2>6, <2>7, <2>10
  <1>2. CASE getState(FALSE) = "ErrClosedPipe"
    <2>1. done /\ UNCHANGED <<data, dataLen, accepted>>
      BY <1>2, WriterIsTold DEF DoneIsClosed, writeMultiBufferInternal
    <2>2. NoLostWakeup'
      BY <1>0, <2>1 DEF NoLostWakeup
    <2> QED
      BY <1>0, <2>1, <2>2 DEF DoneIsClosed, InOrder, BoundedBuffer, EOFMeansDrained
  <1> QED
    BY <1>1, <1>2 DEF writeMultiBufferInternal

LEMMA readMultiBufferInternalInv ==
  ASSUME PipeInv, NEW r \in Readers, readMultiBufferInternal(r)
  PROVE  DoneIsClosed' /\ InOrder' /\ BoundedBuffer' /\ EOFMeansDrained' /\ NoLostWakeup'
  <1> USE DEF PipeInv, TypeInv
  <1>0. UNCHANGED <<state, done, signals, wpc, accepted>> /\ rpc[r] = "try"
    BY DEF readMultiBufferInternal, writerVars
  <1>1. /\ rpc \in [Readers -> {"idle", "try", "signal", "wait"}]
        /\ rres \in [Readers -> {"none", "data", "EOF", "ErrClosedPipe", "ErrReadTimeout"}]
        /\ data \in Seq(Message) /\ delivered \in Seq(Message)
    BY DEF TypeOK
  <1>2. CASE getState(TRUE) # "nil"
    <2>1. /\ UNCHANGED <<data, dataLen, delivered>>
          /\ rres' = [rres EXCEPT ![r] = getState(TRUE)]
          /\ rpc' = [rpc EXCEPT ![r] = "signal"]
      BY <1>2 DEF readMultiBufferInternal
    <2>2. getState(TRUE) = "EOF" => state = "closed" /\ delivered = accepted
      BY <1>1, ReaderIsTold, ConcatEmptySeq DEF InOrder
    <2>3. EOFMeansDrained'
      BY <1>0, <1>1, <2>1, <2>2 DEF EOFMeansDrained
    <2>4. done
      BY <1>2, ReaderIsTold DEF DoneIsClosed, TypeOK
    <2>5. NoLostWakeup'
      BY <1>0, <2>4 DEF NoLostWakeup
    <2> QED
      BY <1>0, <2>1, <2>3, <2>5 DEF DoneIsClosed, InOrder, BoundedBuffer
  <1>3. CASE getState(TRUE) = "nil" /\ data # <<>>
    <2>1. /\ delivered' = delivered \o data /\ data' = <<>> /\ dataLen' = 0
          /\ rres' = [rres EXCEPT ![r] = "data"] /\ rpc' = [rpc EXCEPT ![r] = "signal"]
      BY <1>3 DEF readMultiBufferInternal
    <2>2. state # "errord" /\ accepted = delivered \o data
      BY <1>3, ReaderIsTold DEF InOrder
    <2>3. InOrder'
      BY <1>0, <1>1, <2>1, <2>2, ConcatProperties, ConcatEmptySeq DEF InOrder
    <2>4. delivered # accepted
      BY <1>1, <1>3, <2>2, ConcatEqualIffEmpty
    <2>5. EOFMeansDrained'
      BY <1>0, <1>1, <2>1, <2>4 DEF EOFMeansDrained
    <2>6. BoundedBuffer'
      BY <2>1, SizesAssumption, OptionAssumption DEF BoundedBuffer
    <2>7. rpc'[r] = "signal"
      BY <1>1, <2>1
    <2>8. NoLostWakeup'
      BY <1>0, <2>1, <2>7 DEF NoLostWakeup
    <2> QED
      BY <1>0, <2>3, <2>5, <2>6, <2>8 DEF DoneIsClosed
  <1>4. CASE getState(TRUE) = "nil" /\ data = <<>>
    <2>1. UNCHANGED <<data, dataLen, delivered, rres>> /\ rpc' = [rpc EXCEPT ![r] = "wait"]
      BY <1>4 DEF readMultiBufferInternal
    <2>2. \A q \in Readers : q # r => rpc'[q] = rpc[q]
      BY <1>1, <2>1
    <2>3. NoLostWakeup'
      BY <1>0, <1>1, <1>4, <2>1, <2>2 DEF NoLostWakeup, signals
    <2> QED
      BY <1>0, <2>1, <2>3 DEF DoneIsClosed, InOrder, BoundedBuffer, EOFMeansDrained
  <1> QED
    BY <1>2, <1>3, <1>4

LEMMA PipeStep == PipeInv /\ [Next]_vars => PipeInv'
  <1> SUFFICES ASSUME PipeInv, [Next]_vars
               PROVE  PipeInv'
    OBVIOUS
  <1> DEFINE Others == DoneIsClosed /\ InOrder /\ BoundedBuffer /\ EOFMeansDrained /\ NoLostWakeup
  <1>1. TypeInv'
    BY TypeStep DEF PipeInv
  <1> USE DEF PipeInv, TypeInv, DoneIsClosed, InOrder, BoundedBuffer, EOFMeansDrained, NoLostWakeup
  <1>a. /\ wpc \in [Writers -> {"idle", "try", "signal", "wait"}]
        /\ rpc \in [Readers -> {"idle", "try", "signal", "wait"}]
        /\ rres \in [Readers -> {"none", "data", "EOF", "ErrClosedPipe", "ErrReadTimeout"}]
    BY DEF TypeOK
  <1>2. ASSUME NEW w \in Writers, NEW size \in Sizes, WriteMultiBuffer(w, size) PROVE Others'
    BY <1>2, <1>a DEF WriteMultiBuffer, pipeVars, signals, readerVars, history
  <1>3. ASSUME NEW w \in Writers, bufferFull(w) PROVE Others'
    <2>1. data # <<>>
      BY <1>3, WriterIsTold, FullHoldsData DEF bufferFull
    <2>2. \A v \in Writers : v # w => wpc'[v] = wpc[v]
      BY <1>3, <1>a DEF bufferFull
    <2>3. wpc[w] = "try" /\ UNCHANGED <<pipeVars, signals, readerVars, history>>
      BY <1>3 DEF bufferFull
    <2> QED
      BY <2>1, <2>2, <2>3 DEF pipeVars, signals, readerVars, history
  <1>4. ASSUME NEW w \in Writers, SignalReader(w) PROVE Others'
    BY <1>4, <1>a DEF SignalReader, pipeVars, readerVars, history
  <1>5. ASSUME NEW w \in Writers, WakeWriter(w) PROVE Others'
    BY <1>5, <1>a DEF WakeWriter, pipeVars, readerVars, history
  <1>6. ASSUME NEW r \in Readers, NEW isTimed \in BOOLEAN, ReadMultiBuffer(r, isTimed) PROVE Others'
    BY <1>6, <1>a DEF ReadMultiBuffer, pipeVars, signals, writerVars, history
  <1>7. ASSUME NEW r \in Readers, SignalWriter(r) PROVE Others'
    BY <1>7, <1>a DEF SignalWriter, pipeVars, writerVars, history
  <1>8. ASSUME NEW r \in Readers, WakeReader(r) PROVE Others'
    BY <1>8, <1>a DEF WakeReader, pipeVars, writerVars, history
  <1>9. ASSUME Close PROVE Others'
    BY <1>9 DEF Close, signals, writerVars, readerVars, history
  <1>10. ASSUME Interrupt PROVE Others'
    BY <1>10, SizesAssumption, OptionAssumption
       DEF Interrupt, signals, writerVars, readerVars, history
  <1>11. ASSUME UNCHANGED vars PROVE Others'
    BY <1>11 DEF vars, pipeVars, signals, writerVars, readerVars, history
  <1> QED
    BY <1>1, <1>2, <1>3, <1>4, <1>5, <1>6, <1>7, <1>8, <1>9, <1>10, <1>11,
       writeMultiBufferInternalInv, readMultiBufferInternalInv DEF Next, writerStep, readerStep

LEMMA PipeInvariant == Spec => []PipeInv
  <1> QED
    BY PipeInit, PipeStep, PTL DEF Spec

\* Whatever the number of writers and readers, a pipe that was not interrupted
\* hands out what it took, once and in order.
THEOREM OrderKept == Spec => []InOrder
  <1>1. PipeInv => InOrder
    BY DEF PipeInv
  <1> QED
    BY <1>1, PipeInvariant, PTL

\* Racing writers never take a limited pipe further past its limit than one
\* MultiBuffer.
THEOREM LimitKept == Spec => []BoundedBuffer
  <1>1. PipeInv => BoundedBuffer
    BY DEF PipeInv
  <1> QED
    BY <1>1, PipeInvariant, PTL

\* A reader that is told EOF has seen, with the other readers, everything.
THEOREM EOFIsFinal == Spec => []EOFMeansDrained
  <1>1. PipeInv => EOFMeansDrained
    BY DEF PipeInv
  <1> QED
    BY <1>1, PipeInvariant, PTL

\* The one-slot notifiers lose no wake-up, for any number of goroutines.
THEOREM WakeupsKept == Spec => []NoLostWakeup
  <1>1. PipeInv => NoLostWakeup
    BY DEF PipeInv
  <1> QED
    BY <1>1, PipeInvariant, PTL

-----------------------------------------------------------------------------
(* The pipe implements the stream *)

LEMMA StepImplements ==
  ASSUME PipeInv, [Next]_vars
  PROVE  [Abstract!StreamNext]_Abstract!streamVars
  <1> USE DEF Abstract!streamVars
  <1>1. /\ accepted \in Seq(Message) /\ delivered \in Seq(Message) /\ data \in Seq(Message)
        /\ TypeOK
    BY DEF PipeInv, TypeInv, TypeOK
  <1>2. ASSUME NEW w \in Writers, writeMultiBufferInternal(w), accepted' # accepted
        PROVE  Abstract!Put
    <2>1. /\ accepted' = Append(accepted, wmb[w]) /\ getState(FALSE) = "nil"
          /\ UNCHANGED <<delivered, state>>
      BY <1>2 DEF writeMultiBufferInternal
    <2>2. wmb[w] \in Message
      BY <1>1 DEF TypeOK
    <2>3. Len(accepted') = Len(accepted) + 1 /\ SubSeq(accepted', 1, Len(accepted)) = accepted
      BY <1>1, <2>1, <2>2, AppendProperties
    <2> QED
      BY <1>1, <2>1, <2>3, WriterIsTold DEF Abstract!Put
  <1>3. ASSUME NEW r \in Readers, readMultiBufferInternal(r), delivered' # delivered
        PROVE  Abstract!Take
    <2>1. /\ delivered' = delivered \o data /\ data # <<>> /\ getState(TRUE) = "nil"
          /\ UNCHANGED <<accepted, state>>
      BY <1>3 DEF readMultiBufferInternal
    <2>2. state # "errord" /\ accepted = delivered \o data
      BY <1>1, <2>1, ReaderIsTold DEF PipeInv, InOrder
    <2>3. Len(accepted) = Len(delivered) + Len(data) /\ Len(data) \in Nat \ {0} /\ Len(delivered) \in Nat
      BY <1>1, <2>1, <2>2, ConcatProperties, EmptySeq, LenProperties
    <2>4. delivered' = SubSeq(accepted, 1, Len(accepted))
      BY <1>1, <2>1, <2>2, SubSeqFull
    <2>5. Len(accepted) \in Len(delivered) + 1 .. Len(accepted)
      BY <2>3
    <2> QED
      BY <2>1, <2>2, <2>4, <2>5 DEF Abstract!Take
  <1>4. ASSUME Close \/ Interrupt
        PROVE  Abstract!CloseStream
    BY <1>4 DEF Close, Interrupt, history, Abstract!CloseStream
  <1>5. ASSUME NEW w \in Writers, writeMultiBufferInternal(w), accepted' = accepted
        PROVE  UNCHANGED Abstract!streamVars
    BY <1>5 DEF writeMultiBufferInternal
  <1>6. ASSUME NEW r \in Readers, readMultiBufferInternal(r), delivered' = delivered
        PROVE  UNCHANGED Abstract!streamVars
    BY <1>6 DEF readMultiBufferInternal
  <1>7. ASSUME NEW w \in Writers,
               bufferFull(w) \/ SignalReader(w) \/ WakeWriter(w)
                 \/ \E size \in Sizes : WriteMultiBuffer(w, size)
        PROVE  UNCHANGED Abstract!streamVars
    BY <1>7 DEF bufferFull, SignalReader, WakeWriter, WriteMultiBuffer, pipeVars, history
  <1>8. ASSUME NEW r \in Readers,
               SignalWriter(r) \/ WakeReader(r) \/ \E isTimed \in BOOLEAN : ReadMultiBuffer(r, isTimed)
        PROVE  UNCHANGED Abstract!streamVars
    BY <1>8 DEF SignalWriter, WakeReader, ReadMultiBuffer, pipeVars, history
  <1>9. ASSUME UNCHANGED vars
        PROVE  UNCHANGED Abstract!streamVars
    BY <1>9 DEF vars, pipeVars, history
  <1> QED
    BY <1>2, <1>3, <1>4, <1>5, <1>6, <1>7, <1>8, <1>9
       DEF Next, writerStep, readerStep, Abstract!StreamNext

\* Every behaviour of every pipe is a behaviour of the stream: to whoever uses
\* it, the buffer, the signals and the lock do not show.
THEOREM PipeIsStream == Spec => ImplementsStream
  <1>1. Init => Abstract!StreamInit
    BY DEF Init, Abstract!StreamInit
  <1>2. PipeInv /\ [Next]_vars => [Abstract!StreamNext]_Abstract!streamVars
    BY StepImplements
  <1> QED
    BY <1>1, <1>2, PipeInvariant, PTL DEF Spec, ImplementsStream, Abstract!StreamSpec

-----------------------------------------------------------------------------
(* The result of a write is the truth *)

Accepted(m) == \E i \in 1 .. Len(accepted) : accepted[i] = m

\* Messages are told apart by their writer and its count, and a message is in
\* the pipe only once its writer is past the loop.
Distinct ==
  /\ \A w \in Writers : wmb[w].from = w
  /\ \A i \in 1 .. Len(accepted) : accepted[i].num <= wmb[accepted[i].from].num
  /\ \A i, j \in 1 .. Len(accepted) : accepted[i] = accepted[j] => i = j
  /\ \A w \in Writers : wpc[w] \in {"try", "wait"} => ~Accepted(wmb[w])

Truthful ==
  \A w \in Writers : wpc[w] \in {"idle", "signal"} =>
    /\ wres[w] = "ErrClosedPipe" => ~Accepted(wmb[w])
    /\ wres[w] = "nil" /\ ~discardOverflow => Accepted(wmb[w])

OutcomeInv == TypeInv /\ Distinct /\ Truthful

LEMMA OutcomeInit == Init => OutcomeInv
  <1> SUFFICES ASSUME Init
               PROVE  OutcomeInv
    OBVIOUS
  <1>1. Len(accepted) = 0
    BY EmptySeq DEF Init
  <1>2. Distinct /\ Truthful
    BY <1>1 DEF Init, Distinct, Truthful, Accepted
  <1> QED
    BY <1>2, TypeInit DEF OutcomeInv

LEMMA writeMultiBufferInternalOutcome ==
  ASSUME OutcomeInv, NEW w \in Writers, writeMultiBufferInternal(w)
  PROVE  Distinct' /\ Truthful'
  <1>1. /\ wpc \in [Writers -> {"idle", "try", "signal", "wait"}]
        /\ wres \in [Writers -> {"none", "nil", "ErrClosedPipe"}]
        /\ wmb \in [Writers -> Message] /\ accepted \in Seq(Message)
    BY DEF OutcomeInv, TypeInv, TypeOK
  <1>2. wpc[w] = "try" /\ UNCHANGED <<wmb, discardOverflow>> /\ wpc' = [wpc EXCEPT ![w] = "signal"]
    BY DEF writeMultiBufferInternal
  <1>3. ~Accepted(wmb[w])
    BY <1>2 DEF OutcomeInv, Distinct
  <1>4. CASE accepted' = accepted /\ wres' = [wres EXCEPT ![w] = "ErrClosedPipe"]
    <2>1. \A m : Accepted(m)' <=> Accepted(m)
      BY <1>4 DEF Accepted
    <2> QED
      BY <1>1, <1>2, <1>3, <1>4, <2>1 DEF OutcomeInv, Distinct, Truthful
  <1>5. CASE accepted' = Append(accepted, wmb[w]) /\ wres' = [wres EXCEPT ![w] = "nil"]
    <2>1. wmb[w] \in Message /\ Len(accepted) \in Nat
      BY <1>1, LenProperties
    <2>2. /\ Len(accepted') = Len(accepted) + 1
          /\ \A i \in 1 .. Len(accepted) : accepted'[i] = accepted[i]
          /\ accepted'[Len(accepted) + 1] = wmb[w]
      BY <1>1, <1>5, <2>1, AppendProperties
    <2>3. \A i \in 1 .. Len(accepted') : i \in 1 .. Len(accepted) \/ i = Len(accepted) + 1
      BY <2>1, <2>2
    <2>4. ASSUME NEW m
          PROVE  Accepted(m)' <=> Accepted(m) \/ m = wmb[w]
      <3>1. ASSUME Accepted(m) PROVE Accepted(m)'
        BY <2>1, <2>2, <3>1 DEF Accepted
      <3>2. ASSUME m = wmb[w] PROVE Accepted(m)'
        BY <2>1, <2>2, <3>2 DEF Accepted
      <3>3. ASSUME Accepted(m)' PROVE Accepted(m) \/ m = wmb[w]
        BY <2>2, <2>3, <3>3 DEF Accepted
      <3> QED
        BY <3>1, <3>2, <3>3
    <2>5. \A v \in Writers : v # w => wmb[v] # wmb[w]
      BY DEF OutcomeInv, Distinct
    <2>6. \A i \in 1 .. Len(accepted') : accepted'[i].num <= wmb'[accepted'[i].from].num
      <3>1. wmb[w].from = w /\ wmb[w].num \in Nat
        BY <2>1 DEF OutcomeInv, Distinct, Message
      <3> QED
        BY <1>2, <2>2, <2>3, <3>1 DEF OutcomeInv, Distinct
    <2>7. \A i, j \in 1 .. Len(accepted') : accepted'[i] = accepted'[j] => i = j
      BY <1>3, <2>2, <2>3 DEF OutcomeInv, Distinct, Accepted
    <2>8. \A v \in Writers : wpc'[v] \in {"try", "wait"} => ~Accepted(wmb[v])'
      <3>1. ASSUME NEW v \in Writers, wpc'[v] \in {"try", "wait"} PROVE ~Accepted(wmb[v])'
        <4>1. v # w /\ wpc[v] \in {"try", "wait"}
          BY <1>1, <1>2, <3>1
        <4>2. ~Accepted(wmb[v]) /\ wmb[v] # wmb[w]
          BY <2>5, <4>1 DEF OutcomeInv, Distinct
        <4> QED
          BY <1>2, <2>4, <4>2
      <3> QED
        BY <3>1
    <2>9. Distinct'
      BY <1>2, <2>6, <2>7, <2>8 DEF OutcomeInv, Distinct
    <2>10. Truthful'
      BY <1>1, <1>2, <1>5, <2>4, <2>5 DEF OutcomeInv, Truthful
    <2> QED
      BY <2>9, <2>10
  <1> QED
    BY <1>4, <1>5 DEF writeMultiBufferInternal

LEMMA OutcomeStep == OutcomeInv /\ [Next]_vars => OutcomeInv'
  <1> SUFFICES ASSUME OutcomeInv, [Next]_vars
               PROVE  OutcomeInv'
    OBVIOUS
  <1>1. TypeInv'
    BY TypeStep DEF OutcomeInv
  <1>2. /\ wpc \in [Writers -> {"idle", "try", "signal", "wait"}]
        /\ wres \in [Writers -> {"none", "nil", "ErrClosedPipe"}]
        /\ wmb \in [Writers -> Message] /\ accepted \in Seq(Message)
    BY DEF OutcomeInv, TypeInv, TypeOK
  <1>3. ASSUME NEW w \in Writers, NEW size \in Sizes, WriteMultiBuffer(w, size)
        PROVE  Distinct' /\ Truthful'
    <2>1. /\ wmb' = [wmb EXCEPT ![w] = [from |-> w, num |-> @.num + 1, size |-> size]]
          /\ wpc' = [wpc EXCEPT ![w] = "try"]
          /\ UNCHANGED <<accepted, wres, discardOverflow>>
      BY <1>3 DEF WriteMultiBuffer, history, pipeVars
    <2>2. /\ wmb'[w].from = w /\ wmb'[w].num = wmb[w].num + 1 /\ wmb[w].num \in Nat
          /\ \A v \in Writers : v # w => wmb'[v] = wmb[v] /\ wpc'[v] = wpc[v]
          /\ wpc'[w] = "try"
      BY <1>2, <2>1 DEF Message
    <2>3. \A i \in 1 .. Len(accepted) :
            /\ accepted[i].from \in Writers /\ accepted[i].num \in Nat
            /\ accepted[i].num <= wmb[accepted[i].from].num
            /\ wmb[accepted[i].from].num \in Nat
      <3>1. ASSUME NEW i \in 1 .. Len(accepted)
            PROVE  accepted[i] \in Message
        BY <1>2, ElementOfSeq
      <3>2. \A m \in Message : m.from \in Writers /\ m.num \in Nat
        BY DEF Message
      <3>3. \A v \in Writers : wmb[v].num \in Nat
        BY <1>2, <3>2
      <3> QED
        BY <3>1, <3>2, <3>3 DEF OutcomeInv, Distinct
    <2>4. \A i \in 1 .. Len(accepted) : accepted[i] # wmb'[w]
      BY <2>2, <2>3
    <2>5. \A i \in 1 .. Len(accepted) : accepted[i].num <= wmb'[accepted[i].from].num
      <3>1. ASSUME NEW i \in 1 .. Len(accepted)
            PROVE  accepted[i].num <= wmb'[accepted[i].from].num
        <4>1. CASE accepted[i].from = w
          BY <2>2, <2>3, <4>1
        <4>2. CASE accepted[i].from # w
          BY <2>2, <2>3, <4>2
        <4> QED
          BY <4>1, <4>2
      <3> QED
        BY <3>1
    <2>6. Distinct'
      BY <2>1, <2>2, <2>4, <2>5 DEF OutcomeInv, Distinct, Accepted
    <2>7. Truthful'
      BY <2>1, <2>2 DEF OutcomeInv, Truthful, Accepted
    <2> QED
      BY <2>6, <2>7
  <1>4. ASSUME NEW w \in Writers, bufferFull(w)
        PROVE  Distinct' /\ Truthful'
    BY <1>2, <1>4 DEF bufferFull, pipeVars, history, OutcomeInv, Distinct, Truthful, Accepted
  <1>5. ASSUME NEW w \in Writers, SignalReader(w)
        PROVE  Distinct' /\ Truthful'
    BY <1>2, <1>5 DEF SignalReader, pipeVars, history, OutcomeInv, Distinct, Truthful, Accepted
  <1>6. ASSUME NEW w \in Writers, WakeWriter(w)
        PROVE  Distinct' /\ Truthful'
    BY <1>2, <1>6 DEF WakeWriter, pipeVars, history, OutcomeInv, Distinct, Truthful, Accepted
  <1>7. ASSUME UNCHANGED <<wpc, wmb, wres, accepted, discardOverflow>>
        PROVE  Distinct' /\ Truthful'
    BY <1>7 DEF OutcomeInv, Distinct, Truthful, Accepted
  <1>8. ASSUME NEW r \in Readers,
               readerStep(r) \/ \E isTimed \in BOOLEAN : ReadMultiBuffer(r, isTimed)
        PROVE  UNCHANGED <<wpc, wmb, wres, accepted, discardOverflow>>
    BY <1>8 DEF readerStep, readMultiBufferInternal, SignalWriter, WakeReader, ReadMultiBuffer,
                pipeVars, writerVars, history
  <1>9. ASSUME Close \/ Interrupt \/ UNCHANGED vars
        PROVE  UNCHANGED <<wpc, wmb, wres, accepted, discardOverflow>>
    BY <1>9 DEF Close, Interrupt, vars, pipeVars, writerVars, history
  <1>10. Distinct' /\ Truthful'
    BY <1>3, <1>4, <1>5, <1>6, <1>7, <1>8, <1>9, writeMultiBufferInternalOutcome
       DEF Next, writerStep
  <1> QED
    BY <1>1, <1>10 DEF OutcomeInv

\* For any number of writers and of retries: a write that failed left nothing
\* in the pipe, a write that succeeded is in it once, or was discarded.
THEOREM OutcomeIsTrue == Spec => []WriteOutcome
  <1>1. OutcomeInv => WriteOutcome
    <2> SUFFICES ASSUME OutcomeInv, NEW w \in Writers, wpc[w] = "idle"
                 PROVE  LET copies == {i \in 1 .. Len(accepted) : accepted[i] = wmb[w]} IN
                        /\ wres[w] = "ErrClosedPipe" => copies = {}
                        /\ wres[w] = "nil" => IF copies = {} THEN discardOverflow
                                              ELSE \A i, j \in copies : i = j
      BY DEF WriteOutcome
    <2>1. \A i, j \in 1 .. Len(accepted) : accepted[i] = accepted[j] => i = j
      BY DEF OutcomeInv, Distinct
    <2>2. /\ wres[w] = "ErrClosedPipe" => ~Accepted(wmb[w])
          /\ wres[w] = "nil" /\ ~discardOverflow => Accepted(wmb[w])
      BY DEF OutcomeInv, Truthful
    <2>3. discardOverflow \in BOOLEAN
      BY DEF OutcomeInv, TypeInv, TypeOK
    <2> QED
      BY <2>1, <2>2, <2>3 DEF Accepted
  <1> QED
    BY <1>1, OutcomeInit, OutcomeStep, PTL DEF Spec
=============================================================================
