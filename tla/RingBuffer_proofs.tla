-------------------------- MODULE RingBuffer_proofs --------------------------
(***************************************************************************)
(* What holds of the ring buffer for every size, every content and every   *)
(* request, whatever the bound on the positions.                           *)
(***************************************************************************)
EXTENDS RingBuffer, SequenceTheorems, TLAPS

USE DEF Indexes

(* A slice of a content has the length asked for and holds bytes of it.     *)
LEMMA SliceType ==
  ASSUME NEW bytes \in Seq(Bytes), NEW done \in Nat, NEW n \in Nat, done + n <= Len(bytes)
  PROVE  /\ SubSeq(bytes, done + 1, done + n) \in Seq(Bytes)
         /\ Len(SubSeq(bytes, done + 1, done + n)) = n
<1> Len(bytes) \in Nat  BY LenProperties
<1>1. \A i \in done + 1 .. done + n : i \in 1 .. Len(bytes)  OBVIOUS
<1>2. SubSeq(bytes, done + 1, done + n) \in Seq(Bytes)
  BY <1>1, SubSeqProperties
<1>3. Len(SubSeq(bytes, done + 1, done + n))
        = IF done + 1 <= done + n THEN (done + n) - (done + 1) + 1 ELSE 0
  BY <1>1, SubSeqProperties
<1> QED  BY <1>2, <1>3

(* The two parts of a copy: the first ends inside the buffer, and so does   *)
(* the second when no more is copied than the buffer holds.                 *)
LEMMA Parts ==
  ASSUME RingAssumption, NEW position \in Nat, NEW count \in 0 .. Size
  PROVE  LET index == position % Size
             first == FirstPart(index, count)
         IN  /\ index \in Indexes
             /\ first \in 0 .. count
             /\ index + first <= Size
             /\ count - first <= index
<1> Size \in Nat /\ Size > 0  BY DEF RingAssumption
<1> position % Size \in 0 .. Size - 1  OBVIOUS
<1> QED  BY DEF FirstPart

(* Of no more bytes than there are, Oldest gives as many as asked for.      *)
LEMMA OldestType ==
  ASSUME RingAssumption, TypeOK, NEW count \in Nat, count <= getAvailableConsumption
  PROVE  Oldest(count) \in Seq(Bytes)
<1> DEFINE index == mConsumerPosition % Size
           first == FirstPart(index, count)
<1>1. /\ Size \in Nat /\ count \in 0 .. Size
      /\ mConsumerPosition \in Nat /\ mBuffer \in [Indexes -> Bytes]
  BY DEF TypeOK, RingAssumption
<1>2. /\ index \in Indexes /\ first \in 0 .. count
      /\ index + first <= Size /\ count - first <= index
  BY <1>1, Parts
<1> HIDE DEF index, first
<1>3. ASSUME NEW i \in 1 .. count
      PROVE  (IF i <= first THEN mBuffer[index + i - 1] ELSE mBuffer[i - first - 1]) \in Bytes
  <2>1. CASE i <= first
    <3>1. index + i - 1 \in Indexes  BY <1>1, <1>2, <2>1
    <3> QED  BY <1>1, <2>1, <3>1
  <2>2. CASE ~(i <= first)
    <3>1. i - first - 1 \in Indexes  BY <1>1, <1>2, <2>2
    <3> QED  BY <1>1, <2>2, <3>1
  <2> QED  BY <2>1, <2>2
<1>4. Oldest(count) = [i \in 1 .. count |->
                         IF i <= first THEN mBuffer[index + i - 1] ELSE mBuffer[i - first - 1]]
  BY DEF Oldest, index, first
<1>5. Oldest(count) \in [1 .. count -> Bytes]  BY <1>3, <1>4
<1> QED  BY <1>5
-----------------------------------------------------------------------------
(* Type correctness is inductive once a writer is known to be inside its    *)
(* content, which makes the slice it hands over as long as it should be.    *)
WithinContent == \A w \in Writers : current[w] <= Len(content[w])

TypeInv == TypeOK /\ WithinContent

Positions == /\ mBuffer \in [Indexes -> Bytes]
             /\ mProducerPosition \in Nat /\ mConsumerPosition \in Nat
             /\ getAvailableConsumption \in 0 .. Size

WriterStates == writer \in [Writers -> {"idle", "waiting", "woken"}]
ReaderStates == reader \in [Readers -> {"idle", "waiting", "woken"}]

(* Writing no more than is free keeps the positions and the bytes in range. *)
LEMMA WriteLockedType ==
  ASSUME TypeOK, NEW bytes \in Seq(Bytes), Len(bytes) <= getAvailableProduction,
         writeLocked(bytes)
  PROVE  Positions' /\ ReaderStates'
<1> DEFINE index == mProducerPosition % Size
           first == FirstPart(index, Len(bytes))
<1>1. /\ Size \in Nat /\ mProducerPosition \in Nat /\ mConsumerPosition \in Nat
      /\ getAvailableConsumption \in 0 .. Size /\ mBuffer \in [Indexes -> Bytes]
  BY RingAssumption DEF TypeOK, RingAssumption
<1>2. Len(bytes) \in 0 .. Size
  BY <1>1, LenProperties DEF getAvailableProduction
<1>3. /\ index \in Indexes /\ first \in 0 .. Len(bytes)
      /\ index + first <= Size /\ Len(bytes) - first <= index
  BY <1>1, <1>2, Parts, RingAssumption
<1>4. mBuffer' = [i \in Indexes |->
         IF index <= i /\ i < index + first THEN bytes[i - index + 1]
         ELSE IF i < Len(bytes) - first THEN bytes[first + i + 1]
         ELSE mBuffer[i]]
  BY DEF writeLocked
<1> HIDE DEF index, first
<1>5. ASSUME NEW i \in Indexes
      PROVE  (IF index <= i /\ i < index + first THEN bytes[i - index + 1]
              ELSE IF i < Len(bytes) - first THEN bytes[first + i + 1]
              ELSE mBuffer[i]) \in Bytes
  <2>1. CASE index <= i /\ i < index + first
    <3>1. i - index + 1 \in 1 .. Len(bytes)  BY <1>1, <1>2, <1>3, <2>1
    <3> QED  BY <2>1, <3>1, ElementOfSeq
  <2>2. CASE ~(index <= i /\ i < index + first) /\ i < Len(bytes) - first
    <3>1. first + i + 1 \in 1 .. Len(bytes)  BY <1>1, <1>2, <1>3, <2>2
    <3> QED  BY <2>2, <3>1, ElementOfSeq
  <2>3. CASE ~(index <= i /\ i < index + first) /\ ~(i < Len(bytes) - first)
    BY <1>1, <2>3
  <2> QED  BY <2>1, <2>2, <2>3
<1>6. mBuffer' \in [Indexes -> Bytes]  BY <1>4, <1>5
<1>7. /\ mProducerPosition' = mProducerPosition + Len(bytes)
      /\ mConsumerPosition' = mConsumerPosition
  BY DEF writeLocked
<1>8. mProducerPosition' \in Nat /\ mConsumerPosition' \in Nat
  BY <1>1, <1>2, <1>7
<1>9. getAvailableConsumption' \in 0 .. Size
  <2>1. getAvailableConsumption' = getAvailableConsumption + Len(bytes)
    BY <1>1, <1>2, <1>7 DEF getAvailableConsumption
  <2>2. Len(bytes) <= Size - getAvailableConsumption  BY DEF getAvailableProduction
  <2> QED  BY <1>1, <1>2, <2>1, <2>2
<1>10. ReaderStates'
  BY DEF writeLocked, NotifyReader, WaitingReaders, ReaderStates, TypeOK
<1> QED  BY <1>6, <1>8, <1>9, <1>10 DEF Positions

(* Reading no more than there is keeps the positions in range.              *)
LEMMA ReadLockedType ==
  ASSUME TypeOK, NEW count \in Nat, count <= getAvailableConsumption, readLocked(count)
  PROVE  Positions' /\ WriterStates'
<1>1. Positions'
  <2>1. /\ mConsumerPosition' = mConsumerPosition + count
        /\ mProducerPosition' = mProducerPosition /\ mBuffer' = mBuffer
    BY DEF readLocked
  <2>2. getAvailableConsumption' = getAvailableConsumption - count
    BY <2>1 DEF getAvailableConsumption, TypeOK
  <2> QED  BY <2>1, <2>2, RingAssumption DEF Positions, TypeOK, RingAssumption
<1>2. WriterStates'
  BY DEF readLocked, NotifyWriter, WaitingWriters, WriterStates, TypeOK
<1> QED  BY <1>1, <1>2
-----------------------------------------------------------------------------
(* How much a write hands over: never more than is free nor than is left.   *)
LEMMA LeastBounds ==
  ASSUME NEW a \in Nat, NEW b \in Nat
  PROVE  Least(a, b) \in Nat /\ Least(a, b) <= a /\ Least(a, b) <= b
BY DEF Least

(* One hold of the mutex by a writing thread, whatever its content and      *)
(* wherever it is in it.                                                    *)
LEMMA WriteOnType ==
  ASSUME TypeInv, NEW w \in Writers, NEW bytes \in Seq(Bytes), NEW done \in 0 .. Len(bytes),
         WriteOn(w, bytes, done)
  PROVE  TypeInv'
<1> DEFINE n == IF mOpen THEN Least(getAvailableProduction, Len(bytes) - done) ELSE 0
<1>1. /\ Len(bytes) \in Nat /\ Len(bytes) - done \in Nat
      /\ getAvailableProduction \in Nat
  BY LenProperties, RingAssumption DEF TypeInv, TypeOK, RingAssumption, getAvailableProduction
<1>2. n \in Nat /\ n <= getAvailableProduction /\ done + n <= Len(bytes)
  <2>1. /\ Least(getAvailableProduction, Len(bytes) - done) \in Nat
        /\ Least(getAvailableProduction, Len(bytes) - done) <= getAvailableProduction
        /\ Least(getAvailableProduction, Len(bytes) - done) <= Len(bytes) - done
    BY <1>1, LeastBounds
  <2> QED  BY <1>1, <2>1
<1>3. /\ \/ n > 0 /\ writeLocked(SubSeq(bytes, done + 1, done + n))
         \/ n = 0 /\ UNCHANGED <<ring, reader>>
      /\ content' = [content EXCEPT ![w] = bytes]
      /\ current' = [current EXCEPT ![w] = done + n]
      /\ writer' = [writer EXCEPT ![w] = IF mOpen /\ done + n < Len(bytes) THEN "waiting" ELSE "idle"]
      /\ UNCHANGED <<mOpen, target, wanted, full>>
  BY DEF WriteOn
<1> HIDE DEF n
<1>4. Positions' /\ ReaderStates'
  <2>1. CASE n > 0 /\ writeLocked(SubSeq(bytes, done + 1, done + n))
    <3> DEFINE slice == SubSeq(bytes, done + 1, done + n)
    <3>1. slice \in Seq(Bytes) /\ Len(slice) = n  BY <1>2, SliceType
    <3>2. TypeOK /\ writeLocked(slice)  BY <2>1 DEF TypeInv
    <3> HIDE DEF slice
    <3> QED  BY <1>2, <3>1, <3>2, WriteLockedType
  <2>2. CASE n = 0 /\ UNCHANGED <<ring, reader>>
    BY <2>2 DEF TypeInv, TypeOK, Positions, ReaderStates, ring, getAvailableConsumption
  <2> QED  BY <1>3, <2>1, <2>2
<1>5. /\ writer' \in [Writers -> {"idle", "waiting", "woken"}]
      /\ content' \in [Writers -> Seq(Bytes)]
      /\ current' \in [Writers -> Nat]
  BY <1>2, <1>3 DEF TypeInv, TypeOK
<1>6. WithinContent'
  BY <1>2, <1>3 DEF TypeInv, TypeOK, WithinContent
<1> QED
  BY <1>3, <1>4, <1>5, <1>6 DEF TypeInv, TypeOK, Positions, ReaderStates

(* One hold of the mutex by a reading thread.                               *)
LEMMA ReadOnType ==
  ASSUME TypeInv, NEW r \in Readers, NEW bytes \in Seq(Bytes), NEW count \in Nat,
         ReadOn(r, bytes, count)
  PROVE  TypeInv'
<1> DEFINE n == Least(getAvailableConsumption, count)
<1>1. getAvailableConsumption \in Nat
  BY RingAssumption DEF TypeInv, TypeOK, RingAssumption
<1>2. n \in Nat /\ n <= getAvailableConsumption /\ n <= count
  BY <1>1, LeastBounds
<1>3. /\ \/ n > 0 /\ readLocked(n)
         \/ n = 0 /\ UNCHANGED <<ring, writer>>
      /\ target' = [target EXCEPT ![r] = bytes \o Oldest(n)]
      /\ wanted' = [wanted EXCEPT ![r] = count - n]
      /\ full' = [full EXCEPT ![r] = (n = count)]
      /\ reader' = [reader EXCEPT ![r] = IF mOpen /\ n < count THEN "waiting" ELSE "idle"]
      /\ UNCHANGED <<mOpen, content, current>>
  BY DEF ReadOn
<1> HIDE DEF n
<1>4. Positions' /\ WriterStates'
  <2>1. CASE n > 0 /\ readLocked(n)
    BY <1>2, <2>1, ReadLockedType DEF TypeInv
  <2>2. CASE n = 0 /\ UNCHANGED <<ring, writer>>
    BY <2>2 DEF TypeInv, TypeOK, Positions, WriterStates, ring, getAvailableConsumption
  <2> QED  BY <1>3, <2>1, <2>2
<1>5. bytes \o Oldest(n) \in Seq(Bytes)
  BY <1>2, OldestType, RingAssumption, ConcatProperties DEF TypeInv
<1>6. /\ target' \in [Readers -> Seq(Bytes)]
      /\ wanted' \in [Readers -> Nat]
      /\ reader' \in [Readers -> {"idle", "waiting", "woken"}]
  BY <1>2, <1>3, <1>5 DEF TypeInv, TypeOK
<1>7. full' \in [Readers -> BOOLEAN]
  BY <1>3 DEF TypeInv, TypeOK
<1>8. WithinContent'
  BY <1>3 DEF TypeInv, WithinContent
<1> QED
  BY <1>3, <1>4, <1>6, <1>7, <1>8 DEF TypeInv, TypeOK, Positions, WriterStates

(* The non-blocking calls and the calls that move no byte.                  *)
LEMMA WriteNonBlockingType ==
  ASSUME TypeInv, NEW w \in Writers, NEW bytes \in Seq(Bytes), writeNonBlocking(w, bytes)
  PROVE  TypeInv'
<1> DEFINE n == IF mOpen THEN Least(getAvailableProduction, Len(bytes)) ELSE 0
           slice == SubSeq(bytes, 1, n)
<1>1. Len(bytes) \in Nat /\ getAvailableProduction \in Nat
  BY LenProperties, RingAssumption DEF TypeInv, TypeOK, RingAssumption, getAvailableProduction
<1>2. n \in Nat /\ n <= getAvailableProduction /\ n <= Len(bytes)
  <2>1. /\ Least(getAvailableProduction, Len(bytes)) \in Nat
        /\ Least(getAvailableProduction, Len(bytes)) <= getAvailableProduction
        /\ Least(getAvailableProduction, Len(bytes)) <= Len(bytes)
    BY <1>1, LeastBounds
  <2> QED  BY <1>1, <2>1
<1>3. /\ \/ mOpen /\ writeLocked(slice)
         \/ ~mOpen /\ UNCHANGED <<ring, reader>>
      /\ content' = [content EXCEPT ![w] = bytes]
      /\ current' = [current EXCEPT ![w] = n]
      /\ UNCHANGED <<mOpen, writer, target, wanted, full>>
  BY DEF writeNonBlocking
<1>4. slice \in Seq(Bytes) /\ Len(slice) = n
  <2> HIDE DEF n
  <2>1. SubSeq(bytes, 0 + 1, 0 + n) \in Seq(Bytes) /\ Len(SubSeq(bytes, 0 + 1, 0 + n)) = n
    BY <1>2, SliceType
  <2>2. 0 + 1 = 1 /\ 0 + n = n  BY <1>2
  <2> QED  BY <2>1, <2>2
<1> HIDE DEF n, slice
<1>5. Positions' /\ ReaderStates'
  <2>1. CASE mOpen /\ writeLocked(slice)
    BY <1>2, <1>4, <2>1, WriteLockedType DEF TypeInv
  <2>2. CASE ~mOpen /\ UNCHANGED <<ring, reader>>
    BY <2>2 DEF TypeInv, TypeOK, Positions, ReaderStates, ring, getAvailableConsumption
  <2> QED  BY <1>3, <2>1, <2>2
<1>6. /\ content' \in [Writers -> Seq(Bytes)]
      /\ current' \in [Writers -> Nat]
      /\ WithinContent'
  BY <1>2, <1>3 DEF TypeInv, TypeOK, WithinContent
<1> QED
  BY <1>3, <1>5, <1>6 DEF TypeInv, TypeOK, Positions, ReaderStates

(* readNonBlocking() takes no more than there is.                           *)
LEMMA ReadNonBlockingType ==
  ASSUME TypeInv, NEW r \in Readers, NEW count \in Nat, readNonBlocking(r, count)
  PROVE  TypeInv'
<1> DEFINE n == Least(getAvailableConsumption, count)
<1>1. n \in Nat /\ n <= getAvailableConsumption /\ n <= count
  <2>1. getAvailableConsumption \in Nat
    BY RingAssumption DEF TypeInv, TypeOK, RingAssumption
  <2> QED  BY <2>1, LeastBounds
<1>2. /\ target' = [target EXCEPT ![r] = Oldest(n)]
      /\ wanted' = [wanted EXCEPT ![r] = count - n]
      /\ readLocked(n)
      /\ UNCHANGED <<mOpen, content, current, reader, full>>
  BY DEF readNonBlocking
<1> HIDE DEF n
<1>3. Positions' /\ WriterStates'
  BY <1>1, <1>2, ReadLockedType DEF TypeInv
<1>4. Oldest(n) \in Seq(Bytes)
  BY <1>1, OldestType, RingAssumption DEF TypeInv
<1>5. target' \in [Readers -> Seq(Bytes)] /\ wanted' \in [Readers -> Nat]
  BY <1>1, <1>2, <1>4 DEF TypeInv, TypeOK
<1> QED
  BY <1>2, <1>3, <1>5 DEF TypeInv, TypeOK, Positions, WriterStates, WithinContent

(* open(), close(), clear() and a spurious wake-up move no byte.            *)
LEMMA ControlType ==
  ASSUME TypeInv, Open \/ Close \/ Clear \/ SpuriousWakeup
  PROVE  TypeInv'
<1> USE DEF TypeInv, TypeOK, WithinContent, ring, writing, reading, getAvailableConsumption
<1>1. CASE Open  BY <1>1 DEF Open
<1>2. CASE Close  BY <1>2 DEF Close
<1>3. CASE Clear
  BY <1>3, RingAssumption DEF Clear, RingAssumption
<1>4. CASE SpuriousWakeup
  BY <1>4 DEF SpuriousWakeup, WaitingWriters, WaitingReaders
<1> QED  BY <1>1, <1>2, <1>3, <1>4

(* Every step preserves the inductive invariant of the positions.          *)
LEMMA TypeStep == TypeInv /\ [Next]_vars => TypeInv'
<1> SUFFICES ASSUME TypeInv, [Next]_vars PROVE TypeInv'
  OBVIOUS
<1> USE RingAssumption DEF RingAssumption
<1>1. CASE Open \/ Close \/ Clear \/ SpuriousWakeup
  BY <1>1, ControlType
<1>2. ASSUME NEW w \in Writers, NEW bytes \in Contents, writeNonBlocking(w, bytes)
      PROVE  TypeInv'
  BY <1>2, WriteNonBlockingType
<1>3. ASSUME NEW w \in Writers, NEW bytes \in Contents, writeBlocking(w, bytes)
      PROVE  TypeInv'
  <2>1. bytes \in Seq(Bytes) /\ 0 \in 0 .. Len(bytes)  BY LenProperties
  <2> QED  BY <1>3, <2>1, WriteOnType DEF writeBlocking
<1>4. ASSUME NEW w \in Writers, ResumeWrite(w)
      PROVE  TypeInv'
  <2>1. content[w] \in Seq(Bytes) /\ current[w] \in 0 .. Len(content[w])
    BY LenProperties DEF TypeInv, TypeOK, WithinContent
  <2> QED  BY <1>4, <2>1, WriteOnType DEF ResumeWrite
<1>5. ASSUME NEW r \in Readers, NEW count \in Requests, readNonBlocking(r, count)
      PROVE  TypeInv'
  BY <1>5, ReadNonBlockingType
<1>6. ASSUME NEW r \in Readers, NEW count \in Requests, readBlocking(r, count)
      PROVE  TypeInv'
  <2>1. count \in Nat /\ <<>> \in Seq(Bytes)  OBVIOUS
  <2>2. CASE ReadOn(r, <<>>, count)
    BY <2>1, <2>2, ReadOnType
  <2>3. CASE /\ target' = [target EXCEPT ![r] = <<>>]
             /\ wanted' = [wanted EXCEPT ![r] = count]
             /\ full' = [full EXCEPT ![r] = FALSE]
             /\ UNCHANGED <<mOpen, ring, writing, reader>>
    BY <2>1, <2>3 DEF TypeInv, TypeOK, WithinContent, ring, writing, getAvailableConsumption
  <2> QED  BY <1>6, <2>2, <2>3 DEF readBlocking
<1>7. ASSUME NEW r \in Readers, ResumeRead(r)
      PROVE  TypeInv'
  <2>1. target[r] \in Seq(Bytes) /\ wanted[r] \in Nat  BY DEF TypeInv, TypeOK
  <2> QED  BY <1>7, <2>1, ReadOnType DEF ResumeRead
<1>8. CASE UNCHANGED vars
  BY <1>8 DEF vars, ring, writing, reading, TypeInv, TypeOK, WithinContent, getAvailableConsumption
<1> QED  BY <1>1, <1>2, <1>3, <1>4, <1>5, <1>6, <1>7, <1>8 DEF Next

(* The constructor leaves an empty, closed ring.                            *)
LEMMA InitTypeInv == Init => TypeInv
<1> SUFFICES ASSUME Init PROVE TypeInv
  OBVIOUS
<1> USE RingAssumption DEF Init, RingAssumption
<1>1. <<>> \in Seq(Bytes) /\ Len(<<>>) = 0  OBVIOUS
<1>2. WithinContent  BY <1>1 DEF WithinContent
<1>3. getAvailableConsumption \in 0 .. Size  BY DEF getAvailableConsumption
<1>4. mBuffer \in [Indexes -> Bytes]  OBVIOUS
<1> QED  BY <1>1, <1>2, <1>3, <1>4 DEF TypeInv, TypeOK

(* The positions of RingBuffer stay within a buffer of each other, so that  *)
(* the assertions of getAvailableConsumption() hold and no free space is    *)
(* ever counted below zero, for every size and every request.               *)
THEOREM PositionsStayInStep == Spec => []TypeOK
<1>1. Init => TypeInv  BY InitTypeInv
<1>2. TypeInv => TypeOK  BY DEF TypeInv
<1> QED  BY <1>1, <1>2, TypeStep, PTL DEF Spec
-----------------------------------------------------------------------------
(* One thread on each side, which is how the injection uses the ring.       *)
OneOnEachSide ==
  /\ \A w1, w2 \in Writers : w1 = w2
  /\ \A r1, r2 \in Readers : r1 = r2

BlockedInv == TypeInv /\ BlockedForAReason

(* A notification reaches the only thread that can be waiting for it.       *)
LEMMA NotificationsReach ==
  ASSUME OneOnEachSide, TypeOK
  PROVE  /\ NotifyWriter => WaitingWriters' = {}
         /\ NotifyReader => WaitingReaders' = {}
BY DEF OneOnEachSide, TypeOK, NotifyWriter, NotifyReader, WaitingWriters, WaitingReaders

(* A writing thread waits only after it has filled the ring, and what it    *)
(* writes wakes the reader.                                                 *)
LEMMA WriteOnBlocked ==
  ASSUME OneOnEachSide, BlockedInv, NEW w \in Writers, NEW bytes \in Seq(Bytes),
         NEW done \in 0 .. Len(bytes), writer[w] # "waiting", WriteOn(w, bytes, done)
  PROVE  BlockedForAReason'
<1> DEFINE n == IF mOpen THEN Least(getAvailableProduction, Len(bytes) - done) ELSE 0
<1> USE DEF BlockedInv, TypeInv
<1>1. /\ Len(bytes) \in Nat /\ done \in Nat /\ Len(bytes) - done \in Nat
      /\ getAvailableProduction \in Nat
      /\ Size \in Nat /\ mProducerPosition \in Nat /\ mConsumerPosition \in Nat
  BY LenProperties, RingAssumption DEF TypeOK, RingAssumption, getAvailableProduction
<1>2. /\ n \in Nat /\ done + n <= Len(bytes)
      /\ mOpen /\ done + n < Len(bytes) => n = getAvailableProduction
  BY <1>1 DEF Least
<1>3. /\ \/ n > 0 /\ writeLocked(SubSeq(bytes, done + 1, done + n))
         \/ n = 0 /\ UNCHANGED <<ring, reader>>
      /\ writer' = [writer EXCEPT ![w] = IF mOpen /\ done + n < Len(bytes) THEN "waiting" ELSE "idle"]
      /\ mOpen' = mOpen
  BY DEF WriteOn
<1> HIDE DEF n
<1>4. /\ mProducerPosition' = mProducerPosition + n
      /\ mConsumerPosition' = mConsumerPosition
  <2>1. CASE n > 0 /\ writeLocked(SubSeq(bytes, done + 1, done + n))
    BY <1>2, <2>1, SliceType DEF writeLocked
  <2>2. CASE n = 0 /\ UNCHANGED <<ring, reader>>
    BY <1>1, <2>2 DEF ring
  <2> QED  BY <1>3, <2>1, <2>2
<1>5. getAvailableProduction' = getAvailableProduction - n
  BY <1>1, <1>2, <1>4 DEF getAvailableProduction, getAvailableConsumption
<1>6. WaitingWriters' # {} => mOpen' /\ getAvailableProduction' = 0
  <2>1. WaitingWriters' # {} => mOpen /\ done + n < Len(bytes)
    BY <1>3 DEF WaitingWriters, OneOnEachSide, TypeOK
  <2> QED  BY <1>1, <1>2, <1>3, <1>5, <2>1
<1>7. WaitingReaders' # {} => mOpen' /\ getAvailableConsumption' = 0
  <2>1. CASE n > 0 /\ writeLocked(SubSeq(bytes, done + 1, done + n))
    BY <2>1, NotificationsReach DEF writeLocked
  <2>2. CASE n = 0 /\ UNCHANGED <<ring, reader>>
    BY <1>3, <2>2 DEF BlockedForAReason, ring, WaitingReaders, getAvailableConsumption
  <2> QED  BY <1>3, <2>1, <2>2
<1> QED  BY <1>6, <1>7 DEF BlockedForAReason

(* A reading thread waits only after it has emptied the ring, and what it   *)
(* takes wakes the writer.                                                  *)
LEMMA ReadOnBlocked ==
  ASSUME OneOnEachSide, BlockedInv, NEW r \in Readers, NEW bytes \in Seq(Bytes),
         NEW count \in Nat, reader[r] # "waiting", ReadOn(r, bytes, count)
  PROVE  BlockedForAReason'
<1> DEFINE n == Least(getAvailableConsumption, count)
<1> USE DEF BlockedInv, TypeInv
<1>1. /\ getAvailableConsumption \in Nat
      /\ Size \in Nat /\ mProducerPosition \in Nat /\ mConsumerPosition \in Nat
  BY RingAssumption DEF TypeOK, RingAssumption
<1>2. /\ n \in Nat
      /\ n < count => n = getAvailableConsumption
  BY <1>1 DEF Least
<1>3. /\ \/ n > 0 /\ readLocked(n)
         \/ n = 0 /\ UNCHANGED <<ring, writer>>
      /\ reader' = [reader EXCEPT ![r] = IF mOpen /\ n < count THEN "waiting" ELSE "idle"]
      /\ mOpen' = mOpen
  BY DEF ReadOn
<1> HIDE DEF n
<1>4. /\ mProducerPosition' = mProducerPosition
      /\ mConsumerPosition' = mConsumerPosition + n
  BY <1>1, <1>2, <1>3 DEF readLocked, ring
<1>5. getAvailableConsumption' = getAvailableConsumption - n
  BY <1>1, <1>2, <1>4 DEF getAvailableConsumption
<1>6. WaitingReaders' # {} => mOpen' /\ getAvailableConsumption' = 0
  <2>1. WaitingReaders' # {} => mOpen /\ n < count
    BY <1>3 DEF WaitingReaders, OneOnEachSide, TypeOK
  <2> QED  BY <1>1, <1>2, <1>3, <1>5, <2>1
<1>7. WaitingWriters' # {} =>
        mOpen' /\ (getAvailableProduction' = 0 \/ mProducerPosition' = 0)
  <2>1. CASE n > 0 /\ readLocked(n)
    BY <2>1, NotificationsReach DEF readLocked
  <2>2. CASE n = 0 /\ UNCHANGED <<ring, writer>>
    BY <1>3, <2>2 DEF BlockedForAReason, ring, WaitingWriters, getAvailableProduction,
                      getAvailableConsumption
  <2> QED  BY <1>3, <2>1, <2>2
<1> QED  BY <1>6, <1>7 DEF BlockedForAReason

(* Every step preserves the reasons the threads sleep for.                  *)
LEMMA BlockedStep == OneOnEachSide /\ BlockedInv /\ [Next]_vars => BlockedInv'
<1> SUFFICES ASSUME OneOnEachSide, BlockedInv, [Next]_vars PROVE BlockedForAReason'
  BY TypeStep DEF BlockedInv
<1> USE DEF BlockedInv, TypeInv, getAvailableProduction, getAvailableConsumption,
            WaitingWriters, WaitingReaders
<1>1. CASE Open
  BY <1>1 DEF Open, ring, writing, reading, BlockedForAReason
<1>2. CASE Close
  <2>1. WaitingWriters' = {} /\ WaitingReaders' = {}
    BY <1>2 DEF Close, BlockedForAReason, TypeOK
  <2> QED  BY <2>1 DEF BlockedForAReason
<1>3. CASE Clear
  BY <1>3 DEF Clear, writing, reading, BlockedForAReason
<1>4. CASE SpuriousWakeup
  BY <1>4 DEF SpuriousWakeup, ring, BlockedForAReason, TypeOK
<1>5. ASSUME NEW w \in Writers, NEW bytes \in Contents, writeNonBlocking(w, bytes)
      PROVE  BlockedForAReason'
  <2>1. WaitingWriters' = {}
    BY <1>5 DEF writeNonBlocking, OneOnEachSide, TypeOK
  <2>2. CASE mOpen
    <3>1. NotifyReader  BY <1>5, <2>2 DEF writeNonBlocking, writeLocked
    <3>2. WaitingReaders' = {}  BY <3>1, NotificationsReach
    <3> QED  BY <2>1, <3>2 DEF BlockedForAReason
  <2>3. CASE ~mOpen
    BY <1>5, <2>1, <2>3 DEF writeNonBlocking, ring, BlockedForAReason
  <2> QED  BY <2>2, <2>3
<1>6. ASSUME NEW w \in Writers, NEW bytes \in Contents, writeBlocking(w, bytes)
      PROVE  BlockedForAReason'
  <2>1. bytes \in Seq(Bytes) /\ 0 \in 0 .. Len(bytes)
    BY LenProperties, RingAssumption DEF RingAssumption
  <2> QED  BY <1>6, <2>1, WriteOnBlocked DEF writeBlocking
<1>7. ASSUME NEW w \in Writers, ResumeWrite(w)
      PROVE  BlockedForAReason'
  <2>1. content[w] \in Seq(Bytes) /\ current[w] \in 0 .. Len(content[w])
    BY LenProperties DEF TypeOK, WithinContent
  <2> QED  BY <1>7, <2>1, WriteOnBlocked DEF ResumeWrite
<1>8. ASSUME NEW r \in Readers, NEW count \in Requests, readNonBlocking(r, count)
      PROVE  BlockedForAReason'
  <2>1. WaitingReaders' = {}
    BY <1>8 DEF readNonBlocking, OneOnEachSide, TypeOK
  <2>2. NotifyWriter  BY <1>8 DEF readNonBlocking, readLocked
  <2>3. WaitingWriters' = {}  BY <2>2, NotificationsReach
  <2> QED  BY <2>1, <2>3 DEF BlockedForAReason
<1>9. ASSUME NEW r \in Readers, NEW count \in Requests, readBlocking(r, count)
      PROVE  BlockedForAReason'
  <2>1. count \in Nat /\ <<>> \in Seq(Bytes)  BY RingAssumption DEF RingAssumption
  <2>2. CASE ReadOn(r, <<>>, count)
    BY <1>9, <2>1, <2>2, ReadOnBlocked DEF readBlocking
  <2>3. CASE UNCHANGED <<mOpen, ring, writing, reader>>
    BY <2>3 DEF ring, writing, BlockedForAReason
  <2> QED  BY <1>9, <2>2, <2>3 DEF readBlocking
<1>10. ASSUME NEW r \in Readers, ResumeRead(r)
       PROVE  BlockedForAReason'
  <2>1. target[r] \in Seq(Bytes) /\ wanted[r] \in Nat  BY DEF TypeOK
  <2> QED  BY <1>10, <2>1, ReadOnBlocked DEF ResumeRead
<1>11. CASE UNCHANGED vars
  BY <1>11 DEF vars, ring, writing, reading, BlockedForAReason
<1> QED  BY <1>1, <1>2, <1>3, <1>4, <1>5, <1>6, <1>7, <1>8, <1>9, <1>10, <1>11 DEF Next

(* With one thread on each side of a RingBuffer no notification of read()   *)
(* or write() is lost: a thread sleeps on an open ring that is empty, full, *)
(* or was cleared under it, whatever the size, the contents and requests.   *)
THEOREM NoLostNotification ==
  ASSUME OneOnEachSide
  PROVE  Spec => []BlockedForAReason
<1>1. Init => BlockedForAReason
  BY DEF Init, BlockedForAReason, WaitingWriters, WaitingReaders
<1>2. Init => BlockedInv
  <2>1. Init => TypeInv  BY InitTypeInv
  <2> QED  BY <1>1, <2>1 DEF BlockedInv
<1>3. BlockedInv /\ [Next]_vars => BlockedInv'  BY OneOnEachSide, BlockedStep
<1>4. BlockedInv => BlockedForAReason  BY DEF BlockedInv
<1> QED  BY <1>2, <1>3, <1>4, PTL DEF Spec
-----------------------------------------------------------------------------
(* The remainder of a number that is written as one.                        *)
LEMMA RemainderIs ==
  ASSUME NEW s \in Nat, s > 0, NEW q \in Nat, NEW r \in 0 .. s - 1
  PROVE  (s * q + r) % s = r
<1> DEFINE x == s * q + r
           e == x \div s
           m == x % s
<1>1. x \in Nat  OBVIOUS
<1>2. e \in Nat /\ m \in 0 .. s - 1 /\ x = s * e + m
  BY <1>1
<1>3. s * q + r = s * e + m  BY <1>2
<1> HIDE DEF x, e, m
<1>4. CASE q > e
  <2>1. PICK g \in Nat : q = e + 1 + g
    <3>1. q - e - 1 \in Nat /\ q = e + 1 + (q - e - 1)  BY <1>2, <1>4
    <3> QED  BY <3>1
  <2>2. s * q = s * e + s + s * g  BY <1>2, <2>1
  <2>3. s * g \in Nat /\ s * e \in Nat  BY <1>2, <2>1
  <2> QED  BY <1>2, <1>3, <2>2, <2>3
<1>5. CASE e > q
  <2>1. PICK g \in Nat : e = q + 1 + g
    <3>1. e - q - 1 \in Nat /\ e = q + 1 + (e - q - 1)  BY <1>2, <1>5
    <3> QED  BY <3>1
  <2>2. s * e = s * q + s + s * g  BY <1>2, <2>1
  <2>3. s * g \in Nat /\ s * q \in Nat  BY <1>2, <2>1
  <2> QED  BY <1>2, <1>3, <2>2, <2>3
<1>6. CASE q = e
  BY <1>2, <1>3, <1>6 DEF x, m
<1> QED  BY <1>2, <1>4, <1>5, <1>6

(* The slot of a position that many bytes further on, less than a turn.     *)
LEMMA SlotFurther ==
  ASSUME RingAssumption, NEW position \in Nat, NEW k \in 0 .. Size
  PROVE  (position + k) % Size = IF (position % Size) + k < Size THEN (position % Size) + k
                                 ELSE (position % Size) + k - Size
<1> DEFINE S == Size
           a == position % S
           d == position \div S
<1>1. S \in Nat /\ S > 0 /\ k \in Nat /\ k <= S  BY DEF RingAssumption
<1>2. position = S * d + a /\ a \in 0 .. S - 1 /\ d \in Nat  BY <1>1
<1> HIDE DEF S, a, d
<1>3. CASE a + k < S
  <2>1. position + k = S * d + (a + k) /\ a + k \in 0 .. S - 1  BY <1>1, <1>2, <1>3
  <2>2. (S * d + (a + k)) % S = a + k  BY <1>1, <1>2, <2>1, RemainderIs
  <2> QED  BY <1>3, <2>1, <2>2 DEF S, a
<1>4. CASE ~(a + k < S)
  <2>1. position + k = S * (d + 1) + (a + k - S) /\ a + k - S \in 0 .. S - 1 /\ d + 1 \in Nat
    BY <1>1, <1>2, <1>4
  <2>2. (S * (d + 1) + (a + k - S)) % S = a + k - S  BY <1>1, <1>2, <2>1, RemainderIs
  <2> QED  BY <1>4, <2>1, <2>2 DEF S, a
<1> QED  BY <1>3, <1>4 DEF S, a
-----------------------------------------------------------------------------
\* The byte at a position, and that many bytes from a position on.
At(buffer, position) == buffer[position % Size]
From(buffer, position, count) == [i \in 1 .. count |-> At(buffer, position + (i - 1))]

LEMMA FromType ==
  ASSUME RingAssumption, NEW buffer \in [Indexes -> Bytes], NEW position \in Nat, NEW count \in Nat
  PROVE  /\ From(buffer, position, count) \in Seq(Bytes)
         /\ Len(From(buffer, position, count)) = count
         /\ \A i \in 1 .. count : From(buffer, position, count)[i] = At(buffer, position + (i - 1))
<1>1. \A i \in 1 .. count : At(buffer, position + (i - 1)) \in Bytes
  <2> SUFFICES ASSUME NEW i \in 1 .. count PROVE At(buffer, position + (i - 1)) \in Bytes
    OBVIOUS
  <2>1. Size \in Nat /\ Size > 0 /\ position + (i - 1) \in Nat  BY DEF RingAssumption
  <2>2. (position + (i - 1)) % Size \in Indexes  BY <2>1
  <2> QED  BY <2>2 DEF At
<1>2. From(buffer, position, count) \in [1 .. count -> Bytes]
  BY <1>1 DEF From
<1>3. From(buffer, position, count) \in Seq(Bytes) /\ Len(From(buffer, position, count)) = count
  BY <1>2
<1> QED  BY <1>3 DEF From

(* A copy, wrapped or not, gives the bytes of consecutive positions.        *)
LEMMA CopyIs ==
  ASSUME RingAssumption, NEW buffer, NEW position \in Nat, NEW count \in 0 .. Size
  PROVE  LET index == position % Size
             first == FirstPart(index, count)
         IN  [i \in 1 .. count |-> IF i <= first THEN buffer[index + i - 1] ELSE buffer[i - first - 1]]
               = From(buffer, position, count)
<1> DEFINE index == position % Size
           first == FirstPart(index, count)
<1>1. Size \in Nat /\ count \in Nat /\ count <= Size
  BY DEF RingAssumption
<1>2. /\ index \in Indexes /\ first \in 0 .. count
      /\ index + count <= Size => first = count
      /\ ~(index + count <= Size) => first = Size - index
  BY <1>1, Parts DEF FirstPart
<1>3. ASSUME NEW i \in 1 .. count
      PROVE  (IF i <= first THEN buffer[index + i - 1] ELSE buffer[i - first - 1])
               = At(buffer, position + (i - 1))
  <2>1. i - 1 \in 0 .. Size  BY <1>1
  <2>2. (position + (i - 1)) % Size
          = IF index + (i - 1) < Size THEN index + (i - 1) ELSE index + (i - 1) - Size
    BY <1>1, <2>1, SlotFurther
  <2> HIDE DEF index, first
  <2>3. CASE i <= first
    <3>1. index + (i - 1) < Size /\ index + (i - 1) = index + i - 1  BY <1>1, <1>2, <2>3
    <3> QED  BY <2>2, <2>3, <3>1 DEF At
  <2>4. CASE ~(i <= first)
    <3>1. ~(index + (i - 1) < Size) /\ index + (i - 1) - Size = i - first - 1
      BY <1>1, <1>2, <2>4
    <3> QED  BY <2>2, <2>4, <3>1 DEF At
  <2> QED  BY <2>3, <2>4
<1> QED  BY <1>3 DEF From

(* The oldest bytes, now and after a step.                                  *)
LEMMA OldestIs ==
  ASSUME RingAssumption, Positions, NEW count \in 0 .. Size
  PROVE  Oldest(count) = From(mBuffer, mConsumerPosition, count)
BY CopyIs DEF Oldest, Positions

\* The bytes in the ring.
Items == Oldest(getAvailableConsumption)

LEMMA ItemsAre ==
  ASSUME RingAssumption, Positions
  PROVE  /\ Items = From(mBuffer, mConsumerPosition, getAvailableConsumption)
         /\ Items \in Seq(Bytes) /\ Len(Items) = getAvailableConsumption
         /\ \A i \in 1 .. getAvailableConsumption : Items[i] = At(mBuffer, mConsumerPosition + (i - 1))
<1>1. Items = From(mBuffer, mConsumerPosition, getAvailableConsumption)
  BY OldestIs DEF Items, Positions
<1>2. /\ getAvailableConsumption \in Nat /\ mConsumerPosition \in Nat
      /\ mBuffer \in [Indexes -> Bytes]
  BY DEF Positions, RingAssumption
<1> QED  BY <1>1, <1>2, FromType

LEMMA ItemsWillBe ==
  ASSUME RingAssumption, Positions'
  PROVE  /\ Items' \in Seq(Bytes) /\ Len(Items') = getAvailableConsumption'
         /\ \A i \in 1 .. getAvailableConsumption' :
              Items'[i] = At(mBuffer', mConsumerPosition' + (i - 1))
<1>1. Items' = From(mBuffer', mConsumerPosition', getAvailableConsumption')
  BY CopyIs DEF Items, Oldest, Positions
<1>2. /\ getAvailableConsumption' \in Nat /\ mConsumerPosition' \in Nat
      /\ mBuffer' \in [Indexes -> Bytes]
  BY DEF Positions, RingAssumption
<1> QED  BY <1>1, <1>2, FromType

(* A write changes the bytes behind mProducerPosition, and in the turn that *)
(* begins there only as many as it is given.                                *)
LEMMA WrittenAre ==
  ASSUME RingAssumption, TypeOK, NEW bytes \in Seq(Bytes), Len(bytes) <= Size,
         writeLocked(bytes), NEW k \in 0 .. Size - 1
  PROVE  At(mBuffer', mProducerPosition + k)
           = IF k < Len(bytes) THEN bytes[k + 1] ELSE At(mBuffer, mProducerPosition + k)
<1> DEFINE index == mProducerPosition % Size
           first == FirstPart(index, Len(bytes))
           slot == (mProducerPosition + k) % Size
           len == Len(bytes)
<1>1. /\ Size \in Nat /\ Size > 0 /\ len \in 0 .. Size /\ k \in Nat /\ k < Size
      /\ mProducerPosition \in Nat
  BY LenProperties DEF RingAssumption, TypeOK
<1>2. /\ index \in Indexes /\ first \in 0 .. len
      /\ index + len <= Size => first = len
      /\ ~(index + len <= Size) => first = Size - index
  BY <1>1, Parts DEF FirstPart
<1>3. mBuffer' = [i \in Indexes |->
         IF index <= i /\ i < index + first THEN bytes[i - index + 1]
         ELSE IF i < len - first THEN bytes[first + i + 1]
         ELSE mBuffer[i]]
  BY DEF writeLocked
<1>4. /\ index + k < Size => slot = index + k
      /\ ~(index + k < Size) => slot = index + k - Size
  <2>1. k \in 0 .. Size  BY <1>1
  <2> QED  BY <1>1, <2>1, SlotFurther
<1> HIDE DEF index, first, slot, len
<1>5. slot \in Indexes  BY <1>1, <1>2, <1>4
<1>6. mBuffer'[slot] = IF index <= slot /\ slot < index + first THEN bytes[slot - index + 1]
                       ELSE IF slot < len - first THEN bytes[first + slot + 1]
                       ELSE mBuffer[slot]
  BY <1>3, <1>5
<1>7. mBuffer'[slot] = IF k < len THEN bytes[k + 1] ELSE mBuffer[slot]
  <2>1. CASE k < len /\ index + k < Size
    <3>1. index <= slot /\ slot < index + first /\ slot - index + 1 = k + 1
      BY <1>1, <1>2, <1>4, <2>1
    <3> QED  BY <1>6, <2>1, <3>1
  <2>2. CASE k < len /\ ~(index + k < Size)
    <3>1. /\ ~(index <= slot) /\ slot < len - first /\ first + slot + 1 = k + 1
      BY <1>1, <1>2, <1>4, <2>2
    <3> QED  BY <1>6, <2>2, <3>1
  <2>3. CASE ~(k < len)
    <3>1. ~(index <= slot /\ slot < index + first) /\ ~(slot < len - first)
      BY <1>1, <1>2, <1>4, <2>3
    <3> QED  BY <1>6, <2>3, <3>1
  <2> QED  BY <2>1, <2>2, <2>3
<1> QED  BY <1>7 DEF At, slot, len

(* A write appends what it is given, ...                                    *)
LEMMA WriteAppends ==
  ASSUME TypeOK, NEW bytes \in Seq(Bytes), Len(bytes) <= getAvailableProduction,
         writeLocked(bytes)
  PROVE  Items' = Items \o bytes
<1> DEFINE used == getAvailableConsumption
           len == Len(bytes)
<1> USE RingAssumption
<1>1. Positions /\ Positions'
  BY WriteLockedType DEF TypeOK, Positions
<1>2. /\ Size \in Nat /\ Size > 0 /\ len \in Nat /\ used \in Nat /\ used + len <= Size
      /\ mConsumerPosition \in Nat /\ mProducerPosition \in Nat
      /\ mProducerPosition = mConsumerPosition + used
  BY LenProperties DEF RingAssumption, TypeOK, getAvailableProduction, getAvailableConsumption
<1>3. mConsumerPosition' = mConsumerPosition /\ getAvailableConsumption' = used + len
  BY <1>2 DEF writeLocked, getAvailableConsumption
<1>4. /\ Items \in Seq(Bytes) /\ Len(Items) = used
      /\ \A i \in 1 .. used : Items[i] = At(mBuffer, mConsumerPosition + (i - 1))
  BY <1>1, ItemsAre
<1>5. /\ Items' \in Seq(Bytes) /\ Len(Items') = used + len
      /\ \A i \in 1 .. used + len : Items'[i] = At(mBuffer', mConsumerPosition + (i - 1))
  BY <1>1, <1>3, ItemsWillBe
<1>6. /\ Items \o bytes \in Seq(Bytes) /\ Len(Items \o bytes) = used + len
      /\ \A i \in 1 .. used + len :
           (Items \o bytes)[i] = IF i <= used THEN Items[i] ELSE bytes[i - used]
  BY <1>4, ConcatProperties
<1>7. \A k \in 0 .. Size - 1 :
        At(mBuffer', mProducerPosition + k)
          = IF k < len THEN bytes[k + 1] ELSE At(mBuffer, mProducerPosition + k)
  <2>1. len <= Size  BY <1>2
  <2> QED  BY <2>1, WrittenAre
<1> HIDE DEF used, len
<1>8. ASSUME NEW i \in 1 .. used + len PROVE Items'[i] = (Items \o bytes)[i]
  <2>1. CASE i <= used
    <3> DEFINE k == Size - used + (i - 1)
               p == mConsumerPosition + (i - 1)
    <3>1. k \in 0 .. Size - 1 /\ ~(k < len) /\ mProducerPosition + k = p + Size /\ p \in Nat
      BY <1>2, <2>1
    <3> HIDE DEF k, p
    <3>2. At(mBuffer', p + Size) = At(mBuffer, p + Size)
      BY <1>7, <3>1
    <3>3. (p + Size) % Size = p % Size
      <4>1. Size \in 0 .. Size /\ p % Size \in 0 .. Size - 1  BY <1>2, <3>1
      <4>2. (p + Size) % Size = IF (p % Size) + Size < Size THEN (p % Size) + Size
                                ELSE (p % Size) + Size - Size
        BY <3>1, <4>1, SlotFurther
      <4> QED  BY <1>2, <4>1, <4>2
    <3>4. At(mBuffer', p) = At(mBuffer, p)
      BY <3>2, <3>3 DEF At
    <3>5. Items'[i] = At(mBuffer', p) /\ Items[i] = At(mBuffer, p)
      BY <1>2, <1>4, <1>5, <2>1 DEF p
    <3> QED  BY <1>6, <2>1, <3>4, <3>5
  <2>2. CASE ~(i <= used)
    <3> DEFINE k == i - used - 1
    <3>1. /\ k \in 0 .. Size - 1 /\ k < len /\ k + 1 = i - used
          /\ mProducerPosition + k = mConsumerPosition + (i - 1)
      BY <1>2, <2>2
    <3> HIDE DEF k
    <3>2. At(mBuffer', mConsumerPosition + (i - 1)) = bytes[i - used]
      BY <1>7, <3>1
    <3> QED  BY <1>5, <1>6, <2>2, <3>2
  <2> QED  BY <2>1, <2>2
<1> QED  BY <1>5, <1>6, <1>8, SeqEqual

(* ... a read takes from the front.                                         *)
LEMMA ReadTakes ==
  ASSUME TypeOK, NEW count \in Nat, count <= getAvailableConsumption,
         mConsumerPosition' = mConsumerPosition + count, UNCHANGED <<mBuffer, mProducerPosition>>
  PROVE  /\ Oldest(count) = SubSeq(Items, 1, count)
         /\ Items' = SubSeq(Items, count + 1, Len(Items))
<1> DEFINE used == getAvailableConsumption
<1> USE RingAssumption
<1>1. Positions /\ Positions'
  BY DEF TypeOK, Positions, RingAssumption, getAvailableConsumption
<1>2. Size \in Nat /\ used \in Nat /\ used <= Size /\ count <= used /\ mConsumerPosition \in Nat
  BY DEF RingAssumption, TypeOK
<1>3. /\ mConsumerPosition' = mConsumerPosition + count /\ getAvailableConsumption' = used - count
      /\ mBuffer' = mBuffer
  BY DEF getAvailableConsumption, TypeOK
<1>4. /\ Items \in Seq(Bytes) /\ Len(Items) = used
      /\ \A i \in 1 .. used : Items[i] = At(mBuffer, mConsumerPosition + (i - 1))
  BY <1>1, ItemsAre
<1>5. /\ Items' \in Seq(Bytes) /\ Len(Items') = used - count
      /\ \A i \in 1 .. used - count : Items'[i] = At(mBuffer, mConsumerPosition + count + (i - 1))
  BY <1>1, <1>3, ItemsWillBe
<1> HIDE DEF used
<1>6. Oldest(count) = SubSeq(Items, 1, count)
  <2>1. /\ Oldest(count) \in Seq(Bytes) /\ Len(Oldest(count)) = count
        /\ \A i \in 1 .. count : Oldest(count)[i] = At(mBuffer, mConsumerPosition + (i - 1))
    <3>1. Oldest(count) = From(mBuffer, mConsumerPosition, count)
      BY <1>1, <1>2, OldestIs
    <3>2. mBuffer \in [Indexes -> Bytes] /\ mConsumerPosition \in Nat
      BY <1>1 DEF Positions
    <3>3. /\ From(mBuffer, mConsumerPosition, count) \in Seq(Bytes)
          /\ Len(From(mBuffer, mConsumerPosition, count)) = count
          /\ \A i \in 1 .. count : From(mBuffer, mConsumerPosition, count)[i]
                                   = At(mBuffer, mConsumerPosition + (i - 1))
      BY <3>2, FromType
    <3> QED  BY <3>1, <3>3
  <2>2. \A i \in 1 .. count : Items[i] \in Bytes
    BY <1>2, <1>4, ElementOfSeq
  <2>3. /\ SubSeq(Items, 1, count) \in Seq(Bytes) /\ Len(SubSeq(Items, 1, count)) = count
        /\ \A i \in 1 .. count : SubSeq(Items, 1, count)[i] = Items[i]
    <3>1. /\ SubSeq(Items, 1, count) \in Seq(Bytes)
          /\ Len(SubSeq(Items, 1, count)) = IF 1 <= count THEN count - 1 + 1 ELSE 0
          /\ \A i \in 1 .. count - 1 + 1 : SubSeq(Items, 1, count)[i] = Items[1 + i - 1]
      BY <2>2, SubSeqProperties
    <3> QED  BY <3>1
  <2>4. \A i \in 1 .. count : Oldest(count)[i] = SubSeq(Items, 1, count)[i]
    BY <1>2, <1>4, <2>1, <2>3
  <2> QED  BY <2>1, <2>3, <2>4, SeqEqual
<1>7. Items' = SubSeq(Items, count + 1, Len(Items))
  <2>1. \A i \in count + 1 .. used : Items[i] \in Bytes
    BY <1>2, <1>4, ElementOfSeq
  <2>2. /\ SubSeq(Items, count + 1, used) \in Seq(Bytes)
        /\ Len(SubSeq(Items, count + 1, used)) = used - count
        /\ \A i \in 1 .. used - count : SubSeq(Items, count + 1, used)[i] = Items[count + i]
    <3>1. /\ SubSeq(Items, count + 1, used) \in Seq(Bytes)
          /\ Len(SubSeq(Items, count + 1, used))
               = IF count + 1 <= used THEN used - (count + 1) + 1 ELSE 0
          /\ \A i \in 1 .. used - (count + 1) + 1 :
               SubSeq(Items, count + 1, used)[i] = Items[count + 1 + i - 1]
      BY <1>2, <2>1, SubSeqProperties
    <3> QED  BY <1>2, <3>1
  <2>3. ASSUME NEW i \in 1 .. used - count
        PROVE  Items'[i] = SubSeq(Items, count + 1, used)[i]
    <3>1. count + i \in 1 .. used /\ mConsumerPosition + (count + i - 1) = mConsumerPosition + count + (i - 1)
      BY <1>2
    <3> QED  BY <1>4, <1>5, <2>2, <3>1
  <2> QED  BY <1>4, <1>5, <2>2, <2>3, SeqEqual
<1> QED  BY <1>6, <1>7

(* A hold of the mutex by a writing thread puts bytes into the pipe.        *)
LEMMA WritePuts ==
  ASSUME TypeInv, NEW w \in Writers, NEW bytes \in Seq(Bytes), NEW done \in Nat, NEW n \in Nat,
         n <= getAvailableProduction, done + n <= Len(bytes), n > 0 => mOpen,
         \/ writeLocked(SubSeq(bytes, done + 1, done + n))
         \/ n = 0 /\ UNCHANGED ring,
         content' = [content EXCEPT ![w] = bytes],
         current' = [current EXCEPT ![w] = done + n],
         UNCHANGED <<mOpen, target, wanted>>
  PROVE  n \in 0 .. Size /\ Pipe!Put(w, bytes, done, n)
<1> DEFINE slice == SubSeq(bytes, done + 1, done + n)
<1> USE RingAssumption DEF TypeInv
<1>1. slice \in Seq(Bytes) /\ Len(slice) = n
  BY SliceType
<1>2. /\ Items \in Seq(Bytes) /\ Len(Items) = getAvailableConsumption
      /\ Size \in Nat /\ getAvailableConsumption \in Nat
      /\ getAvailableConsumption + n <= Size
  <2>1. Positions  BY DEF TypeOK, Positions
  <2> QED  BY <2>1, ItemsAre DEF Positions, RingAssumption, getAvailableProduction
<1> HIDE DEF slice
<1>3. Items' = Items \o slice
  <2>1. CASE writeLocked(slice)
    BY <1>1, <2>1, WriteAppends
  <2>2. CASE n = 0 /\ UNCHANGED ring
    <3>1. slice = <<>>  BY <1>1, <2>2, EmptySeq
    <3>2. Items' = Items  BY <2>2 DEF Items, Oldest, getAvailableConsumption, ring
    <3> QED  BY <1>2, <3>1, <3>2, ConcatEmptySeq
  <2> QED  BY <2>1, <2>2 DEF slice
<1>4. n \in 0 .. Size  BY <1>2
<1>5. Pipe!Put(w, bytes, done, n)
  BY <1>2, <1>3 DEF Pipe!Put, Items, slice
<1> QED  BY <1>4, <1>5

(* A hold of the mutex by a reading thread takes bytes out of it.           *)
LEMMA ReadTakesFromPipe ==
  ASSUME TypeInv, NEW r \in Readers, NEW before, NEW count \in Nat, NEW n \in Nat,
         n <= getAvailableConsumption, n <= count,
         mConsumerPosition' = mConsumerPosition + n, UNCHANGED <<mBuffer, mProducerPosition>>,
         target' = [target EXCEPT ![r] = before \o Oldest(n)],
         wanted' = [wanted EXCEPT ![r] = count - n],
         UNCHANGED <<mOpen, content, current>>
  PROVE  n \in 0 .. Size /\ Pipe!Take(r, before, count, n)
<1> USE RingAssumption DEF TypeInv
<1>1. Oldest(n) = SubSeq(Items, 1, n) /\ Items' = SubSeq(Items, n + 1, Len(Items))
  BY ReadTakes
<1>2. Len(Items) = getAvailableConsumption
  <2>1. Positions  BY DEF TypeOK, Positions
  <2> QED  BY <2>1, ItemsAre
<1>3. n \in 0 .. Size  BY DEF TypeOK, RingAssumption
<1>4. Pipe!Take(r, before, count, n)
  BY <1>1, <1>2 DEF Pipe!Take, Items
<1> QED  BY <1>3, <1>4

(* Each step of the ring buffer is one of the pipe, or moves nothing.       *)
LEMMA PipeStep == TypeInv /\ TypeInv' /\ [Next]_vars => [Pipe!Next]_(Pipe!vars)
<1> SUFFICES ASSUME TypeInv, TypeInv', [Next]_vars PROVE [Pipe!Next]_(Pipe!vars)
  OBVIOUS
<1> USE RingAssumption DEF TypeInv
<1>0. /\ getAvailableConsumption \in Nat /\ getAvailableProduction \in Nat
      /\ mConsumerPosition \in Nat
  BY DEF TypeOK, RingAssumption, getAvailableProduction
<1>1. ASSUME NEW w \in Writers, NEW bytes \in Seq(Bytes), NEW done \in 0 .. Len(bytes),
             WriteOn(w, bytes, done)
      PROVE  \E n \in 0 .. Size : Pipe!Put(w, bytes, done, n)
  <2> DEFINE n == IF mOpen THEN Least(getAvailableProduction, Len(bytes) - done) ELSE 0
  <2>1. Len(bytes) \in Nat /\ done \in Nat /\ Len(bytes) - done \in Nat  BY <1>1, LenProperties
  <2>2. /\ n \in Nat /\ n <= getAvailableProduction /\ done + n <= Len(bytes) /\ (n > 0 => mOpen)
    <3>1. /\ Least(getAvailableProduction, Len(bytes) - done) \in Nat
          /\ Least(getAvailableProduction, Len(bytes) - done) <= getAvailableProduction
          /\ Least(getAvailableProduction, Len(bytes) - done) <= Len(bytes) - done
      BY <1>0, <2>1, LeastBounds
    <3> QED  BY <1>0, <2>1, <3>1
  <2>3. /\ \/ writeLocked(SubSeq(bytes, done + 1, done + n))
           \/ n = 0 /\ UNCHANGED ring
        /\ content' = [content EXCEPT ![w] = bytes]
        /\ current' = [current EXCEPT ![w] = done + n]
        /\ UNCHANGED <<mOpen, target, wanted>>
    BY <1>1 DEF WriteOn
  <2> HIDE DEF n
  <2>4. n \in 0 .. Size /\ Pipe!Put(w, bytes, done, n)
    BY <2>1, <2>2, <2>3, WritePuts
  <2> QED  BY <2>4
<1>2. ASSUME NEW w \in Writers, NEW bytes \in Seq(Bytes), writeNonBlocking(w, bytes)
      PROVE  \E n \in 0 .. Size : Pipe!Put(w, bytes, 0, n)
  <2> DEFINE n == IF mOpen THEN Least(getAvailableProduction, Len(bytes)) ELSE 0
  <2>1. Len(bytes) \in Nat  BY LenProperties
  <2>2. /\ n \in Nat /\ n <= getAvailableProduction /\ 0 + n <= Len(bytes) /\ (n > 0 => mOpen)
    <3>1. /\ Least(getAvailableProduction, Len(bytes)) \in Nat
          /\ Least(getAvailableProduction, Len(bytes)) <= getAvailableProduction
          /\ Least(getAvailableProduction, Len(bytes)) <= Len(bytes)
      BY <1>0, <2>1, LeastBounds
    <3> QED  BY <1>0, <2>1, <3>1
  <2>3. /\ \/ writeLocked(SubSeq(bytes, 0 + 1, 0 + n))
           \/ n = 0 /\ UNCHANGED ring
        /\ content' = [content EXCEPT ![w] = bytes]
        /\ current' = [current EXCEPT ![w] = 0 + n]
        /\ UNCHANGED <<mOpen, target, wanted>>
    <3>1. 0 + n = n /\ 0 + 1 = 1  BY <2>2
    <3> QED  BY <1>2, <3>1 DEF writeNonBlocking
  <2> HIDE DEF n
  <2>4. n \in 0 .. Size /\ Pipe!Put(w, bytes, 0, n)
    BY <2>1, <2>2, <2>3, WritePuts
  <2> QED  BY <2>4
<1>3. ASSUME NEW r \in Readers, NEW before, NEW count \in Nat,
             LET n == Least(getAvailableConsumption, count)
             IN  /\ readLocked(n) \/ (n = 0 /\ UNCHANGED ring)
                 /\ target' = [target EXCEPT ![r] = before \o Oldest(n)]
                 /\ wanted' = [wanted EXCEPT ![r] = count - n]
                 /\ UNCHANGED <<mOpen, content, current>>
      PROVE  \E n \in 0 .. Size : Pipe!Take(r, before, count, n)
  <2> DEFINE n == Least(getAvailableConsumption, count)
  <2>1. n \in Nat /\ n <= getAvailableConsumption /\ n <= count
    BY <1>0, LeastBounds
  <2>2. /\ readLocked(n) \/ (n = 0 /\ UNCHANGED ring)
        /\ target' = [target EXCEPT ![r] = before \o Oldest(n)]
        /\ wanted' = [wanted EXCEPT ![r] = count - n]
        /\ UNCHANGED <<mOpen, content, current>>
    BY <1>3
  <2> HIDE DEF n
  <2>3. mConsumerPosition' = mConsumerPosition + n /\ UNCHANGED <<mBuffer, mProducerPosition>>
    BY <1>0, <2>2 DEF readLocked, ring
  <2>4. n \in 0 .. Size /\ Pipe!Take(r, before, count, n)
    BY <2>1, <2>2, <2>3, ReadTakesFromPipe
  <2> QED  BY <2>4
<1>4. CASE Open \/ Close \/ SpuriousWakeup \/ UNCHANGED vars
  <2>1. UNCHANGED ring /\ UNCHANGED <<content, current, target, wanted>>
    BY <1>4 DEF Open, Close, SpuriousWakeup, vars, writing, reading
  <2>2. Items' = Items  BY <2>1 DEF Items, Oldest, getAvailableConsumption, ring
  <2>3. mOpen' = mOpen \/ mOpen' = TRUE \/ mOpen' = FALSE
    BY <1>4 DEF Open, Close, SpuriousWakeup, vars
  <2>4. CASE mOpen' = mOpen
    BY <2>1, <2>2, <2>4 DEF Pipe!vars, Items
  <2>5. CASE mOpen' = TRUE
    <3>1. Pipe!SetOpen(TRUE)
      BY <2>1, <2>2, <2>5 DEF Pipe!SetOpen, Items
    <3> QED  BY <3>1 DEF Pipe!Next
  <2>6. CASE mOpen' = FALSE
    <3>1. Pipe!SetOpen(FALSE)
      BY <2>1, <2>2, <2>6 DEF Pipe!SetOpen, Items
    <3> QED  BY <3>1 DEF Pipe!Next
  <2> QED  BY <2>3, <2>4, <2>5, <2>6
<1>5. CASE Clear
  <2>1. Items' = <<>>
    <3>1. Positions'  BY DEF TypeOK, Positions
    <3>2. getAvailableConsumption' = 0  BY <1>5 DEF Clear, getAvailableConsumption
    <3> QED  BY <3>1, <3>2, ItemsWillBe, EmptySeq
  <2>2. Pipe!Discard
    BY <1>5, <2>1 DEF Clear, writing, reading, Pipe!Discard, Items
  <2> QED  BY <2>2 DEF Pipe!Next
<1>6. ASSUME NEW w \in Writers, NEW bytes \in Contents, writeNonBlocking(w, bytes) \/ writeBlocking(w, bytes)
      PROVE  Pipe!Next
  <2>1. bytes \in Seq(Bytes) /\ 0 \in 0 .. Len(bytes)  BY LenProperties DEF RingAssumption
  <2>2. \E n \in 0 .. Size : Pipe!Put(w, bytes, 0, n)
    BY <1>1, <1>2, <1>6, <2>1 DEF writeBlocking
  <2> QED  BY <1>6, <2>2 DEF Pipe!Next
<1>7. ASSUME NEW w \in Writers, ResumeWrite(w) PROVE Pipe!Next
  <2>1. content[w] \in Seq(Bytes) /\ current[w] \in 0 .. Len(content[w])
    BY LenProperties DEF TypeOK, WithinContent
  <2>2. \E n \in 0 .. Size : Pipe!Put(w, content[w], current[w], n)
    BY <1>1, <1>7, <2>1 DEF ResumeWrite
  <2> QED  BY <2>2 DEF Pipe!Next
<1>8. ASSUME NEW r \in Readers, NEW count \in Requests, readNonBlocking(r, count) \/ readBlocking(r, count)
      PROVE  Pipe!Next
  <2>1. count \in Nat  BY DEF RingAssumption
  <2>2. \A s \in Seq(Bytes) : <<>> \o s = s  BY ConcatEmptySeq
  <2>3. CASE readNonBlocking(r, count)
    <3> DEFINE n == Least(getAvailableConsumption, count)
    <3>1. /\ readLocked(n) /\ target' = [target EXCEPT ![r] = Oldest(n)]
          /\ wanted' = [wanted EXCEPT ![r] = count - n] /\ UNCHANGED <<mOpen, content, current>>
      BY <2>3 DEF readNonBlocking
    <3>2. <<>> \o Oldest(n) = Oldest(n)
      <4>1. n \in Nat /\ n <= getAvailableConsumption  BY <1>0, <2>1, LeastBounds
      <4>2. Oldest(n) \in Seq(Bytes)  BY <4>1, OldestType
      <4> QED  BY <2>2, <4>2
    <3> HIDE DEF n
    <3>3. target' = [target EXCEPT ![r] = <<>> \o Oldest(n)]
      BY <3>1, <3>2
    <3>4. \E k \in 0 .. Size : Pipe!Take(r, <<>>, count, k)
      BY <1>3, <2>1, <3>1, <3>3 DEF n
    <3> QED  BY <3>4 DEF Pipe!Next
  <2>4. CASE readBlocking(r, count) /\ ReadOn(r, <<>>, count)
    <3>1. \E k \in 0 .. Size : Pipe!Take(r, <<>>, count, k)
      BY <1>3, <2>1, <2>4 DEF ReadOn
    <3> QED  BY <3>1 DEF Pipe!Next
  <2>5. CASE /\ target' = [target EXCEPT ![r] = <<>>]
             /\ wanted' = [wanted EXCEPT ![r] = count]
             /\ UNCHANGED <<mOpen, ring, writing, reader>>
    <3>1. Oldest(0) = <<>> /\ <<>> \o Oldest(0) = <<>>
      <4>1. Oldest(0) = <<>>  BY DEF Oldest
      <4> QED  BY <2>2, <4>1, EmptySeq
    <3>2. /\ target' = [target EXCEPT ![r] = <<>> \o Oldest(0)]
          /\ wanted' = [wanted EXCEPT ![r] = count - 0]
          /\ mConsumerPosition' = mConsumerPosition + 0 /\ UNCHANGED <<mBuffer, mProducerPosition>>
          /\ UNCHANGED <<mOpen, content, current>>
      <4>1. count - 0 = count /\ mConsumerPosition + 0 = mConsumerPosition
        BY <1>0, <2>1
      <4>2. /\ mConsumerPosition' = mConsumerPosition /\ UNCHANGED <<mBuffer, mProducerPosition>>
            /\ UNCHANGED <<mOpen, content, current>>
        BY <2>5 DEF ring, writing
      <4>3. target' = [target EXCEPT ![r] = <<>> \o Oldest(0)]
        BY <2>5, <3>1
      <4>4. wanted' = [wanted EXCEPT ![r] = count - 0]
        BY <2>5, <4>1
      <4> QED  BY <4>1, <4>2, <4>3, <4>4
    <3>3. 0 \in Nat /\ 0 <= getAvailableConsumption /\ 0 <= count  BY <1>0, <2>1
    <3>4. 0 \in 0 .. Size /\ Pipe!Take(r, <<>>, count, 0)
      BY <2>1, <3>2, <3>3, ReadTakesFromPipe
    <3> QED  BY <1>8, <3>4 DEF Pipe!Next
  <2> QED  BY <1>8, <2>3, <2>4, <2>5 DEF readBlocking
<1>9. ASSUME NEW r \in Readers, ResumeRead(r) PROVE Pipe!Next
  <2>1. target[r] \in Seq(Bytes) /\ wanted[r] \in Nat  BY DEF TypeOK
  <2>2. \E n \in 0 .. Size : Pipe!Take(r, target[r], wanted[r], n)
    BY <1>3, <1>9, <2>1 DEF ResumeRead, ReadOn
  <2> QED  BY <2>2 DEF Pipe!Next
<1> QED  BY <1>4, <1>5, <1>6, <1>7, <1>8, <1>9 DEF Next

(* To its callers the ring buffer is a bounded stream of bytes: positions,  *)
(* wrapping copies and condition variables neither lose, double nor reorder *)
(* a byte, for every size, content and request and any number of threads.   *)
THEOREM RingIsABytePipe == Spec => ImplementsBytePipe
<1>1. Init => Pipe!Init
  <2> SUFFICES ASSUME Init PROVE Pipe!Init
    OBVIOUS
  <2>1. Oldest(getAvailableConsumption) = <<>>
    <3>1. getAvailableConsumption = 0  BY DEF Init, getAvailableConsumption
    <3> QED  BY <3>1 DEF Oldest
  <2> QED  BY <2>1 DEF Init, Pipe!Init
<1>2. Init => TypeInv  BY InitTypeInv
<1> QED  BY <1>1, <1>2, TypeStep, PipeStep, PTL DEF Spec, ImplementsBytePipe, Pipe!Spec
=============================================================================
