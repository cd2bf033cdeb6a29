------------------------------ MODULE RingBuffer ------------------------------
(***************************************************************************)
(* util::RingBuffer: the byte buffer between the HTTP thread that injects  *)
(* a probe and the injector thread that feeds the DSP.  Every method runs  *)
(* under mMemberLock, which the waits of writeBlocking() and readBlocking()*)
(* release: a hold of the mutex is one step.                               *)
(***************************************************************************)
EXTENDS Naturals, Sequences, FiniteSets

CONSTANTS
  Bytes,        (* the values of a byte                                    *)
  Size,         (* mBuffer.size()                                          *)
  Writers,      (* the threads that write                                  *)
  Readers,      (* the threads that read                                   *)
  Contents,     (* the contents that are written                           *)
  Requests,     (* the counts of bytes that reading calls ask for          *)
  MaxPosition   (* bound: where mProducerPosition stops                    *)

ASSUME RingAssumption ==
  /\ Size \in Nat \ {0}
  /\ Contents \subseteq Seq(Bytes)
  /\ Requests \subseteq Nat
  /\ MaxPosition \in Nat
  /\ 0 \in Bytes

VARIABLES
  mOpen,
  mBuffer,
  mProducerPosition,
  mConsumerPosition,
  writer,       (* each writing thread: out of writeBlocking(), in its     *)
                (* wait, or notified                                       *)
  content,      (* the content its last call was given                     *)
  current,      (* how many bytes of it are written                        *)
  reader,       (* each reading thread, likewise                           *)
  target,       (* what its last call has read                             *)
  wanted,       (* how many bytes that call has still to read              *)
  full          (* did its last readBlocking() return true?                *)

ring    == <<mBuffer, mProducerPosition, mConsumerPosition>>
writing == <<writer, content, current>>
reading == <<reader, target, wanted, full>>
vars    == <<mOpen, ring, writing, reading>>

Indexes == 0 .. Size - 1

Init ==
  /\ mOpen = FALSE
  /\ mBuffer = [i \in Indexes |-> 0]
  /\ mProducerPosition = 0 /\ mConsumerPosition = 0
  /\ writer = [w \in Writers |-> "idle"]
  /\ content = [w \in Writers |-> <<>>]
  /\ current = [w \in Writers |-> 0]
  /\ reader = [r \in Readers |-> "idle"]
  /\ target = [r \in Readers |-> <<>>]
  /\ wanted = [r \in Readers |-> 0]
  /\ full = [r \in Readers |-> FALSE]

Least(a, b) == IF a <= b THEN a ELSE b

getAvailableConsumption == mProducerPosition - mConsumerPosition

getAvailableProduction == Size - getAvailableConsumption

WaitingWriters == {w \in Writers : writer[w] = "waiting"}
WaitingReaders == {r \in Readers : reader[r] = "waiting"}

\* Fault: the thread on the other side is not notified.
KeepWritersAsleep == UNCHANGED writer

\* mProducerVar.notify_one() and mConsumerVar.notify_one().
NotifyWriter ==
  \/ WaitingWriters = {} /\ UNCHANGED writer
  \/ \E w \in WaitingWriters : writer' = [writer EXCEPT ![w] = "woken"]

NotifyReader ==
  \/ WaitingReaders = {} /\ UNCHANGED reader
  \/ \E r \in WaitingReaders : reader' = [reader EXCEPT ![r] = "woken"]
-----------------------------------------------------------------------------
Open == mOpen' = TRUE /\ UNCHANGED <<ring, writing, reading>>

Close ==
  /\ mOpen' = FALSE
  /\ writer' = [w \in Writers |-> IF mOpen /\ writer[w] = "waiting" THEN "woken" ELSE writer[w]]
  /\ reader' = [r \in Readers |-> IF mOpen /\ reader[r] = "waiting" THEN "woken" ELSE reader[r]]
  /\ UNCHANGED <<ring, content, current, target, wanted, full>>

\* Nobody is notified of the bytes that have become free.
Clear ==
  /\ mProducerPosition' = 0 /\ mConsumerPosition' = 0
  /\ UNCHANGED <<mOpen, mBuffer, writing, reading>>
-----------------------------------------------------------------------------
\* The part of a copy that fits before the end of mBuffer.
FirstPart(index, count) == IF index + count <= Size THEN count ELSE Size - index

\* Fault: the copy does not go on at the beginning of mBuffer.
WriteFirstPart(bytes) ==
  LET index == mProducerPosition % Size
      first == FirstPart(index, Len(bytes))
  IN  /\ mProducerPosition + Len(bytes) <= MaxPosition
      /\ mBuffer' = [i \in Indexes |->
           IF index <= i /\ i < index + first THEN bytes[i - index + 1] ELSE mBuffer[i]]
      /\ mProducerPosition' = mProducerPosition + Len(bytes)
      /\ UNCHANGED mConsumerPosition
      /\ NotifyReader

writeLocked(bytes) ==
  LET index == mProducerPosition % Size
      first == FirstPart(index, Len(bytes))
  IN  /\ mProducerPosition + Len(bytes) <= MaxPosition
      /\ mBuffer' = [i \in Indexes |->
           IF index <= i /\ i < index + first THEN bytes[i - index + 1]
           ELSE IF i < Len(bytes) - first THEN bytes[first + i + 1]
           ELSE mBuffer[i]]
      /\ mProducerPosition' = mProducerPosition + Len(bytes)
      /\ UNCHANGED mConsumerPosition
      /\ NotifyReader

\* The count oldest bytes.
Oldest(count) ==
  LET index == mConsumerPosition % Size
      first == FirstPart(index, count)
  IN  [i \in 1 .. count |->
         IF i <= first THEN mBuffer[index + i - 1] ELSE mBuffer[i - first - 1]]

readLocked(count) ==
  /\ mConsumerPosition' = mConsumerPosition + count
  /\ UNCHANGED <<mBuffer, mProducerPosition>>
  /\ NotifyWriter
-----------------------------------------------------------------------------
writeNonBlocking(w, bytes) ==
  /\ writer[w] = "idle"
  /\ LET n == IF mOpen THEN Least(getAvailableProduction, Len(bytes)) ELSE 0
     IN  /\ \/ mOpen /\ writeLocked(SubSeq(bytes, 1, n))
            \/ ~mOpen /\ UNCHANGED <<ring, reader>>
         /\ content' = [content EXCEPT ![w] = bytes]
         /\ current' = [current EXCEPT ![w] = n]
  /\ UNCHANGED <<mOpen, writer, target, wanted, full>>

\* A hold of the mutex by writeBlocking(), from where it is in its content: up
\* to its return or to its next wait.
WriteOn(w, bytes, done) ==
  LET n == IF mOpen THEN Least(getAvailableProduction, Len(bytes) - done) ELSE 0
  IN  /\ \/ n > 0 /\ writeLocked(SubSeq(bytes, done + 1, done + n))
         \/ n = 0 /\ UNCHANGED <<ring, reader>>
      /\ content' = [content EXCEPT ![w] = bytes]
      /\ current' = [current EXCEPT ![w] = done + n]
      /\ writer' = [writer EXCEPT ![w] = IF mOpen /\ done + n < Len(bytes) THEN "waiting" ELSE "idle"]
      /\ UNCHANGED <<mOpen, target, wanted, full>>

writeBlocking(w, bytes) == writer[w] = "idle" /\ WriteOn(w, bytes, 0)

ResumeWrite(w) == writer[w] = "woken" /\ WriteOn(w, content[w], current[w])

readNonBlocking(r, count) ==
  /\ reader[r] = "idle"
  /\ LET n == Least(getAvailableConsumption, count)
     IN  /\ target' = [target EXCEPT ![r] = Oldest(n)]
         /\ wanted' = [wanted EXCEPT ![r] = count - n]
         /\ readLocked(n)
  /\ UNCHANGED <<mOpen, content, current, reader, full>>

\* A hold of the mutex by readBlocking(), with what it has read and what it
\* has still to read.
ReadOn(r, bytes, count) ==
  LET n == Least(getAvailableConsumption, count)
  IN  /\ \/ n > 0 /\ readLocked(n)
         \/ n = 0 /\ UNCHANGED <<ring, writer>>
      /\ target' = [target EXCEPT ![r] = bytes \o Oldest(n)]
      /\ wanted' = [wanted EXCEPT ![r] = count - n]
      /\ full' = [full EXCEPT ![r] = (n = count)]
      /\ reader' = [reader EXCEPT ![r] = IF mOpen /\ n < count THEN "waiting" ELSE "idle"]
      /\ UNCHANGED <<mOpen, content, current>>

readBlocking(r, count) ==
  /\ reader[r] = "idle"
  /\ \/ mOpen /\ ReadOn(r, <<>>, count)
     \/ /\ ~mOpen
        /\ target' = [target EXCEPT ![r] = <<>>]
        /\ wanted' = [wanted EXCEPT ![r] = count]
        /\ full' = [full EXCEPT ![r] = FALSE]
        /\ UNCHANGED <<mOpen, ring, writing, reader>>

ResumeRead(r) == reader[r] = "woken" /\ ReadOn(r, target[r], wanted[r])

SpuriousWakeup ==
  /\ \/ /\ \E w \in WaitingWriters : writer' = [writer EXCEPT ![w] = "woken"]
        /\ UNCHANGED reader
     \/ /\ \E r \in WaitingReaders : reader' = [reader EXCEPT ![r] = "woken"]
        /\ UNCHANGED writer
  /\ UNCHANGED <<mOpen, ring, content, current, target, wanted, full>>
-----------------------------------------------------------------------------
Next ==
  \/ Open \/ Close \/ Clear \/ SpuriousWakeup
  \/ \E w \in Writers :
       \/ \E bytes \in Contents : writeNonBlocking(w, bytes) \/ writeBlocking(w, bytes)
       \/ ResumeWrite(w)
  \/ \E r \in Readers :
       \/ \E count \in Requests : readNonBlocking(r, count) \/ readBlocking(r, count)
       \/ ResumeRead(r)

Spec == Init /\ [][Next]_vars
-----------------------------------------------------------------------------
(* The values each variable takes; the consumer never passes the producer   *)
(* nor falls more than a buffer behind (the ASSERT_ALWAYS of                *)
(* getAvailableConsumption()).                                              *)
TypeOK ==
  /\ mOpen \in BOOLEAN
  /\ mBuffer \in [Indexes -> Bytes]
  /\ mProducerPosition \in Nat /\ mConsumerPosition \in Nat
  /\ getAvailableConsumption \in 0 .. Size
  /\ writer \in [Writers -> {"idle", "waiting", "woken"}]
  /\ content \in [Writers -> Seq(Bytes)]
  /\ current \in [Writers -> Nat]
  /\ reader \in [Readers -> {"idle", "waiting", "woken"}]
  /\ target \in [Readers -> Seq(Bytes)]
  /\ wanted \in [Readers -> Nat]
  /\ full \in [Readers -> BOOLEAN]

(* With one thread on each side, a thread is asleep only for the reason it  *)
(* waits for: the buffer is open, and empty for the reader, full for the    *)
(* writer or, since clear() notifies nobody, cleared under it.  No other    *)
(* notification is lost, whatever the counts and the wrapping.              *)
BlockedForAReason ==
  /\ WaitingWriters # {} => mOpen /\ (getAvailableProduction = 0 \/ mProducerPosition = 0)
  /\ WaitingReaders # {} => mOpen /\ getAvailableConsumption = 0

(* Seen by its writers and readers the ring buffer is a bounded stream of   *)
(* bytes: positions, wrapping copies and condition variables neither lose,  *)
(* double nor reorder a byte.                                               *)
Pipe == INSTANCE BytePipe
          WITH items <- Oldest(getAvailableConsumption), open <- mOpen, given <- content, sent <- current,
               got <- target, missing <- wanted
ImplementsBytePipe == Pipe!Spec
=============================================================================
