----------------------------- MODULE BlockingQueue -----------------------------
(***************************************************************************)
(* util::BlockingQueue: the queue between the threads that read the DSP    *)
(* (log producer, probe extractors) and the HTTP threads that stream what  *)
(* they read.  Every method runs under mMembersMutex, so a method is one   *)
(* step, except remove(): mCondVar.wait() releases the mutex, and what     *)
(* happens before the woken thread holds it again is up to the others.     *)
(***************************************************************************)
EXTENDS Naturals, Sequences, FiniteSets, SizedSequences

CONSTANTS
  Elements,        (* the elements producers add                           *)
  ElementSize,     (* mElementSizeFunction                                 *)
  MaxByteSize,     (* mMaxByteSize                                         *)
  Consumers,       (* the threads that call remove()                       *)
  NullPtr,         (* the nullptr remove() returns                         *)
  SpuriousWakeups, (* may mCondVar.wait() return without a notification?   *)
  Quiescent        (* are open() and clear() only called while no thread   *)
                   (* is inside remove()?  Nothing in the code ensures it  *)

ASSUME ElementsAssumption ==
  /\ ElementSize \in [Elements -> Nat]
  /\ MaxByteSize \in Nat
  /\ NullPtr \notin Elements

ASSUME ConsumersAssumption ==
  /\ IsFiniteSet(Consumers)
  /\ SpuriousWakeups \in BOOLEAN
  /\ Quiescent \in BOOLEAN

VARIABLES
  mOpen,
  mQueue,
  mCurrentSize,
  pc,              (* where each consumer is: out of remove(), blocked in  *)
                   (* wait(), notified but not yet holding the mutex, or   *)
                   (* stopped by a failed assertion                        *)
  result,          (* what remove() last returned to each consumer         *)
  added            (* what add() last returned                             *)

vars == <<mOpen, mQueue, mCurrentSize, pc, result, added>>

Waiting == {c \in Consumers : pc[c] = "waiting"}
Woken   == {c \in Consumers : pc[c] = "woken"}

\* A failed assert() aborts the process: nothing runs after it.
Running == \A c \in Consumers : pc[c] # "aborted"

MayReset == Quiescent => Waiting \cup Woken = {}
-----------------------------------------------------------------------------
Init ==
  /\ mOpen = FALSE
  /\ mQueue = <<>>
  /\ mCurrentSize = 0
  /\ pc = [c \in Consumers |-> "idle"]
  /\ result = [c \in Consumers |-> NullPtr]
  /\ added = FALSE

Open ==
  /\ MayReset
  /\ mOpen' = TRUE
  /\ UNCHANGED <<mQueue, mCurrentSize, pc, result, added>>

\* Fault: the notification is forgotten.
NotifyNone == UNCHANGED pc

\* notify_one(): one of the waiting threads, if there is any.
NotifyOne ==
  \/ Waiting = {} /\ UNCHANGED pc
  \/ \E c \in Waiting : pc' = [pc EXCEPT ![c] = "woken"]

NotifyAll == pc' = [c \in Consumers |-> IF pc[c] = "waiting" THEN "woken" ELSE pc[c]]

Close ==
  /\ mOpen' = FALSE
  /\ IF mOpen THEN NotifyAll ELSE UNCHANGED pc
  /\ UNCHANGED <<mQueue, mCurrentSize, result, added>>

Fits(e) == ElementSize[e] + mCurrentSize <= MaxByteSize

Add(e) ==
  /\ added' = (mOpen /\ Fits(e))
  /\ \/ /\ mOpen /\ Fits(e)
        /\ mQueue' = Append(mQueue, e)
        /\ mCurrentSize' = mCurrentSize + ElementSize[e]
        /\ NotifyOne
     \/ /\ ~(mOpen /\ Fits(e))
        /\ UNCHANGED <<mQueue, mCurrentSize, pc>>
  /\ UNCHANGED <<mOpen, result>>

RemoveLocked(c) ==
  /\ result' = [result EXCEPT ![c] = Head(mQueue)]
  /\ mQueue' = Tail(mQueue)
  /\ mCurrentSize' = mCurrentSize - ElementSize[Head(mQueue)]

ReturnNull(c) ==
  /\ result' = [result EXCEPT ![c] = NullPtr]
  /\ UNCHANGED <<mQueue, mCurrentSize>>

\* Fault: the elements left in a closed queue are not served.
RemoveNothingWhenClosed(c) ==
  /\ pc[c] = "idle"
  /\ \/ mQueue # <<>> /\ mOpen /\ RemoveLocked(c) /\ UNCHANGED pc
     \/ ~mOpen /\ ReturnNull(c) /\ UNCHANGED pc
     \/ /\ mQueue = <<>> /\ mOpen
        /\ pc' = [pc EXCEPT ![c] = "waiting"]
        /\ UNCHANGED <<mQueue, mCurrentSize, result>>
  /\ UNCHANGED <<mOpen, added>>

\* remove() up to its return or to mCondVar.wait().
Remove(c) ==
  /\ pc[c] = "idle"
  /\ \/ mQueue # <<>> /\ RemoveLocked(c) /\ UNCHANGED pc
     \/ mQueue = <<>> /\ ~mOpen /\ ReturnNull(c) /\ UNCHANGED pc
     \/ /\ mQueue = <<>> /\ mOpen
        /\ pc' = [pc EXCEPT ![c] = "waiting"]
        /\ UNCHANGED <<mQueue, mCurrentSize, result>>
  /\ UNCHANGED <<mOpen, added>>

\* remove() from the return of mCondVar.wait().  With NDEBUG the assertion is
\* not compiled and front() of an empty queue is undefined: the run is over
\* for the model either way.
Resume(c) ==
  /\ pc[c] = "woken"
  /\ \/ mQueue # <<>> /\ RemoveLocked(c) /\ pc' = [pc EXCEPT ![c] = "idle"]
     \/ mQueue = <<>> /\ ~mOpen /\ ReturnNull(c) /\ pc' = [pc EXCEPT ![c] = "idle"]
     \/ /\ mQueue = <<>> /\ mOpen
        /\ pc' = [pc EXCEPT ![c] = "aborted"]
        /\ UNCHANGED <<mQueue, mCurrentSize, result>>
  /\ UNCHANGED <<mOpen, added>>

SpuriousWakeup(c) ==
  /\ SpuriousWakeups
  /\ pc[c] = "waiting"
  /\ pc' = [pc EXCEPT ![c] = "woken"]
  /\ UNCHANGED <<mOpen, mQueue, mCurrentSize, result, added>>

\* Fault: the running size survives the elements.
ClearKeepsSize ==
  /\ MayReset
  /\ mQueue' = <<>>
  /\ UNCHANGED <<mOpen, mCurrentSize, pc, result, added>>

Clear ==
  /\ MayReset
  /\ mQueue' = <<>>
  /\ mCurrentSize' = 0
  /\ UNCHANGED <<mOpen, pc, result, added>>

Step ==
  \/ Open \/ Close \/ Clear
  \/ \E e \in Elements : Add(e)
  \/ \E c \in Consumers : Remove(c) \/ Resume(c) \/ SpuriousWakeup(c)

Next == Running /\ Step

Spec == Init /\ [][Next]_vars
-----------------------------------------------------------------------------
(* The values each variable takes; the running size is within the budget    *)
(* (the assert of addLocked()).                                             *)
TypeOK ==
  /\ mOpen \in BOOLEAN
  /\ mQueue \in Seq(Elements)
  /\ mCurrentSize \in 0 .. MaxByteSize
  /\ pc \in [Consumers -> {"idle", "waiting", "woken", "aborted"}]
  /\ result \in [Consumers -> Elements \cup {NullPtr}]
  /\ added \in BOOLEAN

(* The running size kept by addLocked(), removeLocked() and clearLocked()   *)
(* never drifts from the elements in the queue, whatever is interleaved     *)
(* (hence removeLocked()'s assert(elementSize <= mCurrentSize)).            *)
Accounting == mCurrentSize = TotalSize(ElementSize, mQueue)

(* No thread stays blocked in wait() once the queue is closed: close()      *)
(* notifies every waiter and remove() never waits on a closed queue.        *)
NoneBlockedWhenClosed == ~mOpen => Waiting = {}

(* No wake-up is lost: while a thread waits, every element in the queue has *)
(* a notified thread of its own on its way to take it.                      *)
NoLostWakeup == Waiting # {} => Len(mQueue) <= Cardinality(Woken)

(* remove()'s assert(!mQueue.empty()) after the wait, with its comment: a   *)
(* wake-up means an element was added or the queue was closed.              *)
(* TLC refutes it: README, section 6.                                       *)
QueueNotEmptyAfterWait == Running

(* Seen through its methods the queue is a bounded FIFO: mutex, condition   *)
(* variable and running size add and lose no behaviour a caller can see.    *)
Promise == INSTANCE ElementQueue
             WITH items <- mQueue, open <- mOpen, returned <- result, accepted <- added,
                  calling <- {c \in Consumers : pc[c] # "idle"}
ImplementsElementQueue == Promise!Spec
=============================================================================
