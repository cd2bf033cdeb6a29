----------------------------- MODULE ElementQueue -----------------------------
(***************************************************************************)
(* What util::BlockingQueue promises to its users, with no mutex, no       *)
(* condition variable and no running size: a FIFO of elements that accepts *)
(* an element when it is open and the element fits in what is left of the  *)
(* budget, gives each element to one caller of remove(), and answers       *)
(* nullptr only when nothing is left and the queue is closed.              *)
(***************************************************************************)
EXTENDS SizedSequences

CONSTANTS
  Elements,     (* the elements that can be added                          *)
  ElementSize,  (* the memory of each element                              *)
  MaxByteSize,  (* the budget                                              *)
  Consumers,    (* the threads that call remove()                          *)
  NullPtr       (* the answer of remove() when the queue is closed         *)

VARIABLES
  items,        (* the elements in the queue, oldest first                 *)
  open,         (* may elements be added?                                  *)
  calling,      (* the consumers whose call of remove() has not returned   *)
  returned,     (* the last answer of remove(), per consumer               *)
  accepted      (* the last answer of add()                                *)

vars == <<items, open, calling, returned, accepted>>

Init ==
  /\ items = <<>>
  /\ open = FALSE
  /\ calling = {}
  /\ returned = [c \in Consumers |-> NullPtr]
  /\ accepted = FALSE

Put(e) ==
  /\ open
  /\ TotalSize(ElementSize, items) + ElementSize[e] <= MaxByteSize
  /\ items' = Append(items, e)
  /\ accepted' = TRUE
  /\ UNCHANGED <<open, calling, returned>>

Refuse(e) ==
  /\ ~open \/ TotalSize(ElementSize, items) + ElementSize[e] > MaxByteSize
  /\ accepted' = FALSE
  /\ UNCHANGED <<items, open, calling, returned>>

Take(c) ==
  /\ items # <<>>
  /\ items' = Tail(items)
  /\ returned' = [returned EXCEPT ![c] = Head(items)]
  /\ calling' = calling \ {c}
  /\ UNCHANGED <<open, accepted>>

TakeNothing(c) ==
  /\ items = <<>> /\ ~open
  /\ returned' = [returned EXCEPT ![c] = NullPtr]
  /\ calling' = calling \ {c}
  /\ UNCHANGED <<items, open, accepted>>

Block(c) ==
  /\ items = <<>> /\ open /\ c \notin calling
  /\ calling' = calling \cup {c}
  /\ UNCHANGED <<items, open, returned, accepted>>

SetOpen(b) == open' = b /\ UNCHANGED <<items, calling, returned, accepted>>

Discard == items' = <<>> /\ UNCHANGED <<open, calling, returned, accepted>>

Next ==
  \/ \E e \in Elements : Put(e) \/ Refuse(e)
  \/ \E c \in Consumers : Take(c) \/ TakeNothing(c) \/ Block(c)
  \/ \E b \in BOOLEAN : SetOpen(b)
  \/ Discard

Spec == Init /\ [][Next]_vars
=============================================================================
