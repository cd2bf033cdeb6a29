------------------------------- MODULE BytePipe -------------------------------
(***************************************************************************)
(* What util::RingBuffer promises to the threads that write and read it,   *)
(* with no positions, no wrapping and no condition variables: a bounded    *)
(* stream of bytes.  A writer hands over as many bytes of its content as   *)
(* fit, the rest later; a reader takes from the front as many bytes as it  *)
(* still wants; bytes are neither lost, doubled nor reordered.             *)
(***************************************************************************)
EXTENDS Naturals, Sequences

CONSTANTS
  Contents,  (* the contents writers write: sequences of bytes             *)
  Requests,  (* the byte counts readers ask for                            *)
  Size,      (* the capacity of the pipe                                   *)
  Writers,
  Readers

VARIABLES
  items,     (* the bytes in the pipe                                      *)
  open,      (* may bytes be written?                                      *)
  given,     (* the content of each writer's last call                     *)
  sent,      (* how many bytes of it have been handed over                 *)
  got,       (* what each reader's last call has received so far           *)
  missing    (* how many bytes that call has still to receive              *)

vars == <<items, open, given, sent, got, missing>>

Init ==
  /\ items = <<>>
  /\ open = FALSE
  /\ given = [w \in Writers |-> <<>>]
  /\ sent = [w \in Writers |-> 0]
  /\ got = [r \in Readers |-> <<>>]
  /\ missing = [r \in Readers |-> 0]

Put(w, bytes, before, n) ==
  /\ before + n <= Len(bytes) /\ Len(items) + n <= Size
  /\ n > 0 => open
  /\ items' = items \o SubSeq(bytes, before + 1, before + n)
  /\ given' = [given EXCEPT ![w] = bytes]
  /\ sent' = [sent EXCEPT ![w] = before + n]
  /\ UNCHANGED <<open, got, missing>>

Take(r, before, count, n) ==
  /\ n <= count /\ n <= Len(items)
  /\ items' = SubSeq(items, n + 1, Len(items))
  /\ got' = [got EXCEPT ![r] = before \o SubSeq(items, 1, n)]
  /\ missing' = [missing EXCEPT ![r] = count - n]
  /\ UNCHANGED <<open, given, sent>>

SetOpen(b) == open' = b /\ UNCHANGED <<items, given, sent, got, missing>>

Discard == items' = <<>> /\ UNCHANGED <<open, given, sent, got, missing>>

Next ==
  \/ \E w \in Writers, n \in 0 .. Size :
       \/ \E bytes \in Contents : Put(w, bytes, 0, n)
       \/ Put(w, given[w], sent[w], n)
  \/ \E r \in Readers, n \in 0 .. Size :
       \/ \E count \in Requests : Take(r, <<>>, count, n)
       \/ Take(r, got[r], missing[r], n)
  \/ \E b \in BOOLEAN : SetOpen(b)
  \/ Discard

Spec == Init /\ [][Next]_vars
=============================================================================
