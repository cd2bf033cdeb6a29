--------------------------- MODULE SizedSequences ---------------------------
(***************************************************************************)
(* The memory a sequence of elements occupies, when SizeOf[e] is the       *)
(* memory of element e: the value mCurrentSize of util::BlockingQueue      *)
(* stands for, written as a recursive function so that lemmas about it can *)
(* be proved (BlockingQueue_proofs).                                       *)
(***************************************************************************)
EXTENDS Integers, Sequences

\* The memory of the first i elements of seq, for each i.
PrefixSize(SizeOf, seq) ==
  LET size[i \in 0 .. Len(seq)] == IF i = 0 THEN 0 ELSE size[i - 1] + SizeOf[seq[i]]
  IN  size

TotalSize(SizeOf, seq) == PrefixSize(SizeOf, seq)[Len(seq)]
=============================================================================
