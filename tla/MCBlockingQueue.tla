--------------------------- MODULE MCBlockingQueue ---------------------------
(* A small BlockingQueue: elements of 1 and 2 bytes in a budget of 3, and    *)
(* one of 4 bytes that never fits.                                           *)
EXTENDS BlockingQueue, TLC

CONSTANTS small, large, huge

MCElementSize == (small :> 1) @@ (large :> 2) @@ (huge :> 4)
=============================================================================
