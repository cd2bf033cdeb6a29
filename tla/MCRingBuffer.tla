----------------------------- MODULE MCRingBuffer -----------------------------
(* A ring of two bytes; a content or a request may be empty, fit, fill the   *)
(* ring or exceed it.                                                        *)
EXTENDS RingBuffer

MCContents == {<<>>, <<1>>, <<1, 0>>, <<0, 1, 1>>}
=============================================================================
