--------------------------- MODULE MCProbeInjection ---------------------------
(* Samples of two bytes, a ring of three (a sample and a half), a device of  *)
(* two samples, and buffers of half a sample or of more than the ring holds. *)
EXTENDS ProbeInjection

MCContents == {<<0>>, <<0, 0, 0, 0>>}
=============================================================================
