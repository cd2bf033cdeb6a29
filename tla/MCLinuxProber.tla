----------------------------- MODULE MCLinuxProber -----------------------------
(* Two probes for two extraction and one injection control, and two probe    *)
(* points: both probes may extract (from the same point or not), too many    *)
(* may inject.                                                               *)
EXTENDS LinuxProber

CONSTANTS a, b

Off == [enabled |-> FALSE, purpose |-> "Extract", point |-> a]

MCConfigs ==
  {Off,
   [enabled |-> TRUE, purpose |-> "Extract", point |-> a],
   [enabled |-> TRUE, purpose |-> "InjectReextract", point |-> b]}
=============================================================================
