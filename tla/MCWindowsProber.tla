---------------------------- MODULE MCWindowsProber ----------------------------
(* Two probes: no session, one where a probe extracts and the other injects  *)
(* and extracts, and one that asks for the same probe point twice.           *)
EXTENDS WindowsProber

CONSTANTS a, b

Off         == [enabled |-> FALSE, purpose |-> "Inject", point |-> a]
On(why, at) == [enabled |-> TRUE, purpose |-> why, point |-> at]
Pair(x, y)  == [p \in Probes |-> IF p = 0 THEN x ELSE y]

MCSessions ==
  {Pair(Off, Off),
   Pair(On("Extract", a), On("InjectReextract", b)),
   Pair(On("Extract", a), On("Extract", a))}
================================================================================
