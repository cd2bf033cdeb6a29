------------------------------- MODULE WppClient -------------------------------
(***************************************************************************)
(* What windows::WppClient promises (the comment of its stop()): one       *)
(* thread collects log entries until another calls stop().                 *)
(*   - stop() before collectLogEntries(): it returns immediately;          *)
(*   - stop() during collectLogEntries(): it ends;                         *)
(*   - stop() after collectLogEntries(): no effect.                        *)
(* A client serves one session; each start of the log makes a new one.     *)
(***************************************************************************)

VARIABLES
  phase,           (* of the client, if there is one                       *)
  stopped          (* has stop() been called?                              *)

Phases == {"none", "created", "collecting", "ended"}

Init == phase = "none" /\ stopped = FALSE

Create == phase = "none" /\ phase' = "created" /\ stopped' = FALSE

Collect == phase = "created" /\ ~stopped /\ phase' = "collecting" /\ UNCHANGED stopped

\* At any time on an error, and because of stop() in any case.
End == phase \in {"created", "collecting"} /\ phase' = "ended" /\ UNCHANGED stopped

Stop == phase # "none" /\ ~stopped /\ stopped' = TRUE /\ UNCHANGED phase

Destroy == phase = "ended" /\ stopped /\ phase' = "none" /\ UNCHANGED stopped

Next == Create \/ Collect \/ End \/ Stop \/ Destroy

Spec == Init /\ [][Next]_<<phase, stopped>>
=============================================================================
