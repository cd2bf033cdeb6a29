------------------------------- MODULE MCAgent -------------------------------
(* The log and the injection stream of a probe, and one thread more than     *)
(* there are streams.                                                        *)
EXTENDS Agent

CONSTANTS log, injection, logService, probeService

MCServiceOf == [s \in {log, injection} |-> IF s = log THEN logService ELSE probeService]
=============================================================================
