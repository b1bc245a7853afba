--------------------------- MODULE MCNginxManager ---------------------------
(***************************************************************************)
(* Small instances of the manager for TLC: two TCPServers whose contents   *)
(* may listen on the same port, and two callers.                           *)
(***************************************************************************)
EXTENDS ReloadHistory, TLC

CONSTANTS a, b

\* Two files with one content listen on the same port.
OnPort(config) == IF config = b THEN 9999 ELSE 8888

CallerSymmetry == Permutations(Callers)
==============================================================================
