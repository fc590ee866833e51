-------------------------- MODULE MCUpdateInstall --------------------------
(* Two updaters of the same new release on one host; mutants of the        *)
(* installer stand in its own module.                                      *)
EXTENDS UpdateInstall

CONSTANTS u1, u2

MCVersionOf == [f \in Files |-> IF f = Old THEN 1 ELSE 2]
=============================================================================
