--------------------------- MODULE MCControlPlane ---------------------------
(* The editor may move the metrics address, or write what does not compile.  *)
EXTENDS ControlPlane, TLC

CONSTANTS d1, d2, c1, c2

MCKinds       == {"good", "moved", "broken"}
MCValid       == {"good", "moved"}
MCRestartPart == [k \in MCKinds |-> IF k = "moved" THEN "moved" ELSE "as started"]
Symmetry      == Permutations({d1, d2}) \cup Permutations({c1, c2})
=============================================================================
