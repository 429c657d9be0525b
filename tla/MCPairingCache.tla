--------------------------- MODULE MCPairingCache ---------------------------
(* An instance of PairingCache for TLC: three scenes, an inventory and a   *)
(* radar scan, a usable content and one that is not.                       *)
EXTENDS PairingCache, TLC

CONSTANTS s1, s2, s3, good, bad, inventory, scan

Symm == Permutations(Scene)
=============================================================================
