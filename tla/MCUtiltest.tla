----------------------------- MODULE MCUtiltest -----------------------------
(* Utiltest for TLC.                                                        *)
EXTENDS Utiltest

EveryByte == 0..(HeapCells - 1)
EveryEighth == {a \in EveryByte : a % 8 = 0}
=============================================================================
