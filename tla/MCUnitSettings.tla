---------------------------- MODULE MCUnitSettings ----------------------------
(* Two callers of one unit's settings, taking turns or not.                *)
EXTENDS UnitSettings, TLC

CallerSymmetry == Permutations(Callers)
===============================================================================
