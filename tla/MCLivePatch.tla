----------------------------- MODULE MCLivePatch -----------------------------
(* Small instances of LivePatch: patches A and B of the functions f1 and   *)
(* f2 of one library, B patches what A patches too.                        *)
EXTENDS LivePatch, TLC

CONSTANTS A, B, f1, f2, lib

MCJumps == A :> <<f1, f2>> @@ B :> <<f2>>
MCSize == A :> 2 @@ B :> 1
MCLib == f1 :> lib @@ f2 :> lib
MCTarget == A :> lib @@ B :> lib
MCBusy == {3}
=============================================================================
