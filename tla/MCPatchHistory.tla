---------------------------- MODULE MCPatchHistory ----------------------------
(* Small instances of PatchHistory: three patches of one library, A and B  *)
(* with two segments, C with one, all of them of function f2.              *)
EXTENDS PatchHistory, TLC

CONSTANTS A, B, C, f1, f2, lib

MCJumps == A :> <<f1, f2>> @@ B :> <<f2>> @@ C :> <<f2, f1>>
MCSize == A :> 2 @@ B :> 2 @@ C :> 1
MCLib == f1 :> lib @@ f2 :> lib
MCTarget == A :> lib @@ B :> lib @@ C :> lib
=============================================================================
