----------------------------- MODULE MCStackCheck -----------------------------
(***************************************************************************)
(* StackCheck for TLC: two patches of the function f; the second changes   *)
(* h, which follows f, as well.                                            *)
(***************************************************************************)
EXTENDS StackCheck, TLC

Body(start, size) == [start |-> start, size |-> size]

MCMain == Body(1, 2)
MCFunc == "f" :> Body(10, 3) @@ "h" :> Body(13, 2)

MCPatch ==
  "p1" :> [start |-> 20, end |-> 23, funcs |-> "f" :> Body(21, 2)]
  @@ "p2" :> [start |-> 30, end |-> 33,
              funcs |-> "f" :> Body(31, 1) @@ "h" :> Body(32, 1)]

MCMaxFrames == "t1" :> 4 @@ "t2" :> 2
=============================================================================
