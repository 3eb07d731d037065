----------------------------- MODULE PatchHistory -----------------------------
(***************************************************************************)
(* LivePatch with history variables: the order in which the patches were   *)
(* applied, which nsb does not record, and what the process can observe of *)
(* them, which changes only while it runs.  With them LivePatch is shown   *)
(* to implement PatchStack.                                                *)
(***************************************************************************)
EXTENDS LivePatch

CONSTANT
  Lifo        \* TRUE when users revert the patch applied last, if any

VARIABLES
  order,      \* the patches whose patch command went through, oldest first
  view        \* order and redirections when the process ran last

(* The patch that f jumps to. *)
Redirect ==
  [f \in Funcs |->
     IF code[f] = Original THEN None
     ELSE CHOOSE p \in Patches : 0 \in segs[p] /\ base[p] = code[f]]

(* The abstract state is what the process observes. *)
Stack == INSTANCE PatchStack WITH
  Replaces <- [p \in Patches |-> JumpSet(p)],
  stack <- view.stack, redirect <- view.redirect

Listed(p) == \E k \in 1..Len(order) : order[k] = p

(* A patch command went through all its steps, a revert unmapped all. *)
PatchDone == pc = "jump" /\ pc' = "resume" /\ ~cmd.dry
RevertDone == pc = "unload" /\ pc' = "resume" /\ cmd.op = "revert"
              /\ segs[cmd.p] = {}

NextOrder ==
  IF PatchDone THEN order' = Append(order, cmd.p)
  ELSE IF RevertDone /\ Listed(cmd.p)
  THEN \E k \in 1..Len(order) : order[k] = cmd.p /\ order' = Stack!Without(order, k)
  ELSE UNCHANGED order

InitH ==
  /\ Init
  /\ order = <<>>
  /\ view = [stack |-> <<>>, redirect |-> [f \in Funcs |-> None]]

NextH ==
  /\ Next
  /\ Lifo /\ pc = "idle" /\ cmd'.op = "revert" /\ Listed(cmd'.p) =>
       order[Len(order)] = cmd'.p
  /\ NextOrder
  /\ view' = IF Stopped' THEN view
             ELSE [stack |-> order', redirect |-> Redirect']

SpecH == InitH /\ [][NextH]_<<vars, order, view>>

(* When nsb can tell the order of the patches from their addresses: the    *)
(* user reverts the patch applied last, the steps that nsb does not undo   *)
(* succeed, and no free range is too small for one patch and large enough  *)
(* for another, since all patches have one size or the free cells are one  *)
(* range.  The cells themselves never change, as Busy is a constant: a     *)
(* process that unmaps memory below an applied patch makes room there for  *)
(* a later one, and then the addresses do not tell the order, whatever the *)
(* sizes are.                                                              *)
Orderly ==
  /\ Lifo
  /\ Dlopened = {}
  /\ DryRuns \subseteq {"patch"}
  /\ Faults \subseteq {"mmap", "link"}
  /\ "mmap" \notin Faults \/ "plugin" \notin Modes
  /\ \/ \A p, q \in Patches : Size[p] = Size[q]
     \/ \A a, c \in (1..N) \ Busy : (a..c) \intersect Busy = {}

(* README.md, "Atomic (for the process) replacement of executable code":   *)
(* what the process observes when it runs changes as in PatchStack, by a   *)
(* whole patch applied, or this one patch reverted, or not at all.         *)
AtomicForTheProcess == Stack!Spec

(* A function runs the version of the patch applied last among those that  *)
(* replace it and have not been reverted.                                  *)
LatestPatchRuns ==
  ~Stopped => \A f \in Funcs : Redirect[f] = Stack!Latest(order, f)
=============================================================================
