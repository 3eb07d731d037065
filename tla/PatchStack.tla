------------------------------ MODULE PatchStack ------------------------------
(***************************************************************************)
(* What a user of nsb is promised: applying a patch redirects all of its   *)
(* functions in one step, reverting it removes this patch and nothing      *)
(* else, and a command that fails changes nothing.  A function that        *)
(* several applied patches replace runs the version applied last.          *)
(***************************************************************************)
EXTENDS Naturals, Sequences

CONSTANTS
  Patches, Funcs,
  Replaces,   \* Replaces[p]: the functions that patch p replaces
  None

VARIABLES
  stack,      \* the applied patches, oldest first
  redirect    \* redirect[f]: the patch whose version of f runs, or None

Applied(s) == {s[k] : k \in 1..Len(s)}

(* The list s without its k-th patch. *)
Without(s, k) == SubSeq(s, 1, k - 1) \o SubSeq(s, k + 1, Len(s))

(* The patch of s that was applied last among those that replace f. *)
Latest(s, f) ==
  LET Replacing == {k \in 1..Len(s) : f \in Replaces[s[k]]}
  IN  IF Replacing = {} THEN None
      ELSE s[CHOOSE k \in Replacing : \A j \in Replacing : j <= k]

Init ==
  /\ stack = <<>>
  /\ redirect = [f \in Funcs |-> None]

Apply(p) ==
  /\ p \notin Applied(stack)
  /\ stack' = Append(stack, p)
  /\ redirect' = [f \in Funcs |->
                    IF f \in Replaces[p] THEN p ELSE redirect[f]]

Revert(p) ==
  /\ \E k \in 1..Len(stack) : stack[k] = p /\ stack' = Without(stack, k)
  /\ redirect' = [f \in Funcs |-> IF redirect[f] = p THEN Latest(stack', f)
                                  ELSE redirect[f]]

Next == \E p \in Patches : Apply(p) \/ Revert(p)

Spec == Init /\ [][Next]_<<stack, redirect>>
=============================================================================
