------------------------------ MODULE StackCheck ------------------------------
(***************************************************************************)
(* The stacks of a process and the addresses on them: threads call, return *)
(* and take signals while nsb stops them, looks at their stacks            *)
(* (patcher/backtrace.c, process_check_stack of patcher/process.c) and     *)
(* puts jumps into functions or takes a patch out (patcher/patch.c).       *)
(*                                                                         *)
(* ThreadStop has how all threads are stopped, for which one step does     *)
(* here, and only says of a thread whether it is in the code to change;    *)
(* here that is what nsb finds out from instruction pointers.              *)
(***************************************************************************)
EXTENDS Integers, Sequences, Functions

CONSTANTS
  Threads,
  Func,        \* Func[f]: start and size of a function of the target
  Patch,       \* Patch[p]: start and end of its first mapping, its functions
  Main,        \* start and size of code that no patch changes
  SigReturn,   \* instruction pointer of a signal frame
  JumpSize,    \* bytes that write_func_jump and write_func_code write
  MAX_DEPTH,
  Tries,       \* times process_suspend tries to catch the process
  MaxFrames,   \* MaxFrames[t]: bound on the stack of t
  Orig         \* the code of a function that no patch has changed

(* The generator makes no patch of a function shorter than the jump. *)
ASSUME FuncAssumption == \A f \in DOMAIN Func : Func[f].size >= JumpSize

VARIABLES
  stack,       \* stack[t]: instruction pointers, the running function first
  code,        \* code[f]: the patch that f jumps to, or Orig
  loaded,      \* patches that are mapped
  pc, op, patch, try,   \* nsb: next step, command, its patch, catches that failed
  ret

process == <<stack, code, loaded>>
nsb == <<pc, op, patch, try, ret>>
vars == <<process, nsb>>

Patches == DOMAIN Patch
Funcs == DOMAIN Func
Changes(p) == DOMAIN Patch[p].funcs

-----------------------------------------------------------------------------
(* The threads, when nsb has not stopped them.                             *)

Within(ip, body) == ip \in body.start..(body.start + body.size - 1)

BodiesOf(p) == {Patch[p].funcs[f] : f \in Changes(p)}

OtherCode(p) ==
  {Main} \union {Func[f] : f \in Funcs} \union UNION {BodiesOf(q) : q \in Patches \ {p}}

Bodies ==
  {Main} \union {Func[f] : f \in Funcs} \union UNION {BodiesOf(p) : p \in Patches}

End(body) == body.start + body.size

(* What the linker and the kernel guarantee of the code of a process, and  *)
(* of the outermost function of a thread, which do_backtrace leaves out:   *)
(* it is no function that a patch changes, and nothing returns past it.    *)
ASSUME LayoutAssumption ==
  /\ \A b \in Bodies : b.start \in Int /\ b.size \in Nat \ {0}
  /\ \A f \in Funcs : \A b \in Bodies \ {Func[f]} :
       End(b) <= Func[f].start \/ End(Func[f]) <= b.start
  /\ \A b \in Bodies : ~Within(End(Main), b)
  /\ Main \notin {Func[f] : f \in Funcs}

(* A patch is an object of its own: other code is outside of its mapping,  *)
(* and does not end where that begins, with the header of the file.        *)
ASSUME PatchAssumption ==
  /\ Orig \notin Patches
  /\ \A p \in Patches :
       /\ Patch[p].start \in Int /\ Patch[p].end \in Int
       /\ Changes(p) \subseteq Funcs
       /\ \A b \in BodiesOf(p) : Patch[p].start <= b.start /\ End(b) <= Patch[p].end
       /\ \A b \in OtherCode(p) : End(b) < Patch[p].start \/ Patch[p].end <= b.start
  /\ \A S \in SUBSET Patches : S # {} =>
       \E p \in S : \A q \in S : Patch[q].start <= Patch[p].start

(* The code that a signal handler returns to is in none of them. *)
ASSUME SigReturnAssumption ==
  /\ SigReturn \in Int
  /\ \A b \in Bodies : SigReturn \notin b.start..End(b)
  /\ \A p \in Patches : SigReturn \notin Patch[p].start..(Patch[p].end - 1)

Running == pc \in {"off", "wait"}
Ip(t) == Head(stack[t])
Jumps(t) == {f \in Funcs : Ip(t) = Func[f].start /\ code[f] # Orig}

SetStack(t, s) == stack' = [stack EXCEPT ![t] = s] /\ UNCHANGED <<code, loaded, nsb>>

(* The next instruction, which is the jump in a function that is patched. *)
Step(t) ==
  /\ Running
  /\ \/ \E f \in Jumps(t) :
          SetStack(t, <<Patch[code[f]].funcs[f].start>> \o Tail(stack[t]))
     \/ /\ Jumps(t) = {}
        /\ \E b \in Bodies : Within(Ip(t), b) /\ Within(Ip(t) + 1, b)
        /\ SetStack(t, <<Ip(t) + 1>> \o Tail(stack[t]))

(* A call returns to the instruction after it.  That is after the last     *)
(* byte of the function if the callee does not return.                     *)
Call(t) ==
  /\ Running
  /\ Jumps(t) = {}
  /\ Len(stack[t]) < MaxFrames[t]
  /\ \E f \in Funcs : SetStack(t, <<Func[f].start, Ip(t) + 1>> \o Tail(stack[t]))

(* Return from a function, or from a signal handler. *)
Return(t) ==
  /\ Running
  /\ Jumps(t) = {}
  /\ Len(stack[t]) > 1
  /\ \/ /\ \E b \in Bodies : Within(stack[t][2], b)
        /\ SetStack(t, Tail(stack[t]))
     \/ /\ stack[t][2] = SigReturn
        /\ SetStack(t, Tail(Tail(stack[t])))

(* A signal handler is called through a signal frame. *)
Signal(t) ==
  /\ Running
  /\ Len(stack[t]) + 2 <= MaxFrames[t]
  /\ SetStack(t, <<Main.start, SigReturn>> \o stack[t])

-----------------------------------------------------------------------------
(* backtrace.c                                                             *)

(* Wrong do_backtrace: a deep stack is cut off. *)
BacktraceCut(s, unwind) ==
  [err |-> unwind,
   calls |-> SubSeq(s, 1, IF Len(s) - 1 < MAX_DEPTH + 1 THEN Len(s) - 1 ELSE MAX_DEPTH + 1)]

(* What becomes of the unwinding by libunwind: "EAGAIN" if unw_step fails, *)
(* "error" if a register cannot be read, or memory is short.               *)
Unwinds == {"ok", "EAGAIN", "error"}

(* do_backtrace: the outermost frame is not recorded; a stack that is too  *)
(* deep may be better the next time, like one that cannot be unwound.      *)
do_backtrace(s, unwind) ==
  [err |-> IF unwind = "ok" /\ Len(s) - 1 > MAX_DEPTH + 1 THEN "EAGAIN" ELSE unwind,
   calls |-> SubSeq(s, 1, Len(s) - 1)]

(* A signal frame counts as being in every range. *)
bt_check_range(calls, start, end, strict) ==
  \E ip \in Range(calls) :
    \/ ip = SigReturn
    \/ strict /\ start <= ip /\ ip <= end
    \/ ~strict /\ start < ip /\ ip < end

(* Wrong backtrace_check_func: only the bytes of the jump count. *)
CheckJumpOnly(f, calls) ==
  bt_check_range(calls, Func[f].start, Func[f].start + JumpSize, FALSE)

backtrace_check_func(f, calls) ==
  bt_check_range(calls, Func[f].start, Func[f].start + Func[f].size, FALSE)

backtrace_check_range(calls, start, end) == bt_check_range(calls, start, end, TRUE)

jumps_check_backtrace(p, calls) == \E f \in Changes(p) : backtrace_check_func(f, calls)

(* Wrong patch_check_backtrace: the functions are checked, as for a patch. *)
CheckJumpsAlways(p, calls) == jumps_check_backtrace(p, calls)

patch_check_backtrace(p, calls) ==
  backtrace_check_range(calls, Patch[p].start, Patch[p].end)

(* task_check_stack, with the check that the command has chosen. *)
task_check_stack(t, unwind) ==
  LET bt == do_backtrace(stack[t], unwind)
      hit == IF op = "apply" THEN jumps_check_backtrace(patch, bt.calls)
             ELSE patch_check_backtrace(patch, bt.calls)
  IN  IF bt.err = "ok" /\ hit THEN "EAGAIN" ELSE bt.err

-----------------------------------------------------------------------------
(* process_suspend and the commands.                                       *)

Start ==
  /\ pc = "off"
  /\ \/ op' = "apply" /\ patch' \in Patches \ loaded
     \/ op' = "revert" /\ patch' \in loaded
  /\ pc' = "check"
  /\ try' = 0
  /\ UNCHANGED <<process, ret>>

(* process_check_stack ends with the first thread that is not fine, which  *)
(* may be any of them.  On EAGAIN the process runs until the next try; any *)
(* other error ends the command.                                           *)
process_check_stack ==
  /\ pc = "check"
  /\ \E unwind \in [Threads -> Unwinds] :
       \/ /\ \A t \in Threads : task_check_stack(t, unwind[t]) = "ok"
          /\ pc' = "caught"
          /\ UNCHANGED <<try, ret>>
       \/ /\ \E t \in Threads : task_check_stack(t, unwind[t]) = "EAGAIN"
          /\ try' = try + 1
          /\ \/ try' < Tries /\ pc' = "wait" /\ UNCHANGED ret
             \/ try' >= Tries /\ pc' = "off" /\ ret' = "ETIME"
       \/ /\ \E t \in Threads : task_check_stack(t, unwind[t]) = "error"
          /\ pc' = "off"
          /\ ret' = "error"
          /\ UNCHANGED try
  /\ UNCHANGED <<process, op, patch>>

Retry ==
  /\ pc = "wait"
  /\ pc' = "check"
  /\ UNCHANGED <<process, op, patch, try, ret>>

(* apply_func_jumps *)
Apply ==
  /\ pc = "caught" /\ op = "apply"
  /\ loaded' = loaded \union {patch}
  /\ code' = [f \in Funcs |-> IF f \in Changes(patch) THEN patch ELSE code[f]]
  /\ pc' = "off" /\ ret' = "ok"
  /\ UNCHANGED <<stack, op, patch, try>>

(* find_previous_func_jump: the last before p in the list of patches,      *)
(* which is in the order of their addresses.                               *)
find_previous_func_jump(p, f) ==
  LET before == {q \in loaded : f \in Changes(q) /\ Patch[q].start < Patch[p].start}
  IN  IF before = {} THEN Orig
      ELSE CHOOSE q \in before : \A r \in before : Patch[r].start <= Patch[q].start

(* revert_func_jump: a jump of another patch is left alone. *)
revert_func_jump(p, f) ==
  IF f \in Changes(p) /\ code[f] = p THEN find_previous_func_jump(p, f) ELSE code[f]

(* revert_dyn_binpatch *)
Revert ==
  /\ pc = "caught" /\ op = "revert"
  /\ code' = [f \in Funcs |-> revert_func_jump(patch, f)]
  /\ loaded' = loaded \ {patch}
  /\ pc' = "off" /\ ret' = "ok"
  /\ UNCHANGED <<stack, op, patch, try>>

-----------------------------------------------------------------------------
Init ==
  /\ stack = [t \in Threads |-> <<Main.start>>]
  /\ code = [f \in Funcs |-> Orig]
  /\ loaded = {}
  /\ pc = "off"
  /\ op = "none"
  /\ patch = Orig
  /\ try = 0
  /\ ret = "ok"

ThreadStep(t) == Step(t) \/ Call(t) \/ Return(t) \/ Signal(t)

NsbStep == Start \/ process_check_stack \/ Retry \/ Apply \/ Revert

Next == NsbStep \/ \E t \in Threads : ThreadStep(t)

Spec == Init /\ [][Next]_vars

-----------------------------------------------------------------------------
(* README.md, "to make sure that portions of code to be changed by the     *)
(* patch were not being executed": while the first bytes of a function are *)
(* a jump, no stack leads back into its old body, neither into the bytes   *)
(* that were overwritten nor after them.                                   *)
NoOldFrames ==
  \A f \in Funcs : code[f] # Orig =>
    \A t \in Threads : \A ip \in Range(stack[t]) :
      ~(Func[f].start < ip /\ ip < Func[f].start + Func[f].size)

(* backtrace_check_range, strict: no stack leads into a patch that is not  *)
(* mapped any more, and no function jumps to one.                          *)
NoUnmappedFrames ==
  \A p \in Patches \ loaded :
    /\ \A f \in Funcs : code[f] # p
    /\ \A t \in Threads : \A ip \in Range(stack[t]) :
         ~(Patch[p].start <= ip /\ ip < Patch[p].end)
=============================================================================
