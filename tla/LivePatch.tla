------------------------------ MODULE LivePatch ------------------------------
(***************************************************************************)
(* The life of binary patches in one process: what "nsb patch" and "nsb    *)
(* revert" (patcher/patch.c, the memory half of patcher/process.c and the  *)
(* mmap handler of plugins/service.c) do to the code and to the address    *)
(* space of the process, one remote write or system call at a time, while  *)
(* the threads of the process run between the commands.                    *)
(*                                                                         *)
(* nsb keeps no record of the patches it applied.  Every command rebuilds  *)
(* the list from the mappings of the process, in address order, so the     *)
(* whole persistent state is the process: the code at the entry of every   *)
(* function that some patch replaces, and the mapped segments of patches.  *)
(*                                                                         *)
(* Addresses are cells 1..N, a cell holds one segment.  A jump is the      *)
(* address of the executable segment (segment 0) it leads into.            *)
(***************************************************************************)
EXTENDS Integers, FiniteSets, Sequences

CONSTANTS
  Patches,   \* patch files, told apart by their build id
  Funcs,     \* functions of the targets that some patch replaces
  Libs,      \* target ELFs: executables and shared libraries
  Threads,   \* threads of the process
  N,         \* size of the range a 32 bit jump can reach, in cells
  Busy,      \* cells of that range that hold other mappings, at all times
  Jumps,     \* Jumps[p]: the func_jumps of patch p, in the order of the file
  MaxJumps,  \* bound on the number of func_jumps of a patch
  Size,      \* Size[p]: number of PT_LOAD segments of p
  Lib,       \* Lib[f]: the target ELF that f belongs to
  Target,    \* Target[p]: the ELF whose build id is p's target_bid
  Dlopened,  \* target ELFs that the process may close and open again
  Linked,    \* patches with at least one relocation or static reference
  DryRuns,   \* commands the user may run with --dry-run
  Modes,     \* of "plugin" and "no-plugin", those the user runs nsb in
  Faults,    \* what may go wrong, of FaultKinds
  None

FaultKinds == {"mmap", "munmap", "link", "poke", "tune", "crash"}

JumpSet(p) == {Jumps[p][j] : j \in 1..Len(Jumps[p])}

ASSUME ConstantsAssumption ==
  /\ N \in Nat
  /\ Busy \subseteq 1..N
  /\ Jumps \in [Patches -> Seq(Funcs)]
  /\ MaxJumps \in Nat
  /\ \A p \in Patches : Len(Jumps[p]) <= MaxJumps
  /\ Size \in [Patches -> Nat \ {0}]
  /\ Lib \in [Funcs -> Libs]
  /\ Target \in [Patches -> Libs]
  /\ \A p \in Patches : \A f \in JumpSet(p) : Lib[f] = Target[p]
  /\ Dlopened \subseteq Libs
  /\ Linked \subseteq Patches
  /\ DryRuns \subseteq {"patch", "revert"}
  /\ Modes \subseteq {"plugin", "no-plugin"}
  /\ Faults \subseteq FaultKinds
  /\ None \notin Patches

VARIABLES
  (* the process *)
  code,      \* code[f]: Original, Zeroed, or the address f jumps to
  segs,      \* segs[p]: the segments of p that are mapped
  base,      \* base[p]: address of segment 0 of p, mapped or about to be
  bound,     \* bound[p]: relocations and static references are in place
  loaded,    \* the target ELFs that are mapped
  inOld,     \* inOld[t]: functions that thread t is inside of
  inNew,     \* inNew[t]: addresses of the patches that thread t is inside of
  (* nsb *)
  pc,        \* the step nsb is about to take, "idle" when nsb is not running
  cmd,       \* its command line
  i,         \* the cursor of the loop it is in
  tuned,     \* tuned[p]: func_jumps of p that tune_patch_func_jumps finished
  ret        \* what the command is going to return

process == <<code, segs, base, bound, loaded, inOld, inNew>>
nsb == <<pc, cmd, i, tuned, ret>>
vars == <<process, nsb>>

Original == 0
Zeroed == -1

NoCommand == [op |-> "none", p |-> None, dry |-> FALSE, mode |-> "no-plugin"]

-----------------------------------------------------------------------------
(* The process is stopped from process_catch to process_resume. *)
Stopped == pc \notin {"idle", "suspend"}

(* The threads of the process: a call of f runs the code found at f.  Only *)
(* the set of places a thread has a frame in matters, not their order.     *)
Call(t, f) ==
  /\ ~Stopped
  /\ Lib[f] \in loaded
  /\ IF code[f] = Original
     THEN /\ inOld' = [inOld EXCEPT ![t] = @ \union {f}]
          /\ UNCHANGED inNew
     ELSE /\ inNew' = [inNew EXCEPT ![t] = @ \union {code[f]}]
          /\ UNCHANGED inOld
  /\ UNCHANGED <<code, segs, base, bound, loaded, nsb>>

Return(t) ==
  /\ ~Stopped
  /\ \/ \E f \in inOld[t] : inOld' = [inOld EXCEPT ![t] = @ \ {f}]
                            /\ UNCHANGED inNew
     \/ \E a \in inNew[t] : inNew' = [inNew EXCEPT ![t] = @ \ {a}]
                            /\ UNCHANGED inOld
  /\ UNCHANGED <<code, segs, base, bound, loaded, nsb>>

(* dlclose and dlopen of a target by the program itself: no thread is      *)
(* inside it or inside its replacement functions, and a library that is    *)
(* opened again has the code of its file.                                  *)
Dlclose(l) ==
  /\ ~Stopped
  /\ l \in loaded
  /\ \A t \in Threads :
       /\ \A f \in inOld[t] : Lib[f] # l
       /\ \A p \in Patches : Target[p] = l /\ 0 \in segs[p] => base[p] \notin inNew[t]
  /\ loaded' = loaded \ {l}
  /\ code' = [f \in Funcs |-> IF Lib[f] = l THEN Original ELSE code[f]]
  /\ UNCHANGED <<segs, base, bound, inOld, inNew, nsb>>

Dlopen(l) ==
  /\ ~Stopped
  /\ l \notin loaded
  /\ loaded' = loaded \union {l}
  /\ UNCHANGED <<code, segs, base, bound, inOld, inNew, nsb>>

-----------------------------------------------------------------------------
(* nsb check: find_patch_by_bid among the mappings.  Nothing is stopped.   *)
check_process(p) == segs[p] # {}

-----------------------------------------------------------------------------
(* nsb: start, stop at a safe point, end.                                  *)

Goto(label) == pc' = label

Start(c) ==
  /\ pc = "idle"
  /\ cmd' = c
  /\ Goto("suspend")
  /\ UNCHANGED <<process, i, tuned, ret>>

(* process_get_target_info: patch looks for the target, revert for the     *)
(* patch itself.                                                           *)
TargetFound ==
  IF cmd.op = "patch" THEN Target[cmd.p] \in loaded ELSE segs[cmd.p] # {}

(* Wrong process_check_stack: only the first func_jump is looked at. *)
SafePointFirstJump ==
  cmd.op = "patch" /\ Len(Jumps[cmd.p]) > 0 =>
    \A t \in Threads : Jumps[cmd.p][1] \notin inOld[t]

(* Wrong process_check_stack: revert does not look at the stacks. *)
SafePointPatchOnly ==
  cmd.op = "patch" =>
    \A t \in Threads : inOld[t] \intersect JumpSet(cmd.p) = {}

(* process_check_stack: patch wants no frame in a function it replaces,    *)
(* revert no frame in the first mapping of the patch.                      *)
SafePoint ==
  IF cmd.op = "patch"
  THEN \A t \in Threads : inOld[t] \intersect JumpSet(cmd.p) = {}
  ELSE \A t \in Threads, k \in segs[cmd.p] :
         (\A j \in segs[cmd.p] : k <= j) => base[cmd.p] + k \notin inNew[t]

(* tune_patch_func_jumps goes through n func_jumps of p; a failed read of  *)
(* the target's file ends it early and is not reported.                    *)
tune_patch_func_jumps(p, n) ==
  \/ n = Len(Jumps[p])
  \/ "tune" \in Faults /\ n < Len(Jumps[p])

(* process_suspend caught the process; process_collect_vmas then rebuilds  *)
(* the applied patches and tunes the func_jumps of each of them.           *)
Suspend ==
  /\ pc = "suspend"
  /\ TargetFound
  /\ SafePoint
  /\ tuned' \in [Patches -> 0..MaxJumps]
  /\ \A p \in Patches : tune_patch_func_jumps(p, tuned'[p])
  /\ Goto(IF cmd.op = "patch" THEN "prepare" ELSE "unjump")
  /\ i' = 1
  /\ ret' = "ok"
  /\ UNCHANGED <<process, cmd>>

(* The nsb process is gone, and its private state with it. *)
Exit ==
  /\ Goto("idle")
  /\ cmd' = NoCommand
  /\ i' = 0
  /\ tuned' = [p \in Patches |-> 0]
  /\ ret' = "none"

(* No target, no safe point in 25 tries, or a thread that cannot be stopped. *)
SuspendFails ==
  /\ pc = "suspend"
  /\ Exit
  /\ UNCHANGED process

(* process_resume, and the end of the command. *)
Resume ==
  /\ pc = "resume"
  /\ Exit
  /\ UNCHANGED process

(* nsb is killed.  Its threads are detached by the kernel and run on. *)
Crash ==
  /\ "crash" \in Faults
  /\ Stopped
  /\ Exit
  /\ UNCHANGED process

-----------------------------------------------------------------------------
(* nsb patch.                                                              *)

Fail(label) == Goto(label) /\ ret' = "fail"

(* The checks and look-ups that come before the first change of the        *)
(* process: process_find_patch refuses a patch that is mapped, and any of  *)
(* the service, the needed libraries, the symbols may not be found.        *)
PreparePatch ==
  /\ pc = "prepare"
  /\ \/ ~check_process(cmd.p) /\ Goto("pin") /\ UNCHANGED ret
     \/ Fail("resume")
  /\ UNCHANGED <<process, cmd, i, tuned>>

Cells(p) == {base[p] + k : k \in segs[p]}

Occupied == Busy \union UNION {Cells(q) : q \in Patches}

(* Wrong find_hole: only the room for the first segment is looked at. *)
HolesOneSegment(p) == {b \in (1..N) \ Occupied : b + Size[p] - 1 <= N}

(* Where all segments of p fit between the mappings of the process. *)
Holes(p) ==
  {b \in 1..N : \A k \in 0..(Size[p] - 1) : b + k \in (1..N) \ Occupied}

(* pin_elf_mmaps: the lowest hole that a jump from the target reaches. *)
PinPatch ==
  /\ pc = "pin"
  /\ \/ \E b \in Holes(cmd.p) :
          /\ \A c \in Holes(cmd.p) : b <= c
          /\ base' = [base EXCEPT ![cmd.p] = b]
          /\ Goto(IF cmd.dry THEN "link" ELSE "mmap")
          /\ i' = 0
          /\ UNCHANGED ret
     \/ /\ Holes(cmd.p) = {}
        /\ Fail("resume")
        /\ UNCHANGED <<base, i>>
  /\ UNCHANGED <<code, segs, bound, loaded, inOld, inNew, cmd, tuned>>

(* Wrong mmap: every segment goes one further. *)
MapFixedNext(p, S) == [segs EXCEPT ![p] = @ \union {k + 1 : k \in S}]

(* mmap with MAP_FIXED of the segments S of p: what was there is gone. *)
MapFixed(p, S) ==
  [q \in Patches |->
     IF q = p THEN segs[p] \union S
     ELSE {k \in segs[q] : base[q] + k \notin {base[p] + j : j \in S}}]

(* process_mmap_dlm_manual: one remote system call for each segment.  The  *)
(* descriptor of the patch file, which stays open in the process when one  *)
(* of them fails, is left out.                                             *)
MmapManual ==
  /\ pc = "mmap"
  /\ cmd.mode = "no-plugin"
  /\ \/ /\ i < Size[cmd.p]
        /\ segs' = MapFixed(cmd.p, {i})
        /\ i' = i + 1
        /\ UNCHANGED <<pc, ret>>
     \/ /\ "mmap" \in Faults
        /\ i < Size[cmd.p]
        /\ i' = i - 1
        /\ Fail("rollback")
        /\ UNCHANGED segs
     \/ /\ i = Size[cmd.p]
        /\ Goto("link")
        /\ UNCHANGED <<segs, i, ret>>
  /\ UNCHANGED <<code, base, bound, loaded, inOld, inNew, cmd, tuned>>

(* Wrong error path: the walk back misses the head of the circular list    *)
(* of segments and goes on with its last one.                              *)
RollbackPastHead ==
  /\ pc = "rollback"
  /\ segs' = [segs EXCEPT ![cmd.p] = @ \ {i}]
  /\ i' = IF i > 0 THEN i - 1 ELSE Size[cmd.p] - 1
  /\ UNCHANGED <<code, base, bound, loaded, inOld, inNew, pc, cmd, tuned, ret>>

(* Wrong error path: segment 0 stays. *)
RollbackKeepsFirst ==
  /\ pc = "rollback"
  /\ \/ i > 0 /\ segs' = [segs EXCEPT ![cmd.p] = @ \ {i}] /\ UNCHANGED pc
     \/ i <= 0 /\ Goto("resume") /\ UNCHANGED segs
  /\ i' = i - 1
  /\ UNCHANGED <<code, base, bound, loaded, inOld, inNew, cmd, tuned, ret>>

(* Its error path walks back over the segments that were mapped; a failed  *)
(* munmap is ignored.                                                      *)
RollbackManual ==
  /\ pc = "rollback"
  /\ \/ /\ i >= 0
        /\ \/ segs' = [segs EXCEPT ![cmd.p] = @ \ {i}]
           \/ "munmap" \in Faults /\ UNCHANGED segs
        /\ i' = i - 1
        /\ UNCHANGED pc
     \/ /\ i < 0
        /\ Goto("resume")
        /\ UNCHANGED <<segs, i>>
  /\ UNCHANGED <<code, base, bound, loaded, inOld, inNew, cmd, tuned, ret>>

(* nsb_service_cmd_mmap: the plugin maps all segments in one command.  It  *)
(* accepts two, and when the mapping number nr fails it unmaps the ones    *)
(* numbered nr down to 1.                                                  *)
MmapService ==
  /\ pc = "mmap"
  /\ cmd.mode = "plugin"
  /\ \/ /\ Size[cmd.p] = 2
        /\ segs' = MapFixed(cmd.p, 0..(Size[cmd.p] - 1))
        /\ Goto("link")
        /\ UNCHANGED ret
     \/ /\ Size[cmd.p] = 2
        /\ "mmap" \in Faults
        /\ \E nr \in 0..(Size[cmd.p] - 1) :
             segs' = MapFixed(cmd.p, (0..(nr - 1)) \ (1..nr))
        /\ Fail("resume")
     \/ /\ Size[cmd.p] # 2
        /\ Fail("resume")
        /\ UNCHANGED segs
  /\ UNCHANGED <<code, base, bound, loaded, inOld, inNew, cmd, i, tuned>>

(* Wrong linking: a failure of apply_relocations is ignored. *)
LinkPatchIgnoresError ==
  /\ pc = "link"
  /\ \/ bound' = [bound EXCEPT ![cmd.p] = ~cmd.dry]
     \/ cmd.p \in Linked /\ UNCHANGED bound
  /\ Goto("tune")
  /\ UNCHANGED <<code, segs, base, loaded, inOld, inNew, cmd, i, tuned, ret>>

(* apply_relocations and apply_static_refs: writes into the mapped patch.  *)
(* They do not look at dry_run, and fail when nothing was mapped.          *)
LinkPatch ==
  /\ pc = "link"
  /\ \/ /\ ~(cmd.dry /\ cmd.p \in Linked)
        /\ bound' = [bound EXCEPT ![cmd.p] = ~cmd.dry]
        /\ Goto("tune")
        /\ UNCHANGED ret
     \/ /\ cmd.p \in Linked
        /\ cmd.dry \/ "link" \in Faults
        /\ Fail("unload")
        /\ UNCHANGED bound
  /\ UNCHANGED <<code, segs, base, loaded, inOld, inNew, cmd, i, tuned>>

TuneJumps ==
  /\ pc = "tune"
  /\ \E n \in 0..MaxJumps :
       /\ tune_patch_func_jumps(cmd.p, n)
       /\ tuned' = [tuned EXCEPT ![cmd.p] = n]
  /\ Goto("jump")
  /\ i' = 1
  /\ UNCHANGED <<process, cmd, ret>>

(* write_func_jump for the func_jump i.  A func_jump after the one whose   *)
(* tuning failed has address 0, where nothing can be written; the first    *)
(* failed write ends the loop and is not reported.                         *)
ApplyJump ==
  /\ pc = "jump"
  /\ \/ /\ i <= Len(Jumps[cmd.p])
        /\ cmd.dry \/ i <= tuned[cmd.p] + 1
        /\ code' = IF cmd.dry THEN code
                   ELSE [code EXCEPT ![Jumps[cmd.p][i]] = base[cmd.p]]
        /\ i' = i + 1
        /\ UNCHANGED pc
     \/ /\ i <= Len(Jumps[cmd.p])
        /\ ~cmd.dry
        /\ i > tuned[cmd.p] + 1 \/ "poke" \in Faults
        /\ Goto("resume")
        /\ UNCHANGED <<code, i>>
     \/ /\ i > Len(Jumps[cmd.p])
        /\ Goto("resume")
        /\ UNCHANGED <<code, i>>
  /\ UNCHANGED <<segs, base, bound, loaded, inOld, inNew, cmd, tuned, ret>>

(* Wrong patch_unload: it ends after the first segment. *)
UnloadFirst ==
  /\ pc = "unload"
  /\ \/ cmd.dry /\ UNCHANGED <<segs, bound>>
     \/ /\ ~cmd.dry
        /\ segs' = [segs EXCEPT ![cmd.p] = {k \in @ : \E j \in @ : j < k}]
        /\ bound' = [bound EXCEPT ![cmd.p] = FALSE]
  /\ Goto("resume")
  /\ UNCHANGED <<code, base, loaded, inOld, inNew, cmd, i, tuned, ret>>

(* patch_unload, one segment after the other: the end of revert, and of a  *)
(* patch whose linking failed.                                             *)
Unload ==
  /\ pc = "unload"
  /\ \/ /\ cmd.dry \/ segs[cmd.p] = {}
        /\ Goto("resume")
        /\ UNCHANGED <<segs, bound, ret>>
     \/ /\ ~cmd.dry
        /\ \E k \in segs[cmd.p] :
             /\ \A j \in segs[cmd.p] : k <= j
             /\ segs' = [segs EXCEPT ![cmd.p] = @ \ {k}]
        /\ bound' = [bound EXCEPT ![cmd.p] = FALSE]
        /\ UNCHANGED <<pc, ret>>
     \/ /\ ~cmd.dry
        /\ segs[cmd.p] # {}
        /\ "munmap" \in Faults
        /\ Fail("resume")
        /\ UNCHANGED <<segs, bound>>
  /\ UNCHANGED <<code, base, loaded, inOld, inNew, cmd, i, tuned>>

-----------------------------------------------------------------------------
(* nsb revert.                                                             *)

(* create_patch_by_dlm gives addresses to the func_jumps of a patch whose  *)
(* target and executable segment are mapped, up to the first whose tuning  *)
(* failed: that one has an address, but not the original code.             *)
HasAddress(p, j) ==
  /\ Target[p] \in loaded
  /\ 0 \in segs[p]
  /\ j <= tuned[p] + 1

(* Wrong find_previous_func_jump: the walk starts at the head of the list. *)
PreviousFirst(p, f) ==
  LET Below == {q \in Patches : /\ segs[q] # {}
                                /\ base[q] < base[p]
                                /\ f \in JumpSet(q)}
  IN  {q \in Below : \A r \in Below : base[q] <= base[r]}

(* find_previous_func_jump: the patches before p in the list of applied    *)
(* patches, which is in address order, that replace f too.                 *)
Previous(p, f) ==
  {q \in Patches : /\ segs[q] # {}
                   /\ base[q] < base[p]
                   /\ Target[q] = Target[p]
                   /\ \E j \in 1..Len(Jumps[q]) :
                        Jumps[q][j] = f /\ HasAddress(q, j)}

(* revert_func_jump for the func_jump i.  A jump that is not the one of    *)
(* this patch stays.  The jump of the previous patch is written back, or   *)
(* the original code (write_func_code, which does not look at dry_run).    *)
(* The first failed access ends the loop and is not reported.              *)
RevertJump ==
  LET p == cmd.p
      f == Jumps[p][i]
      prev == Previous(p, f)
  IN
  /\ pc = "unjump"
  /\ Target[p] \in loaded
  /\ i <= Len(Jumps[p])
  /\ \/ /\ ~HasAddress(p, i) \/ code[f] # base[p]
        /\ i' = i + 1
        /\ UNCHANGED <<code, pc>>
     \/ /\ HasAddress(p, i) /\ code[f] = base[p]
        /\ \E q \in prev :
             /\ \A r \in prev : base[r] <= base[q]
             /\ code' = IF cmd.dry THEN code
                        ELSE [code EXCEPT ![f] = base[q]]
        /\ i' = i + 1
        /\ UNCHANGED pc
     \/ /\ HasAddress(p, i) /\ code[f] = base[p]
        /\ prev = {}
        /\ code' = [code EXCEPT ![f] =
                      IF i <= tuned[p] THEN Original ELSE Zeroed]
        /\ i' = i + 1
        /\ UNCHANGED pc
     \/ /\ HasAddress(p, i)
        /\ "poke" \in Faults
        /\ Goto("unload")
        /\ UNCHANGED <<code, i>>
  /\ UNCHANGED <<segs, base, bound, loaded, inOld, inNew, cmd, tuned, ret>>

(* Wrong loop: the last func_jump is left out. *)
RevertJumpsDoneEarly ==
  /\ pc = "unjump"
  /\ Target[cmd.p] \notin loaded \/ i >= Len(Jumps[cmd.p])
  /\ Goto("unload")
  /\ UNCHANGED <<process, cmd, i, tuned, ret>>

(* All func_jumps were visited, or the target is gone and there are none.  *)
RevertJumpsDone ==
  /\ pc = "unjump"
  /\ Target[cmd.p] \notin loaded \/ i > Len(Jumps[cmd.p])
  /\ Goto("unload")
  /\ UNCHANGED <<process, cmd, i, tuned, ret>>

-----------------------------------------------------------------------------
Init ==
  /\ code = [f \in Funcs |-> Original]
  /\ segs = [p \in Patches |-> {}]
  /\ base = [p \in Patches |-> 0]
  /\ bound = [p \in Patches |-> FALSE]
  /\ loaded = Libs
  /\ inOld = [t \in Threads |-> {}]
  /\ inNew = [t \in Threads |-> {}]
  /\ pc = "idle"
  /\ cmd = NoCommand
  /\ i = 0
  /\ tuned = [p \in Patches |-> 0]
  /\ ret = "none"

Commands ==
  [op : {"patch"}, p : Patches, dry : {FALSE}, mode : Modes]
    \union [op : {"revert"}, p : Patches, dry : {FALSE}, mode : {"no-plugin"}]
    \union [op : {"patch"} \intersect DryRuns, p : Patches, dry : {TRUE},
            mode : Modes]
    \union [op : {"revert"} \intersect DryRuns, p : Patches, dry : {TRUE},
            mode : {"no-plugin"}]

(* The steps nsb takes by itself once it runs. *)
NsbStep ==
  \/ Suspend \/ SuspendFails \/ Resume
  \/ PreparePatch \/ PinPatch \/ MmapManual \/ RollbackManual \/ MmapService
  \/ LinkPatch \/ TuneJumps \/ ApplyJump \/ Unload
  \/ RevertJump \/ RevertJumpsDone

ProcessStep ==
  \/ \E t \in Threads, f \in Funcs : Call(t, f)
  \/ \E t \in Threads : Return(t)
  \/ \E l \in Dlopened : Dlclose(l)
  \/ \E l \in Dlopened : Dlopen(l)

Next ==
  \/ \E c \in Commands : Start(c)
  \/ NsbStep
  \/ Crash
  \/ ProcessStep

Spec == Init /\ [][Next]_vars

(* patch_process injects the plugin by running dlopen in a thread of the   *)
(* stopped process.  That call need not return: it may want a lock that    *)
(* the thread itself, or another stopped one, holds.                       *)
InDlopen == pc = "prepare" /\ cmd.mode = "plugin"

(* nsb takes its next step unless that is to return from the dlopen call:  *)
(* every loop in it is bounded, and other remote calls wait for nobody     *)
(* (CommandEnds of Service, for the calls of the plugin; the dlclose call  *)
(* takes the locks that the dlopen call found free, as all threads have    *)
(* been stopped since).                                                    *)
FairSpec == Spec /\ WF_vars(~InDlopen /\ NsbStep)

-----------------------------------------------------------------------------
(* The values the variables take. *)
TypeOK ==
  /\ code \in [Funcs -> {Zeroed, Original} \union 1..N]
  /\ segs \in [Patches -> SUBSET Nat]
  /\ \A p \in Patches : segs[p] \subseteq 0..(Size[p] - 1)
  /\ base \in [Patches -> 0..N]
  /\ bound \in [Patches -> BOOLEAN]
  /\ loaded \subseteq Libs
  /\ inOld \in [Threads -> SUBSET Funcs]
  /\ inNew \in [Threads -> SUBSET ({Zeroed} \union 1..N)]
  /\ pc \in {"idle", "suspend", "prepare", "pin", "mmap", "rollback", "link",
             "tune", "jump", "unjump", "unload", "resume"}
  /\ cmd \in Commands \union {NoCommand}
  /\ pc # "idle" => cmd \in Commands
  /\ i \in Int
  /\ tuned \in [Patches -> 0..MaxJumps]
  /\ ret \in {"none", "ok", "fail"}

(* No thread is ever inside a function whose entry has been overwritten:   *)
(* process_check_stack lets patch go on only outside the functions it      *)
(* replaces, and the jump keeps threads out from then on.  Whatever fails. *)
RedirectedFunctionsIdle ==
  \A t \in Threads : \A f \in inOld[t] : code[f] = Original

(* A jump leads into the mapped executable segment of a patch that         *)
(* replaces that function, at every step and after a crash at any step:    *)
(* patch maps before it writes jumps, revert rewrites every jump before it *)
(* unmaps, and no patch is mapped over another one.                        *)
NoDanglingJump ==
  \A f \in Funcs : code[f] # Original =>
    \E p \in Patches : f \in JumpSet(p) /\ 0 \in segs[p] /\ base[p] = code[f]

(* A thread has frames in mapped code only: revert unmaps a patch after    *)
(* process_check_stack found no frame in it and while nothing runs.        *)
NoStrayFrame ==
  \A t \in Threads : \A a \in inNew[t] :
    \E p \in Patches : 0 \in segs[p] /\ base[p] = a

(* Loading a patch (process_find_place_for_elf, then mmap with MAP_FIXED)  *)
(* and unloading it leave the mappings of every other patch alone.         *)
OtherPatchesKept ==
  [][\A q \in Patches : q # cmd.p => segs'[q] = segs[q]]_vars

(* A revert that succeeds leaves nothing of the patch, neither mappings    *)
(* nor jumps, also of one that an earlier nsb left half mapped or half     *)
(* applied when it was killed: find_patch_by_bid, revert_func_jump and     *)
(* patch_unload go by what they find in the process.                       *)
RevertRecovers ==
  pc = "resume" /\ cmd.op = "revert" /\ ~cmd.dry /\ ret = "ok" =>
    /\ segs[cmd.p] = {}
    /\ \A f \in Funcs : code[f] # Original =>
         \E q \in Patches \ {cmd.p} :
           f \in JumpSet(q) /\ 0 \in segs[q] /\ base[q] = code[f]

(* While the process runs, jumps lead to patches that are completely       *)
(* mapped and whose relocations and static references are in place.        *)
JumpsLeadToBoundPatches ==
  ~Stopped =>
    \A f \in Funcs, p \in Patches :
      f \in JumpSet(p) /\ 0 \in segs[p] /\ code[f] = base[p] =>
        bound[p] /\ segs[p] = 0..(Size[p] - 1)

(* main.c, "check - check whether patch is applied to process":            *)
(* check_process finds a patch by any mapping of it; when it does, while   *)
(* no command is under way, the patch is linked and none of the functions  *)
(* it replaces runs its original code.                                     *)
CheckReportsApplied ==
  ~Stopped =>
    \A p \in Patches : check_process(p) =>
      bound[p] /\ \A f \in JumpSet(p) : code[f] # Original

(* main.c, "--dry-run - Do not perform any actual changes to process": a   *)
(* command with dry_run set writes no code and changes no mapping.         *)
DryRunChangesNothing ==
  [][cmd.dry => UNCHANGED <<code, segs>>]_vars

(* A process that nsb stopped is let go again, whatever fails and however  *)
(* much there is to undo: by process_resume, or because nsb is killed.     *)
(* The exception is a process in the dlopen call of the plugin, which may  *)
(* not return; once it has, the process is let go.                         *)
ProcessResumed == Stopped /\ ~InDlopen ~> ~Stopped
=============================================================================
