-------------------------- MODULE LivePatchProofs ---------------------------
(***************************************************************************)
(* Proofs about LivePatch, for every set of patches, functions and threads *)
(* and every size of the address range.                                    *)
(*                                                                         *)
(* Whatever fails, it is well typed, a patch is never mapped over another  *)
(* one, and no thread is inside a function whose entry is overwritten.     *)
(* When the reads and writes of the two loops over the func_jumps succeed, *)
(* jumps and frames lead to patches that are mapped, and as a whole, and a *)
(* revert leaves nothing.                                                  *)
(***************************************************************************)
EXTENDS LivePatch, TLAPS

(* The cursors of the loops start at the first segment and func_jump. *)
TypeInv ==
  /\ TypeOK
  /\ pc = "mmap" => i >= 0
  /\ pc \in {"jump", "unjump"} => i >= 1

-----------------------------------------------------------------------------
(* What main.c can pass to patch_process and unpatch_process. *)
LEMMA CommandFields ==
  \A c \in Commands :
    /\ c.p \in Patches
    /\ c.op \in {"patch", "revert"}
    /\ c.dry \in BOOLEAN
    /\ c.mode \in {"plugin", "no-plugin"}
BY ConstantsAssumption, Zenon DEF Commands

(* The state of a fresh process, not patched, is typed. *)
LEMMA TypeInit == Init => TypeInv
BY ConstantsAssumption
DEF Init, TypeInv, TypeOK, Original, Zeroed, NoCommand

(* The steps of the process, and the start and end of a command. *)
LEMMA TypeOutside ==
  ASSUME TypeInv,
         \/ ProcessStep \/ \E c \in Commands : Start(c)
         \/ Suspend \/ SuspendFails \/ Resume \/ Crash
  PROVE  TypeInv'
<1> USE DEF process, nsb, Goto
<1>0. /\ code \in [Funcs -> {Zeroed, Original} \union 1..N]
      /\ inOld \in [Threads -> SUBSET Funcs]
      /\ inNew \in [Threads -> SUBSET ({Zeroed} \union 1..N)]
  BY Zenon DEF TypeInv, TypeOK
<1>1. ASSUME NEW t \in Threads, NEW f \in Funcs, Call(t, f)
      PROVE  TypeInv'
  <2>1. CASE code[f] = Original
    <3>1. inOld' = [inOld EXCEPT ![t] = @ \union {f}] /\ inNew' = inNew
      BY <1>1, <2>1, Zenon DEF Call
    <3>2. inOld' \in [Threads -> SUBSET Funcs]
      BY <1>0, <3>1, Zenon
    <3> QED
      BY <1>1, <3>1, <3>2, Zenon DEF Call, TypeInv, TypeOK
  <2>2. CASE code[f] # Original
    <3>1. inNew' = [inNew EXCEPT ![t] = @ \union {code[f]}] /\ inOld' = inOld
      BY <1>1, <2>2, Zenon DEF Call
    <3>2. code[f] \in {Zeroed} \union 1..N
      BY <1>0, <2>2, Zenon
    <3>3. inNew' \in [Threads -> SUBSET ({Zeroed} \union 1..N)]
      BY <1>0, <3>1, <3>2, Zenon
    <3> QED
      BY <1>1, <3>1, <3>3, Zenon DEF Call, TypeInv, TypeOK
  <2> QED
    BY <2>1, <2>2, Zenon
<1>2. ASSUME NEW t \in Threads, Return(t)
      PROVE  TypeInv'
  <2>1. /\ inOld' = inOld \/ \E f \in inOld[t] : inOld' = [inOld EXCEPT ![t] = @ \ {f}]
        /\ inNew' = inNew \/ \E a \in inNew[t] : inNew' = [inNew EXCEPT ![t] = @ \ {a}]
    BY <1>2, Zenon DEF Return
  <2>2. inOld' \in [Threads -> SUBSET Funcs]
    BY <1>0, <2>1, Zenon
  <2>3. inNew' \in [Threads -> SUBSET ({Zeroed} \union 1..N)]
    BY <1>0, <2>1, Zenon
  <2> QED
    BY <1>2, <2>2, <2>3, Zenon DEF Return, TypeInv, TypeOK
<1>3. ASSUME NEW l \in Dlopened, Dlclose(l)
      PROVE  TypeInv'
  <2>1. code' \in [Funcs -> {Zeroed, Original} \union 1..N]
    BY <1>0, <1>3, Zenon DEF Dlclose
  <2> QED
    BY <1>3, <2>1, Zenon DEF Dlclose, TypeInv, TypeOK
<1>4. ASSUME NEW l \in Dlopened, Dlopen(l)
      PROVE  TypeInv'
  BY <1>4, ConstantsAssumption, Zenon DEF Dlopen, TypeInv, TypeOK
<1>5. ASSUME NEW c \in Commands, Start(c)
      PROVE  TypeInv'
  BY <1>5, Zenon DEF Start, TypeInv, TypeOK
<1>6. CASE Suspend
  BY <1>6 DEF Suspend, TypeInv, TypeOK
<1>7. CASE SuspendFails \/ Resume \/ Crash
  BY <1>7, ConstantsAssumption
  DEF SuspendFails, Resume, Crash, Exit, NoCommand, TypeInv, TypeOK
<1> QED
  BY <1>1, <1>2, <1>3, <1>4, <1>5, <1>6, <1>7, Zenon DEF ProcessStep

(* mmap with MAP_FIXED adds segments to one patch, and only removes some   *)
(* of the others.                                                          *)
LEMMA MapFixedType ==
  ASSUME segs \in [Patches -> SUBSET Nat],
         NEW p \in Patches, NEW S \in SUBSET Nat
  PROVE  /\ MapFixed(p, S) \in [Patches -> SUBSET Nat]
         /\ MapFixed(p, S)[p] = segs[p] \union S
         /\ \A q \in Patches \ {p} : MapFixed(p, S)[q] \subseteq segs[q]
BY Zenon DEF MapFixed

(* The steps between process_catch and process_resume. *)
LEMMA TypeInside ==
  ASSUME TypeInv,
         \/ PreparePatch \/ PinPatch \/ MmapManual \/ RollbackManual
         \/ MmapService \/ LinkPatch \/ TuneJumps \/ ApplyJump \/ Unload
         \/ RevertJump \/ RevertJumpsDone
  PROVE  TypeInv'
<1> DEFINE p == cmd.p
<1> USE DEF process, Goto, Fail
<1>0. /\ p \in Patches /\ cmd.dry \in BOOLEAN
      /\ code \in [Funcs -> {Zeroed, Original} \union 1..N]
      /\ segs \in [Patches -> SUBSET Nat]
      /\ \A q \in Patches : segs[q] \subseteq 0..(Size[q] - 1)
      /\ base \in [Patches -> 0..N]
      /\ i \in Int
      /\ pc = "mmap" => i >= 0
      /\ bound \in [Patches -> BOOLEAN]
      /\ tuned \in [Patches -> 0..MaxJumps]
      /\ N \in Nat
      /\ Size[p] \in Nat \ {0}
  <2>1. pc # "idle"
    BY Zenon DEF PreparePatch, PinPatch, MmapManual, RollbackManual, MmapService,
       LinkPatch, TuneJumps, ApplyJump, Unload, RevertJump, RevertJumpsDone
  <2> QED
    BY <2>1, CommandFields, ConstantsAssumption, Zenon DEF TypeInv, TypeOK
<1>1. CASE PreparePatch
  BY <1>1, Zenon DEF PreparePatch, TypeInv, TypeOK
<1>2. CASE PinPatch
  <2>1. base' = base \/ \E b \in 0..N : base' = [base EXCEPT ![p] = b]
    BY <1>0, <1>2 DEF PinPatch, Holes
  <2>2. base' \in [Patches -> 0..N]
    BY <1>0, <2>1, Zenon
  <2> QED
    BY <1>2, <2>2 DEF PinPatch, TypeInv, TypeOK
<1>3. CASE MmapManual
  <2>1. \/ segs' = segs
        \/ i \in 0..(Size[p] - 1) /\ segs' = MapFixed(p, {i})
    BY <1>0, <1>3 DEF MmapManual
  <2>2. /\ segs' \in [Patches -> SUBSET Nat]
        /\ \A q \in Patches : segs'[q] \subseteq 0..(Size[q] - 1)
    <3>1. CASE i \in 0..(Size[p] - 1) /\ segs' = MapFixed(p, {i})
      <4>1. {i} \in SUBSET Nat /\ {i} \subseteq 0..(Size[p] - 1)
        BY <3>1
      <4> QED
        BY <1>0, <3>1, <4>1, MapFixedType
    <3> QED
      BY <1>0, <2>1, <3>1, Zenon
  <2> QED
    BY <1>0, <1>3, <2>2 DEF MmapManual, TypeInv, TypeOK
<1>4. CASE RollbackManual
  <2>1. segs' = segs \/ segs' = [segs EXCEPT ![p] = @ \ {i}]
    BY <1>4, Zenon DEF RollbackManual
  <2>2. /\ segs' \in [Patches -> SUBSET Nat]
        /\ \A q \in Patches : segs'[q] \subseteq segs[q]
    BY <1>0, <2>1, Zenon
  <2> QED
    BY <1>0, <1>4, <2>2 DEF RollbackManual, TypeInv, TypeOK
<1>5. CASE MmapService
  <2>1. ASSUME NEW nr \in 0..(Size[p] - 1)
        PROVE  (0..(nr - 1)) \ (1..nr) \in SUBSET (0..(Size[p] - 1))
    BY <1>0
  <2>2. segs' = segs \/ \E S \in SUBSET (0..(Size[p] - 1)) : segs' = MapFixed(p, S)
    BY <1>5, <2>1, Zenon DEF MmapService
  <2>3. /\ segs' \in [Patches -> SUBSET Nat]
        /\ \A q \in Patches : segs'[q] \subseteq 0..(Size[q] - 1)
    <3>1. ASSUME NEW S \in SUBSET (0..(Size[p] - 1)), segs' = MapFixed(p, S)
          PROVE  <2>3!:
      <4>1. S \in SUBSET Nat
        BY <1>0
      <4> QED
        BY <1>0, <3>1, <4>1, MapFixedType
    <3> QED
      BY <1>0, <2>2, <3>1, Zenon
  <2> QED
    BY <1>5, <2>3, Zenon DEF MmapService, TypeInv, TypeOK
<1>6. CASE LinkPatch
  <2>1. bound' = bound \/ bound' = [bound EXCEPT ![p] = ~cmd.dry]
    BY <1>6, Zenon DEF LinkPatch
  <2>2. bound' \in [Patches -> BOOLEAN]
    BY <1>0, <2>1, Zenon
  <2> QED
    BY <1>6, <2>2, Zenon DEF LinkPatch, TypeInv, TypeOK
<1>7. CASE TuneJumps
  <2>1. tuned' \in [Patches -> 0..MaxJumps]
    BY <1>0, <1>7, Zenon DEF TuneJumps
  <2> QED
    BY <1>7, <2>1 DEF TuneJumps, TypeInv, TypeOK
<1>8. CASE ApplyJump
  <2>1. base[p] \in {Zeroed, Original} \union 1..N
    BY <1>0 DEF Original
  <2>2. code' \in [Funcs -> {Zeroed, Original} \union 1..N]
    BY <1>0, <1>8, <2>1, Zenon DEF ApplyJump
  <2> QED
    BY <1>0, <1>8, <2>2 DEF ApplyJump, TypeInv, TypeOK
<1>9. CASE Unload
  <2>1. segs' = segs \/ \E k \in segs[p] : segs' = [segs EXCEPT ![p] = @ \ {k}]
    BY <1>9, Zenon DEF Unload
  <2>2. /\ segs' \in [Patches -> SUBSET Nat]
        /\ \A q \in Patches : segs'[q] \subseteq segs[q]
    BY <1>0, <2>1, Zenon
  <2>3. bound' \in [Patches -> BOOLEAN]
    BY <1>0, <1>9, Zenon DEF Unload
  <2> QED
    BY <1>9, <2>2, <2>3, Zenon DEF Unload, TypeInv, TypeOK
<1>10. CASE RevertJump
  <2> DEFINE f == Jumps[p][i]
  <2>1. \/ code' = code
        \/ \E q \in Previous(p, f) : code' = [code EXCEPT ![f] = base[q]]
        \/ \E v \in {Original, Zeroed} : code' = [code EXCEPT ![f] = v]
    BY <1>10, Zenon DEF RevertJump
  <2>2. \A q \in Previous(p, f) : base[q] \in {Zeroed, Original} \union 1..N
    BY <1>0 DEF Previous, Original
  <2>3. code' \in [Funcs -> {Zeroed, Original} \union 1..N]
    BY <1>0, <2>1, <2>2, Zenon
  <2>4. /\ UNCHANGED <<segs, base, bound, loaded, inOld, inNew, cmd, tuned, ret>>
        /\ pc = "unjump" /\ pc' \in {"unjump", "unload"}
        /\ i' \in {i, i + 1}
    BY <1>10, Zenon DEF RevertJump
  <2> QED
    BY <1>0, <2>3, <2>4 DEF TypeInv, TypeOK
<1>11. CASE RevertJumpsDone
  BY <1>11, Zenon DEF RevertJumpsDone, TypeInv, TypeOK
<1> QED
  BY <1>1, <1>2, <1>3, <1>4, <1>5, <1>6, <1>7, <1>8, <1>9, <1>10, <1>11, Zenon

(* Every step of nsb and of the process keeps the types. *)
LEMMA TypeStep == TypeInv /\ [Next]_vars => TypeInv'
<1>1. CASE UNCHANGED vars
  BY <1>1, Zenon DEF TypeInv, TypeOK, vars, process, nsb
<1> QED
  BY <1>1, TypeOutside, TypeInside, Zenon DEF Next, NsbStep

(* Every value nsb writes or computes has its type: it maps no more        *)
(* segments than the patch has, places them in reach and writes only       *)
(* addresses of patches or original code.                                  *)
THEOREM Typed == Spec => []TypeOK
<1>1. TypeInv => TypeOK
  BY Zenon DEF TypeInv
<1> QED
  BY <1>1, TypeInit, TypeStep, PTL DEF Spec

-----------------------------------------------------------------------------
(* Where nsb is between process_catch and the first or the last change. *)
PatchSteps == {"prepare", "pin", "mmap", "rollback", "link", "tune", "jump"}
PlacedSteps == {"mmap", "rollback", "link", "tune", "jump"}

(* No segment of another patch is in the range that p was placed in. *)
Reserved(p) ==
  \A q \in Patches \ {p} : \A k \in segs[q], j \in 0..(Size[p] - 1) :
    base[q] + k # base[p] + j

(* Mapped patches have an address and share no cell; the place found for   *)
(* the patch that is being loaded stays free until it is mapped.           *)
PlaceInv ==
  /\ \A p \in Patches : segs[p] # {} => base[p] >= 1
  /\ pc \in PlacedSteps => base[cmd.p] >= 1
  /\ pc = "pin" => segs[cmd.p] = {}
  /\ pc = "mmap" => Reserved(cmd.p)
  /\ \A p, q \in Patches : p # q =>
       \A k \in segs[p], j \in segs[q] : base[p] + k # base[q] + j

(* The functions of a patch that is being applied stay idle. *)
IdleInv ==
  /\ RedirectedFunctionsIdle
  /\ pc \in PatchSteps => \A t \in Threads : \A f \in inOld[t] : f \notin JumpSet(cmd.p)

-----------------------------------------------------------------------------
(* Mapping segments of a patch where it was placed adds them to it and     *)
(* takes nothing from another patch, MAP_FIXED or not.                     *)
LEMMA MapFixedReserved ==
  ASSUME TypeInv, PlaceInv, pc = "mmap",
         NEW S \in SUBSET (0..(Size[cmd.p] - 1))
  PROVE  MapFixed(cmd.p, S) = [segs EXCEPT ![cmd.p] = @ \union S]
<1>1. cmd.p \in Patches /\ segs \in [Patches -> SUBSET Nat]
  BY CommandFields, Zenon DEF TypeInv, TypeOK
<1>2. ASSUME NEW q \in Patches \ {cmd.p}
      PROVE  {k \in segs[q] : base[q] + k \notin {base[cmd.p] + j : j \in S}} = segs[q]
  <2>1. \A k \in segs[q] : base[q] + k \notin {base[cmd.p] + j : j \in S}
    BY Zenon DEF PlaceInv, Reserved
  <2> QED
    BY <2>1, Zenon
<1> QED
  BY <1>1, <1>2, Zenon DEF MapFixed

(* A fresh process has no patch, so no two of them share a cell. *)
LEMMA PlaceInit == Init => PlaceInv
BY Zenon DEF Init, PlaceInv, PlacedSteps

(* The mappings are changed by four actions only, and always those of the  *)
(* patch of the command.                                                   *)
LEMMA PlaceMap ==
  ASSUME TypeInv, PlaceInv, MmapManual \/ MmapService
  PROVE  /\ PlaceInv'
         /\ \E S \in SUBSET (0..(Size[cmd.p] - 1)) :
              segs' = [segs EXCEPT ![cmd.p] = @ \union S]
<1> DEFINE p == cmd.p
<1>1. /\ pc = "mmap" /\ UNCHANGED <<base, cmd>>
      /\ pc' \in {"mmap", "rollback", "link", "resume"}
  BY Zenon DEF MmapManual, MmapService, Goto, Fail
<1>2. p \in Patches /\ Size[p] \in Nat \ {0}
  BY <1>1, CommandFields, ConstantsAssumption, Zenon DEF TypeInv, TypeOK
<1>3. \E S \in SUBSET (0..(Size[p] - 1)) : segs' = segs \/ segs' = MapFixed(p, S)
  <2>1. CASE MmapManual
    <3>1. i >= 0 /\ i \in Int
      BY <1>1, Zenon DEF TypeInv, TypeOK
    <3>2. segs' = segs \/ (i < Size[p] /\ segs' = MapFixed(p, {i}))
      BY <2>1, Zenon DEF MmapManual
    <3>3. i < Size[p] => {i} \in SUBSET (0..(Size[p] - 1))
      BY <1>2, <3>1
    <3> QED
      BY <3>2, <3>3, Zenon
  <2>2. CASE MmapService
    <3>1. \/ segs' = segs
          \/ segs' = MapFixed(p, 0..(Size[p] - 1))
          \/ \E nr \in 0..(Size[p] - 1) : segs' = MapFixed(p, (0..(nr - 1)) \ (1..nr))
      BY <2>2, Zenon DEF MmapService
    <3>2. \A nr \in 0..(Size[p] - 1) :
            (0..(nr - 1)) \ (1..nr) \in SUBSET (0..(Size[p] - 1))
      BY <1>2
    <3> QED
      BY <3>1, <3>2, Zenon
  <2> QED
    BY <2>1, <2>2, Zenon
<1>4. PICK S \in SUBSET (0..(Size[p] - 1)) : segs' = [segs EXCEPT ![p] = @ \union S]
  <2>1. segs = [segs EXCEPT ![p] = @ \union {}]
    BY <1>2, Zenon DEF TypeInv, TypeOK
  <2> QED
    BY <1>1, <1>3, <2>1, MapFixedReserved, Zenon
<1>5. /\ segs \in [Patches -> SUBSET Nat]
      /\ segs'[p] = segs[p] \union S
      /\ \A q \in Patches \ {p} : segs'[q] = segs[q]
  BY <1>2, <1>4, Zenon DEF TypeInv, TypeOK
<1>6. base \in [Patches -> 0..N] /\ base[p] >= 1 /\ Reserved(p)
  BY <1>1, Zenon DEF TypeInv, TypeOK, PlaceInv, PlacedSteps
<1>7. Reserved(p)'
  BY <1>1, <1>2, <1>5, <1>6 DEF Reserved
<1>8. \A k \in segs'[p], q \in Patches \ {p} : \A j \in segs'[q] : base[p] + k # base[q] + j
  <2>1. ASSUME NEW k \in segs[p], NEW q \in Patches \ {p}, NEW j \in segs[q]
        PROVE  base[p] + k # base[q] + j
    BY <1>2, Zenon DEF PlaceInv
  <2>2. ASSUME NEW k \in S, NEW q \in Patches \ {p}, NEW j \in segs[q]
        PROVE  base[p] + k # base[q] + j
    BY <1>6, Zenon DEF Reserved
  <2> QED
    BY <1>5, <2>1, <2>2, Zenon
<1>9. \A q, r \in Patches : q # r =>
        \A k \in segs'[q], j \in segs'[r] : base'[q] + k # base'[r] + j
  <2>1. ASSUME NEW q \in Patches \ {p}, NEW r \in Patches \ {p}, q # r,
               NEW k \in segs[q], NEW j \in segs[r]
        PROVE  base[q] + k # base[r] + j
    BY <2>1, Zenon DEF PlaceInv
  <2> QED
    BY <1>1, <1>5, <1>8, <2>1
<1>10. \A q \in Patches : segs'[q] # {} => base'[q] >= 1
  BY <1>1, <1>5, <1>6, Zenon DEF PlaceInv
<1> QED
  BY <1>1, <1>4, <1>6, <1>7, <1>9, <1>10, Zenon DEF PlaceInv, PlacedSteps

(* Unmapping segments, of a failed load or of a reverted patch. *)
LEMMA PlaceUnmap ==
  ASSUME TypeInv, PlaceInv, RollbackManual \/ Unload
  PROVE  /\ PlaceInv'
         /\ segs' = segs \/ \E k \in Int : segs' = [segs EXCEPT ![cmd.p] = @ \ {k}]
<1> DEFINE p == cmd.p
<1>1. /\ pc \in {"rollback", "unload"} /\ UNCHANGED <<base, cmd>>
      /\ pc' \in {pc, "resume"}
  BY Zenon DEF RollbackManual, Unload, Goto, Fail
<1>2. segs' = segs \/ \E k \in Int : segs' = [segs EXCEPT ![p] = @ \ {k}]
  <2>1. i \in Int
    BY Zenon DEF TypeInv, TypeOK
  <2>2. p \in Patches => segs[p] \subseteq Int
    BY DEF TypeInv, TypeOK
  <2>3. p \in Patches
    BY <1>1, CommandFields, Zenon DEF TypeInv, TypeOK
  <2> QED
    BY <2>1, <2>2, <2>3, Zenon DEF RollbackManual, Unload
<1>3. \A q \in Patches : segs'[q] \subseteq segs[q]
  BY <1>2, Zenon DEF TypeInv, TypeOK
<1> QED
  BY <1>1, <1>2, <1>3 DEF PlaceInv, PlacedSteps

(* Placing a patch: its cells are free, and it has none yet. *)
LEMMA PlacePin ==
  ASSUME TypeInv, PlaceInv, PinPatch
  PROVE  PlaceInv'
<1> DEFINE p == cmd.p
<1>1. pc = "pin" /\ segs[p] = {} /\ p \in Patches /\ UNCHANGED <<segs, cmd>>
  BY CommandFields, Zenon DEF PinPatch, PlaceInv, TypeInv, TypeOK
<1>2. CASE base' = base /\ pc' = "resume"
  BY <1>1, <1>2 DEF PlaceInv, PlacedSteps
<1>3. ASSUME NEW b \in Holes(p), base' = [base EXCEPT ![p] = b], pc' \in {"link", "mmap"}
      PROVE  PlaceInv'
  <2>1. /\ base'[p] = b /\ b >= 1
        /\ \A q \in Patches \ {p} : base'[q] = base[q]
    BY <1>1, <1>3 DEF Holes, TypeInv, TypeOK
  <2>2. Reserved(p)'
    <3>1. ASSUME NEW q \in Patches \ {p}, NEW k \in segs[q], NEW j \in 0..(Size[p] - 1)
          PROVE  base[q] + k # b + j
      BY DEF Holes, Occupied, Cells
    <3> QED
      BY <1>1, <2>1, <3>1 DEF Reserved
  <2>3. \A q, r \in Patches : q # r =>
          \A k \in segs'[q], j \in segs'[r] : base'[q] + k # base'[r] + j
    BY <1>1, <2>1 DEF PlaceInv
  <2> QED
    BY <1>1, <1>3, <2>1, <2>2, <2>3, Zenon DEF PlaceInv, PlacedSteps
<1> QED
  BY <1>2, <1>3, Zenon DEF PinPatch, Goto, Fail

(* Every step keeps the mappings of the patches apart from each other. *)
LEMMA PlaceStep == TypeInv /\ PlaceInv /\ [Next]_vars => PlaceInv'
<1> SUFFICES ASSUME TypeInv, PlaceInv, [Next]_vars
             PROVE  PlaceInv'
  BY Zenon
<1>1. CASE UNCHANGED vars \/ ProcessStep
  <2>1. UNCHANGED <<segs, base, pc, cmd>>
    BY <1>1, Zenon DEF vars, process, nsb, ProcessStep, Call, Return, Dlclose, Dlopen
  <2> QED
    BY <2>1 DEF PlaceInv, Reserved
<1>2. CASE (\E c \in Commands : Start(c)) \/ Suspend \/ SuspendFails \/ Resume \/ Crash
           \/ RevertJump \/ RevertJumpsDone
  <2>1. UNCHANGED <<segs, base>> /\ pc' \in {"suspend", "prepare", "unjump", "unload", "idle"}
    BY <1>2, Zenon DEF Start, Suspend, SuspendFails, Resume, Crash, Exit, Goto, process,
                RevertJump, RevertJumpsDone
  <2> QED
    BY <2>1, SMTT(30) DEF PlaceInv, PlacedSteps
<1>3. CASE PreparePatch
  BY <1>3, ZenonT(30) DEF PreparePatch, PlaceInv, PlacedSteps, process, Goto, Fail, check_process
<1>4. CASE LinkPatch \/ TuneJumps \/ ApplyJump
  <2>1. /\ UNCHANGED <<segs, base, cmd>> /\ pc \in PlacedSteps
        /\ pc' \in {"tune", "unload", "jump", "resume"}
    BY <1>4, Zenon DEF LinkPatch, TuneJumps, ApplyJump, Goto, Fail, process, PlacedSteps
  <2> QED
    BY <2>1 DEF PlaceInv, PlacedSteps
<1> QED
  BY <1>1, <1>2, <1>3, <1>4, PlaceMap, PlaceUnmap, PlacePin, Zenon DEF Next, NsbStep

(* Loading and unloading a patch leave the mappings of every other patch   *)
(* alone, whatever fails on the way (OtherPatchesKept): the hole that      *)
(* process_find_place_for_elf found is still free when mmap with MAP_FIXED *)
(* fills it, and the error paths unmap only what they mapped.              *)
THEOREM OthersKept == Spec => OtherPatchesKept
<1>1. TypeInv /\ PlaceInv /\ [Next]_vars =>
        [\A q \in Patches : q # cmd.p => segs'[q] = segs[q]]_vars
  <2> SUFFICES ASSUME TypeInv, PlaceInv, Next, NEW q \in Patches, q # cmd.p
               PROVE  segs'[q] = segs[q]
    BY Zenon
  <2>1. CASE MmapManual \/ MmapService
    BY <2>1, PlaceMap, Zenon DEF TypeInv, TypeOK
  <2>2. CASE RollbackManual \/ Unload
    BY <2>2, PlaceUnmap, Zenon DEF TypeInv, TypeOK
  <2>3. CASE ~(MmapManual \/ MmapService \/ RollbackManual \/ Unload)
    <3>1. UNCHANGED segs
      BY <2>3, Zenon DEF Next, NsbStep, ProcessStep, Call, Return, Dlclose, Dlopen, Start,
         Suspend, SuspendFails, Resume, Crash, PreparePatch, PinPatch, LinkPatch,
         TuneJumps, ApplyJump, RevertJump, RevertJumpsDone, process
    <3> QED
      BY <3>1, Zenon
  <2> QED
    BY <2>1, <2>2, <2>3, Zenon
<1> QED
  BY <1>1, TypeInit, TypeStep, PlaceInit, PlaceStep, PTL DEF Spec, OtherPatchesKept

-----------------------------------------------------------------------------
(* A fresh process has its original code everywhere. *)
LEMMA IdleInit == Init => IdleInv
BY Zenon DEF Init, IdleInv, RedirectedFunctionsIdle, PatchSteps

(* Writing at the entry of a function no thread is in leaves idle ones     *)
(* idle.                                                                   *)
LEMMA IdleWrite ==
  ASSUME TypeInv, IdleInv, UNCHANGED <<inOld, cmd>>,
         pc' \in PatchSteps => pc \in PatchSteps,
         NEW S \in SUBSET Funcs,
         \A f \in Funcs \ S : code'[f] = code[f],
         \A t \in Threads : inOld[t] \intersect S = {}
  PROVE  IdleInv'
<1>1. \A t \in Threads : inOld[t] \subseteq Funcs
  BY Zenon DEF TypeInv, TypeOK
<1>2. RedirectedFunctionsIdle'
  BY <1>1, Zenon DEF IdleInv, RedirectedFunctionsIdle
<1> QED
  BY <1>2, Zenon DEF IdleInv

(* Every step keeps threads out of functions whose entry is overwritten. *)
LEMMA IdleStep == TypeInv /\ PlaceInv /\ IdleInv /\ [Next]_vars => IdleInv'
<1> SUFFICES ASSUME TypeInv, PlaceInv, IdleInv, [Next]_vars
             PROVE  IdleInv'
  BY Zenon
<1>0. /\ code \in [Funcs -> {Zeroed, Original} \union 1..N]
      /\ inOld \in [Threads -> SUBSET Funcs]
      /\ pc # "idle" => cmd.p \in Patches
  BY CommandFields, Zenon DEF TypeInv, TypeOK
<1>1. CASE UNCHANGED vars
  BY <1>1, Zenon DEF vars, process, nsb, IdleInv, RedirectedFunctionsIdle
<1>2. ASSUME NEW t \in Threads, NEW f \in Funcs, Call(t, f)
      PROVE  IdleInv'
  BY <1>0, <1>2 DEF Call, Stopped, nsb, IdleInv, RedirectedFunctionsIdle, PatchSteps
<1>3. ASSUME NEW t \in Threads, Return(t)
      PROVE  IdleInv'
  <2>1. \A u \in Threads : inOld'[u] \subseteq inOld[u]
    BY <1>0, <1>3, Zenon DEF Return
  <2> QED
    BY <1>3, <2>1, Zenon DEF Return, Stopped, nsb, IdleInv, RedirectedFunctionsIdle, PatchSteps
<1>4. ASSUME NEW l \in Dlopened, Dlclose(l)
      PROVE  IdleInv'
  BY <1>0, <1>4, Zenon DEF Dlclose, Stopped, nsb, IdleInv, RedirectedFunctionsIdle, PatchSteps
<1>5. ASSUME NEW l \in Dlopened, Dlopen(l)
      PROVE  IdleInv'
  BY <1>5, Zenon DEF Dlopen, nsb, IdleInv, RedirectedFunctionsIdle
<1>6. CASE (\E c \in Commands : Start(c)) \/ SuspendFails \/ Resume \/ Crash
  <2>1. UNCHANGED <<code, inOld>> /\ pc' \notin PatchSteps
    BY <1>6, Zenon DEF Start, SuspendFails, Resume, Crash, Exit, Goto, process, PatchSteps
  <2> QED
    BY <2>1, Zenon DEF IdleInv, RedirectedFunctionsIdle
<1>7. CASE Suspend
  <2>1. UNCHANGED <<code, inOld, cmd>>
    BY <1>7, Zenon DEF Suspend, process
  <2>2. pc' \in PatchSteps => cmd.op = "patch"
    BY <1>7, Zenon DEF Suspend, Goto, PatchSteps
  <2>3. cmd.op = "patch" => \A t \in Threads : \A f \in inOld[t] : f \notin JumpSet(cmd.p)
    BY <1>7, Zenon DEF Suspend, SafePoint
  <2> QED
    BY <2>1, <2>2, <2>3 DEF IdleInv, RedirectedFunctionsIdle, JumpSet
<1>8. CASE PreparePatch \/ PinPatch \/ MmapManual \/ RollbackManual \/ MmapService
           \/ LinkPatch \/ TuneJumps \/ Unload \/ RevertJumpsDone
  <2>1. UNCHANGED <<code, inOld, cmd>> /\ (pc' \in PatchSteps => pc \in PatchSteps)
    BY <1>8, Zenon DEF PreparePatch, PinPatch, MmapManual, RollbackManual, MmapService,
       LinkPatch, TuneJumps, Unload, RevertJumpsDone, Goto, Fail, process, PatchSteps
  <2> QED
    BY <2>1, SMTT(30) DEF IdleInv, RedirectedFunctionsIdle, JumpSet
<1>9. CASE ApplyJump
  <2> DEFINE p == cmd.p
  <2>1. pc = "jump" /\ p \in Patches /\ UNCHANGED <<inOld, cmd>>
    BY <1>0, <1>9, Zenon DEF ApplyJump
  <2>2. \A t \in Threads : inOld[t] \intersect JumpSet(p) = {}
    BY <2>1, Zenon DEF IdleInv, PatchSteps
  <2>3. i <= Len(Jumps[p]) => i \in 1..Len(Jumps[p])
    BY <2>1, ConstantsAssumption DEF TypeInv, TypeOK
  <2>4. \/ code' = code
        \/ \E j \in 1..Len(Jumps[p]) : code' = [code EXCEPT ![Jumps[p][j]] = base[p]]
    BY <1>9, <2>3, Zenon DEF ApplyJump
  <2>5. \A f \in Funcs \ JumpSet(p) : code'[f] = code[f]
    BY <1>0, <2>4, Zenon DEF JumpSet
  <2>6. JumpSet(p) \subseteq Funcs
    BY <2>1, ConstantsAssumption DEF JumpSet
  <2> QED
    BY <2>1, <2>2, <2>5, <2>6, IdleWrite, Zenon DEF PatchSteps
<1>10. CASE RevertJump
  <2> DEFINE p == cmd.p
             S == {f \in Funcs : code[f] # Original}
  <2>1. /\ pc = "unjump" /\ p \in Patches /\ UNCHANGED <<inOld, cmd>>
        /\ pc' \in {"unjump", "unload"}
    BY <1>0, <1>10, Zenon DEF RevertJump, Goto
  <2>2. 0 \in segs[p] => base[p] # Original
    BY <2>1 DEF PlaceInv, Original
  <2>3. \/ code' = code
        \/ \E f, v : code' = [code EXCEPT ![f] = v] /\ code[f] = base[p] /\ 0 \in segs[p]
    BY <1>10, Zenon DEF RevertJump, HasAddress
  <2>4. \A f \in Funcs \ S : code'[f] = code[f]
    BY <1>0, <2>2, <2>3, Zenon
  <2>5. \A t \in Threads : inOld[t] \intersect S = {}
    BY Zenon DEF IdleInv, RedirectedFunctionsIdle
  <2> QED
    BY <2>1, <2>4, <2>5, IdleWrite, Zenon DEF PatchSteps
<1> QED
  BY <1>1, <1>2, <1>3, <1>4, <1>5, <1>6, <1>7, <1>8, <1>9, <1>10, Zenon
  DEF Next, NsbStep, ProcessStep

(* No thread is ever inside a function whose entry was overwritten         *)
(* (RedirectedFunctionsIdle), whatever fails and wherever nsb dies: the    *)
(* stack check of process_suspend holds until the last jump is written,    *)
(* and revert writes only where there is a jump already.                   *)
THEOREM OverwrittenFunctionsIdle == Spec => []RedirectedFunctionsIdle
<1>1. IdleInv => RedirectedFunctionsIdle
  BY Zenon DEF IdleInv
<1> QED
  BY <1>1, TypeInit, TypeStep, PlaceInit, PlaceStep, IdleInit, IdleStep, PTL DEF Spec

-----------------------------------------------------------------------------
(* Jumps and frames.                                                       *)

(* No jump and no frame leads into segment 0 of p. *)
Unused(p) ==
  /\ \A f \in Funcs : code[f] # base[p]
  /\ \A t \in Threads : base[p] \notin inNew[t]

(* The progress of the two commands, when every read and write of the      *)
(* loops over the func_jumps succeeds: a patch is mapped before its jumps  *)
(* are written, and the jumps revert went past lead somewhere else.        *)
JumpInv ==
  /\ NoDanglingJump
  /\ NoStrayFrame
  /\ \A f \in Funcs : Lib[f] \notin loaded => code[f] = Original
  /\ pc \in PatchSteps => Target[cmd.p] \in loaded
  /\ pc \in {"mmap", "rollback", "link"} => Unused(cmd.p)
  /\ pc = "mmap" /\ i > 0 => 0 \in segs[cmd.p]
  /\ pc \in {"link", "tune", "jump"} /\ ~cmd.dry => 0 \in segs[cmd.p]
  /\ pc = "unjump" => tuned[cmd.p] = Len(Jumps[cmd.p])
  /\ pc = "unjump" /\ 0 \in segs[cmd.p] =>
       \A t \in Threads : base[cmd.p] \notin inNew[t]
  /\ pc = "unjump" /\ 0 \in segs[cmd.p] /\ ~cmd.dry =>
       \A j \in 1..Len(Jumps[cmd.p]) :
         j < i => code[Jumps[cmd.p][j]] # base[cmd.p]
  /\ pc = "jump" => tuned[cmd.p] = Len(Jumps[cmd.p])
  /\ pc = "unload" /\ 0 \in segs[cmd.p] /\ ~cmd.dry => Unused(cmd.p)

-----------------------------------------------------------------------------
(* A fresh process has no jump. *)
LEMMA JumpInit == Init => JumpInv
BY Zenon DEF Init, JumpInv, NoDanglingJump, NoStrayFrame, PatchSteps

(* The process runs: it enters a patch through a jump only. *)
LEMMA JumpProcess ==
  ASSUME TypeInv, JumpInv, ProcessStep
  PROVE  JumpInv'
<1>0. /\ code \in [Funcs -> {Zeroed, Original} \union 1..N]
      /\ inNew \in [Threads -> SUBSET ({Zeroed} \union 1..N)]
      /\ NoDanglingJump
      /\ NoStrayFrame
      /\ \A f \in Funcs : Lib[f] \notin loaded => code[f] = Original
  BY Zenon DEF TypeInv, TypeOK, JumpInv
<1>1. /\ pc \in {"idle", "suspend"} /\ UNCHANGED <<segs, base, pc>>
  BY Zenon DEF ProcessStep, Call, Return, Dlclose, Dlopen, Stopped, nsb
<1>2. /\ NoDanglingJump'
      /\ NoStrayFrame'
      /\ \A f \in Funcs : Lib[f] \notin loaded' => code'[f] = Original
  <2>1. ASSUME NEW t \in Threads, NEW f \in Funcs, Call(t, f)
        PROVE  <1>2!:
    <3>1. \A u \in Threads : \A a \in inNew'[u] :
            a \in inNew[u] \/ (a = code[f] /\ code[f] # Original)
      BY <1>0, <2>1, Zenon DEF Call
    <3>2. UNCHANGED <<code, loaded>>
      BY <2>1, Zenon DEF Call
    <3> QED
      BY <1>0, <1>1, <3>1, <3>2 DEF NoDanglingJump, NoStrayFrame
  <2>2. ASSUME NEW t \in Threads, Return(t)
        PROVE  <1>2!:
    <3>1. \A u \in Threads : inNew'[u] \subseteq inNew[u]
      BY <1>0, <2>2, Zenon DEF Return
    <3>2. UNCHANGED <<code, loaded>>
      BY <2>2, Zenon DEF Return
    <3> QED
      BY <1>0, <1>1, <3>1, <3>2, Zenon DEF NoDanglingJump, NoStrayFrame
  <2>3. ASSUME NEW l \in Dlopened, Dlclose(l)
        PROVE  <1>2!:
    <3>1. /\ \A f \in Funcs : code'[f] = IF Lib[f] = l THEN Original ELSE code[f]
          /\ loaded' = loaded \ {l}
          /\ UNCHANGED inNew
      BY <2>3, Zenon DEF Dlclose
    <3> QED
      BY <1>0, <1>1, <3>1 DEF NoDanglingJump, NoStrayFrame
  <2>4. ASSUME NEW l \in Dlopened, Dlopen(l)
        PROVE  <1>2!:
    BY <1>0, <1>1, <2>4, Zenon DEF Dlopen, NoDanglingJump, NoStrayFrame
  <2> QED
    BY <2>1, <2>2, <2>3, <2>4, Zenon DEF ProcessStep
<1> QED
  BY <1>1, <1>2, Zenon DEF JumpInv, PatchSteps

(* nsb is run, stops the process at a safe point, and lets it go. *)
LEMMA JumpStartStop ==
  ASSUME "tune" \notin Faults, TypeInv, JumpInv,
         \/ \E c \in Commands : Start(c)
         \/ Suspend \/ SuspendFails \/ Resume \/ Crash \/ PreparePatch
  PROVE  JumpInv'
<1>0. /\ UNCHANGED <<code, segs, base, loaded, inNew>>
      /\ NoDanglingJump'
      /\ NoStrayFrame'
      /\ \A f \in Funcs : Lib[f] \notin loaded' => code'[f] = Original
  <2>1. UNCHANGED <<code, segs, base, loaded, inNew>>
    BY Zenon DEF Start, Suspend, SuspendFails, Resume, Crash, PreparePatch, process
  <2> QED
    BY <2>1, Zenon DEF JumpInv, NoDanglingJump, NoStrayFrame
<1>1. CASE (\E c \in Commands : Start(c)) \/ SuspendFails \/ Resume \/ Crash
  <2>1. pc' \in {"suspend", "idle"}
    BY <1>1, Zenon DEF Start, SuspendFails, Resume, Crash, Exit, Goto
  <2> QED
    BY <1>0, <2>1, Zenon DEF JumpInv, PatchSteps
<1>2. CASE Suspend
  <2>1. /\ pc' = IF cmd.op = "patch" THEN "prepare" ELSE "unjump"
        /\ UNCHANGED cmd /\ i' = 1 /\ TargetFound /\ SafePoint
        /\ cmd.p \in Patches
    BY <1>2, CommandFields, Zenon DEF Suspend, Goto, TypeInv, TypeOK
  <2>2. tuned'[cmd.p] = Len(Jumps[cmd.p])
    BY <1>2, <2>1, Zenon DEF Suspend, tune_patch_func_jumps
  <2>3. CASE cmd.op = "patch"
    BY <1>0, <2>1, <2>3, Zenon DEF JumpInv, PatchSteps, TargetFound
  <2>4. CASE cmd.op # "patch"
    <3>1. 0 \in segs[cmd.p] => \A t \in Threads : base[cmd.p] \notin inNew[t]
      <4>1. /\ segs[cmd.p] \subseteq Nat
            /\ base[cmd.p] + 0 = base[cmd.p]
        BY <2>1, SMTT(30) DEF TypeInv, TypeOK
      <4> QED
        BY <2>1, <2>4, <4>1 DEF SafePoint
    <3> QED
      BY <1>0, <2>1, <2>2, <2>4, <3>1, SMTT(30) DEF JumpInv, PatchSteps
  <2> QED
    BY <2>3, <2>4, Zenon
<1>3. CASE PreparePatch
  <2>1. pc = "prepare" /\ pc' \in {"pin", "resume"} /\ UNCHANGED cmd
    BY <1>3, Zenon DEF PreparePatch, Goto, Fail
  <2> QED
    BY <1>0, <2>1, Zenon DEF JumpInv, PatchSteps
<1> QED
  BY <1>1, <1>2, <1>3, Zenon

(* A place that is free is one that no jump and no frame leads to. *)
LEMMA JumpPin ==
  ASSUME TypeInv, PlaceInv, JumpInv, PinPatch
  PROVE  JumpInv'
<1> DEFINE p == cmd.p
<1>1. /\ pc = "pin" /\ segs[p] = {} /\ p \in Patches
      /\ UNCHANGED <<code, segs, loaded, inNew, cmd>>
      /\ Target[p] \in loaded
      /\ base \in [Patches -> 0..N]
  BY CommandFields, Zenon DEF PinPatch, PlaceInv, TypeInv, TypeOK, JumpInv, PatchSteps
<1>2. \A q \in Patches : 0 \in segs[q] => base'[q] = base[q]
  BY <1>1, Zenon DEF PinPatch
<1>3. /\ NoDanglingJump'
      /\ NoStrayFrame'
      /\ \A f \in Funcs : Lib[f] \notin loaded' => code'[f] = Original
  BY <1>1, <1>2, SMTT(30) DEF JumpInv, NoDanglingJump, NoStrayFrame
<1>4. CASE pc' = "resume"
  BY <1>3, <1>4, Zenon DEF JumpInv, PatchSteps
<1>5. ASSUME NEW b \in Holes(p), base' = [base EXCEPT ![p] = b], i' = 0,
             pc' = IF cmd.dry THEN "link" ELSE "mmap"
      PROVE  JumpInv'
  <2>1. base'[p] = b
    BY <1>1, <1>5, Zenon
  <2>2. \A q \in Patches : 0 \in segs[q] => base[q] # b
    <3>1. ASSUME NEW q \in Patches, 0 \in segs[q]
          PROVE  base[q] # b
      <4>1. b \notin Cells(q)
        <5>1. b + 0 \notin Occupied /\ b + 0 = b
          BY <1>1, ConstantsAssumption, SMTT(30) DEF Holes
        <5> QED
          BY <5>1, Zenon DEF Occupied
      <4>2. base[q] + 0 \in Cells(q) /\ base[q] + 0 = base[q]
        BY <1>1, <3>1 DEF Cells
      <4> QED
        BY <4>1, <4>2, Zenon
    <3> QED
      BY <3>1, Zenon
  <2>3. b # Original
    BY SMTT(30) DEF Holes, Original
  <2>4. Unused(p)'
    BY <1>1, <2>1, <2>2, <2>3, SMTT(30) DEF Unused, JumpInv, NoDanglingJump, NoStrayFrame
  <2> QED
    BY <1>1, <1>3, <1>5, <2>4 DEF JumpInv, PatchSteps
<1> QED
  BY <1>4, <1>5, Zenon DEF PinPatch, Goto, Fail

(* Mapping adds segments and leaves every jump where it was. *)
LEMMA JumpMap ==
  ASSUME TypeInv, PlaceInv, JumpInv, MmapManual \/ MmapService
  PROVE  JumpInv'
<1> DEFINE p == cmd.p
<1>1. /\ pc = "mmap" /\ p \in Patches /\ Size[p] \in Nat \ {0}
      /\ UNCHANGED <<code, base, loaded, inNew, cmd, tuned>>
      /\ i \in Int /\ i >= 0 /\ segs \in [Patches -> SUBSET Nat]
  <2>1. pc = "mmap" /\ UNCHANGED <<code, base, loaded, inNew, cmd, tuned>>
    BY Zenon DEF MmapManual, MmapService
  <2> QED
    BY <2>1, CommandFields, ConstantsAssumption, Zenon DEF TypeInv, TypeOK
<1>2. \A q \in Patches : 0 \in segs[q] => 0 \in segs'[q]
  BY <1>1, PlaceMap, Zenon
<1>3. /\ NoDanglingJump'
      /\ NoStrayFrame'
      /\ \A f \in Funcs : Lib[f] \notin loaded' => code'[f] = Original
  BY <1>1, <1>2, Zenon DEF JumpInv, NoDanglingJump, NoStrayFrame
<1>4. Unused(p)' /\ Target[p] \in loaded'
  BY <1>1, Zenon DEF JumpInv, Unused, PatchSteps
<1>5. CASE MmapManual
  <2>1. CASE i < Size[p] /\ segs' = MapFixed(p, {i}) /\ i' = i + 1 /\ pc' = "mmap"
    <3>1. 0 \in segs'[p]
      <4>1. CASE i = 0
        BY <1>1, <2>1, <4>1, Zenon DEF MapFixed
      <4>2. CASE i > 0
        BY <1>1, <1>2, <4>2, Zenon DEF JumpInv
      <4> QED
        BY <1>1, <4>1, <4>2, SMTT(30)
    <3> QED
      BY <1>1, <1>3, <1>4, <2>1, <3>1, Zenon DEF JumpInv, PatchSteps
  <2>2. CASE pc' = "rollback"
    BY <1>1, <1>3, <1>4, <2>2, Zenon DEF JumpInv, PatchSteps
  <2>3. CASE i = Size[p] /\ pc' = "link" /\ segs' = segs
    <3>1. 0 \in segs'[p]
      BY <1>1, <2>3, SMTT(30) DEF JumpInv
    <3> QED
      BY <1>1, <1>3, <1>4, <2>3, <3>1, Zenon DEF JumpInv, PatchSteps
  <2> QED
    BY <1>1, <1>5, <2>1, <2>2, <2>3, Zenon DEF MmapManual, Goto, Fail
<1>6. CASE MmapService
  <2>1. CASE segs' = MapFixed(p, 0..(Size[p] - 1)) /\ pc' = "link"
    <3>1. 0 \in segs'[p]
      BY <1>1, <2>1, SMTT(30) DEF MapFixed
    <3> QED
      BY <1>1, <1>3, <1>4, <2>1, <3>1, Zenon DEF JumpInv, PatchSteps
  <2>2. CASE pc' = "resume"
    BY <1>3, <2>2, Zenon DEF JumpInv, PatchSteps
  <2> QED
    BY <1>6, <2>1, <2>2, Zenon DEF MmapService, Goto, Fail
<1> QED
  BY <1>5, <1>6, Zenon

(* What is unmapped was not used. *)
LEMMA JumpUnmap ==
  ASSUME TypeInv, PlaceInv, JumpInv, RollbackManual \/ Unload
  PROVE  JumpInv'
<1> DEFINE p == cmd.p
<1>1. /\ pc \in {"rollback", "unload"} /\ pc' \in {pc, "resume"} /\ p \in Patches
      /\ UNCHANGED <<code, base, loaded, inNew, cmd, tuned>>
      /\ segs \in [Patches -> SUBSET Nat]
  <2>1. /\ pc \in {"rollback", "unload"} /\ pc' \in {pc, "resume"}
        /\ UNCHANGED <<code, base, loaded, inNew, cmd, tuned>>
    BY Zenon DEF RollbackManual, Unload, Goto, Fail
  <2> QED
    BY <2>1, CommandFields, Zenon DEF TypeInv, TypeOK
<1>2. /\ \A q \in Patches \ {p} : segs'[q] = segs[q]
      /\ segs'[p] \subseteq segs[p]
  BY <1>1, PlaceUnmap, Zenon
<1>3. 0 \in segs[p] /\ 0 \notin segs'[p] => Unused(p)
  <2>1. CASE RollbackManual
    BY <2>1, ZenonT(30) DEF RollbackManual, JumpInv
  <2>2. CASE Unload
    BY <2>2, ZenonT(30) DEF Unload, JumpInv
  <2> QED
    BY <2>1, <2>2, Zenon
<1>4. /\ NoDanglingJump'
      /\ NoStrayFrame'
      /\ \A f \in Funcs : Lib[f] \notin loaded' => code'[f] = Original
  BY <1>1, <1>2, <1>3, SMTT(30) DEF JumpInv, NoDanglingJump, NoStrayFrame, Unused
<1>5. Unused(p)' <=> Unused(p)
  BY <1>1, Zenon DEF Unused
<1>6. CASE pc' = "resume"
  BY <1>4, <1>6, Zenon DEF JumpInv, PatchSteps
<1>7. CASE pc' = pc
  BY <1>1, <1>2, <1>4, <1>5, <1>7, Zenon DEF JumpInv, PatchSteps
<1> QED
  BY <1>1, <1>6, <1>7, Zenon

(* Linking and tuning change neither jumps nor mappings. *)
LEMMA JumpLink ==
  ASSUME "tune" \notin Faults, TypeInv, JumpInv, LinkPatch \/ TuneJumps
  PROVE  JumpInv'
<1> DEFINE p == cmd.p
<1>1. /\ UNCHANGED <<code, segs, base, loaded, inNew, cmd>>
      /\ pc \in {"link", "tune"} /\ p \in Patches
      /\ tuned \in [Patches -> 0..MaxJumps]
  <2>1. /\ UNCHANGED <<code, segs, base, loaded, inNew, cmd>>
        /\ pc \in {"link", "tune"}
    BY Zenon DEF LinkPatch, TuneJumps, process
  <2> QED
    BY <2>1, CommandFields, Zenon DEF TypeInv, TypeOK
<1>2. /\ NoDanglingJump'
      /\ NoStrayFrame'
      /\ \A f \in Funcs : Lib[f] \notin loaded' => code'[f] = Original
  BY <1>1, Zenon DEF JumpInv, NoDanglingJump, NoStrayFrame
<1>3. /\ Target[p] \in loaded
      /\ ~cmd.dry => 0 \in segs[p]
      /\ pc = "link" => Unused(p)'
  BY <1>1, Zenon DEF JumpInv, PatchSteps, Unused
<1>4. CASE LinkPatch
  <2>1. pc = "link" /\ pc' \in {"tune", "unload"}
    BY <1>4, Zenon DEF LinkPatch, Goto, Fail
  <2> QED
    BY <1>1, <1>2, <1>3, <2>1, Zenon DEF JumpInv, PatchSteps
<1>5. CASE TuneJumps
  <2>1. pc' = "jump" /\ tuned'[p] = Len(Jumps[p])
    BY <1>1, <1>5, Zenon DEF TuneJumps, Goto, tune_patch_func_jumps
  <2> QED
    BY <1>1, <1>2, <1>3, <2>1, Zenon DEF JumpInv, PatchSteps
<1> QED
  BY <1>4, <1>5, Zenon

-----------------------------------------------------------------------------
(* A jump is written when the patch it leads to is mapped. *)
LEMMA JumpApply ==
  ASSUME "poke" \notin Faults, TypeInv, JumpInv, ApplyJump
  PROVE  JumpInv'
<1> DEFINE p == cmd.p
           f == Jumps[p][i]
<1>1. /\ pc = "jump" /\ p \in Patches /\ UNCHANGED <<segs, base, loaded, inNew, cmd, tuned>>
      /\ code \in [Funcs -> {Zeroed, Original} \union 1..N]
      /\ Target[p] \in loaded
      /\ ~cmd.dry => 0 \in segs[p]
      /\ tuned[p] = Len(Jumps[p])
      /\ i \in Int /\ i >= 1
  BY CommandFields, ZenonT(30) DEF ApplyJump, TypeInv, TypeOK, JumpInv, PatchSteps
<1>2. /\ NoStrayFrame'
      /\ NoDanglingJump
      /\ \A g \in Funcs : Lib[g] \notin loaded => code[g] = Original
  BY <1>1, Zenon DEF JumpInv, NoStrayFrame
<1>3. pc' \in {"jump", "resume"}
  BY <1>1, Zenon DEF ApplyJump, Goto
<1>4. CASE code' = code
  BY <1>1, <1>2, <1>3, <1>4, ZenonT(30) DEF JumpInv, NoDanglingJump, PatchSteps
<1>5. CASE ~cmd.dry /\ i <= Len(Jumps[p]) /\ code' = [code EXCEPT ![f] = base[p]]
  <2>1. f \in JumpSet(p) /\ f \in Funcs /\ Lib[f] = Target[p]
    <3>1. Jumps[p] \in Seq(Funcs) /\ i \in 1..Len(Jumps[p])
      BY <1>1, <1>5, ConstantsAssumption
    <3>2. f \in JumpSet(p) /\ f \in Funcs
      BY <3>1, SMTT(30) DEF JumpSet
    <3> QED
      BY <1>1, <3>2, ConstantsAssumption, Zenon
  <2>2. /\ code'[f] = base[p]
        /\ \A g \in Funcs \ {f} : code'[g] = code[g]
    BY <1>1, <1>5, <2>1, ZenonT(30)
  <2>3. NoDanglingJump'
    BY <1>1, <1>2, <1>5, <2>1, <2>2, Zenon DEF NoDanglingJump
  <2>4. \A g \in Funcs : Lib[g] \notin loaded' => code'[g] = Original
    BY <1>1, <1>2, <2>1, <2>2, Zenon
  <2> QED
    BY <1>1, <1>2, <1>3, <2>3, <2>4, Zenon DEF JumpInv, PatchSteps
<1> QED
  BY <1>4, <1>5, Zenon DEF ApplyJump

(* revert_func_jump writes the jump of another mapped patch, or original   *)
(* code: in both cases this jump does not lead to the patch any more.      *)
LEMMA JumpRevert ==
  ASSUME "poke" \notin Faults, TypeInv, PlaceInv, JumpInv, RevertJump
  PROVE  JumpInv'
<1> DEFINE p == cmd.p
           f == Jumps[p][i]
<1>1. /\ pc = "unjump" /\ p \in Patches /\ i \in 1..Len(Jumps[p])
      /\ UNCHANGED <<segs, base, loaded, inNew, cmd, tuned>>
      /\ Target[p] \in loaded
  <2>1. /\ pc = "unjump" /\ i <= Len(Jumps[p])
        /\ UNCHANGED <<segs, base, loaded, inNew, cmd, tuned>>
        /\ Target[p] \in loaded
    BY ZenonT(30) DEF RevertJump
  <2> QED
    BY <2>1, CommandFields, ConstantsAssumption, SMTT(30) DEF TypeInv, TypeOK
<1>2. /\ code \in [Funcs -> {Zeroed, Original} \union 1..N]
      /\ base \in [Patches -> 0..N]
      /\ tuned[p] = Len(Jumps[p])
      /\ NoDanglingJump
      /\ NoStrayFrame'
      /\ \A g \in Funcs : Lib[g] \notin loaded => code[g] = Original
      /\ 0 \in segs[p] => \A t \in Threads : base[p] \notin inNew'[t]
      /\ 0 \in segs[p] /\ ~cmd.dry =>
           \A j \in 1..Len(Jumps[p]) : j < i => code[Jumps[p][j]] # base[p]
      /\ 0 \in segs[p] => base[p] >= 1
  BY <1>1, ZenonT(30) DEF TypeInv, TypeOK, JumpInv, NoStrayFrame, PlaceInv
<1>3. f \in Funcs /\ Lib[f] = Target[p] /\ \A j \in 1..Len(Jumps[p]) : Jumps[p][j] \in Funcs
  <2>1. Jumps[p] \in Seq(Funcs)
    BY <1>1, ConstantsAssumption, Zenon
  <2>2. \A j \in 1..Len(Jumps[p]) : Jumps[p][j] \in Funcs
    BY <2>1
  <2>3. f \in JumpSet(p)
    BY <1>1, Zenon DEF JumpSet
  <2>4. Lib[f] = Target[p]
    BY <1>1, <2>3, ConstantsAssumption, Zenon
  <2> QED
    BY <1>1, <2>2, <2>4, Zenon
<1>4. HasAddress(p, i) <=> 0 \in segs[p]
  BY <1>1, <1>2, ConstantsAssumption, SMTT(30) DEF HasAddress
<1>5. pc' = "unjump" /\ i' = i + 1
  BY Zenon DEF RevertJump
<1>6. CASE code' = code /\ (0 \notin segs[p] \/ code[f] # base[p] \/ cmd.dry)
  <2>1. /\ NoDanglingJump'
        /\ \A g \in Funcs : Lib[g] \notin loaded' => code'[g] = Original
    BY <1>1, <1>2, <1>6, Zenon DEF NoDanglingJump
  <2>2. 0 \in segs'[p] /\ ~cmd'.dry =>
          \A j \in 1..Len(Jumps[p]) : j < i' => code'[Jumps[p][j]] # base'[p]
    BY <1>1, <1>2, <1>5, <1>6, SMTT(30)
  <2> QED
    BY <1>1, <1>2, <1>5, <2>1, <2>2, ZenonT(30) DEF JumpInv, PatchSteps
<1>7. ASSUME NEW v, code' = [code EXCEPT ![f] = v], v # base[p], 0 \in segs[p],
             v # Original =>
               \E q \in Patches : f \in JumpSet(q) /\ 0 \in segs[q] /\ base[q] = v
      PROVE  JumpInv'
  <2>1. /\ code'[f] = v
        /\ \A g \in Funcs \ {f} : code'[g] = code[g]
    BY <1>2, <1>3, <1>7, ZenonT(30)
  <2>2. NoDanglingJump'
    BY <1>1, <1>2, <1>7, <2>1, Zenon DEF NoDanglingJump
  <2>3. \A g \in Funcs : Lib[g] \notin loaded' => code'[g] = Original
    BY <1>1, <1>2, <1>3, <2>1, Zenon
  <2>4. ~cmd'.dry =>
          \A j \in 1..Len(Jumps[p]) : j < i' => code'[Jumps[p][j]] # base'[p]
    BY <1>1, <1>2, <1>3, <1>5, <1>7, <2>1, SMTT(30)
  <2> QED
    BY <1>1, <1>2, <1>5, <2>2, <2>3, <2>4, ZenonT(30) DEF JumpInv, PatchSteps
<1>8. ASSUME NEW q \in Previous(p, f), 0 \in segs[p]
      PROVE  /\ base[q] # base[p]
             /\ q \in Patches /\ f \in JumpSet(q) /\ 0 \in segs[q]
  BY <1>1, <1>2, <1>8, SMTT(30) DEF Previous, HasAddress, JumpSet
<1>9. Original # base[p] \/ 0 \notin segs[p]
  BY <1>2, SMTT(30) DEF Original
<1>10. \/ code' = code /\ (0 \notin segs[p] \/ code[f] # base[p] \/ cmd.dry)
       \/ 0 \in segs[p] /\ \E q \in Previous(p, f) : code' = [code EXCEPT ![f] = base[q]]
       \/ 0 \in segs[p] /\ code' = [code EXCEPT ![f] = Original]
  <2>1. i <= tuned[p]
    BY <1>1, <1>2, SMTT(30)
  <2> QED
    BY <1>4, <2>1, Zenon DEF RevertJump
<1> QED
  BY <1>6, <1>7, <1>8, <1>9, <1>10, Zenon

(* After the loop no jump leads to the patch: patches share no cell, so a  *)
(* jump that leads to it is one of its own.                                *)
LEMMA JumpRevertDone ==
  ASSUME TypeInv, PlaceInv, JumpInv, RevertJumpsDone
  PROVE  JumpInv'
<1> DEFINE p == cmd.p
<1>1. /\ pc = "unjump" /\ pc' = "unload" /\ p \in Patches
      /\ UNCHANGED <<code, segs, base, loaded, inNew, cmd>>
      /\ Target[p] \notin loaded \/ i > Len(Jumps[p])
      /\ base \in [Patches -> 0..N]
  BY CommandFields, Zenon DEF RevertJumpsDone, Goto, process, TypeInv, TypeOK
<1>2. ASSUME 0 \in segs[p], ~cmd.dry
      PROVE  Unused(p)
  <2>1. \A t \in Threads : base[p] \notin inNew[t]
    BY <1>1, <1>2, Zenon DEF JumpInv
  <2>2. ASSUME NEW f \in Funcs, code[f] = base[p]
        PROVE  FALSE
    <3>1. code[f] # Original
      BY <1>1, <1>2, <2>2, SMTT(30) DEF PlaceInv, Original
    <3>2. PICK q \in Patches : f \in JumpSet(q) /\ 0 \in segs[q] /\ base[q] = code[f]
      BY <3>1, Zenon DEF JumpInv, NoDanglingJump
    <3>3. q = p
      BY <1>1, <1>2, <2>2, <3>2, Zenon DEF PlaceInv
    <3>4. PICK j \in 1..Len(Jumps[p]) : f = Jumps[p][j]
      BY <3>2, <3>3, Zenon DEF JumpSet
    <3>5. Lib[f] = Target[p]
      BY <1>1, <3>2, <3>3, ConstantsAssumption, Zenon
    <3>6. Target[p] \in loaded
      BY <3>1, <3>5, Zenon DEF JumpInv
    <3>7. j < i
      BY <1>1, <3>6, ConstantsAssumption, SMTT(30) DEF TypeInv, TypeOK
    <3> QED
      BY <1>1, <1>2, <2>2, <3>4, <3>7, Zenon DEF JumpInv
  <2> QED
    BY <2>1, <2>2, Zenon DEF Unused
<1>3. /\ NoDanglingJump'
      /\ NoStrayFrame'
      /\ \A f \in Funcs : Lib[f] \notin loaded' => code'[f] = Original
  BY <1>1, Zenon DEF JumpInv, NoDanglingJump, NoStrayFrame
<1>4. Unused(p)' <=> Unused(p)
  BY <1>1, Zenon DEF Unused
<1> QED
  BY <1>1, <1>2, <1>3, <1>4, Zenon DEF JumpInv, PatchSteps

(* Every step keeps jumps and frames in mapped patches, when ptrace writes *)
(* and file reads succeed.                                                 *)
LEMMA JumpStep ==
  ASSUME "poke" \notin Faults, "tune" \notin Faults
  PROVE  TypeInv /\ PlaceInv /\ JumpInv /\ [Next]_vars => JumpInv'
<1>1. ASSUME JumpInv, UNCHANGED vars
      PROVE  JumpInv'
  BY <1>1, Zenon DEF vars, process, nsb, JumpInv, NoDanglingJump, NoStrayFrame, Unused
<1> QED
  BY <1>1, JumpProcess, JumpStartStop, JumpPin, JumpMap, JumpUnmap, JumpLink,
     JumpApply, JumpRevert, JumpRevertDone, Zenon
  DEF Next, NsbStep

(* NoDanglingJump: as long as the reads and writes of the two loops over   *)
(* the func_jumps succeed (patch.c does not report it when they do not),   *)
(* a jump leads into the mapped code of a patch that replaces the          *)
(* function, at every step, and so also when nsb is killed at any of them. *)
THEOREM JumpsLeadToMappedCode ==
  ASSUME "poke" \notin Faults, "tune" \notin Faults
  PROVE  Spec => []NoDanglingJump
<1>1. JumpInv => NoDanglingJump
  BY Zenon DEF JumpInv
<1> QED
  BY <1>1, TypeInit, TypeStep, PlaceInit, PlaceStep, JumpInit, JumpStep, PTL DEF Spec

(* NoStrayFrame, under the same condition: a thread is never inside a      *)
(* patch that is gone, because process_check_stack looks at the first      *)
(* mapping of the patch and the process stays stopped until it is unmapped. *)
THEOREM FramesInMappedCode ==
  ASSUME "poke" \notin Faults, "tune" \notin Faults
  PROVE  Spec => []NoStrayFrame
<1>1. JumpInv => NoStrayFrame
  BY Zenon DEF JumpInv
<1> QED
  BY <1>1, TypeInit, TypeStep, PlaceInit, PlaceStep, JumpInit, JumpStep, PTL DEF Spec

-----------------------------------------------------------------------------
(* What a revert that reports success has done. *)
RevertInv ==
  /\ pc \in PatchSteps => cmd.op = "patch"
  /\ pc = "resume" /\ cmd.op = "revert" /\ ~cmd.dry /\ ret = "ok" => segs[cmd.p] = {}

(* All segments of p are mapped, its relocations and references written. *)
Whole(p) == bound[p] /\ segs[p] = 0..(Size[p] - 1)

(* The patch that is being loaded or unloaded. *)
InWork(p) ==
  /\ p = cmd.p
  /\ pc \in {"mmap", "rollback", "link"} \/ (pc = "unload" /\ ~cmd.dry)

(* Every other mapped patch is whole, and of this one nsb knows how far it *)
(* came.                                                                   *)
WholeInv ==
  /\ \A p \in Patches : segs[p] # {} /\ ~InWork(p) => Whole(p)
  /\ pc = "mmap" =>
       /\ ~cmd.dry
       /\ i <= Size[cmd.p]
       /\ segs[cmd.p] = 0..(i - 1)
       /\ cmd.mode = "plugin" => i = 0
  /\ pc = "rollback" => segs[cmd.p] \subseteq 0..i
  /\ pc = "link" => segs[cmd.p] = IF cmd.dry THEN {} ELSE 0..(Size[cmd.p] - 1)

(* Only patch_unload ends a revert, and it ends it without an error when   *)
(* nothing is left to unmap.                                               *)
LEMMA RevertStep == RevertInv /\ [Next]_vars => RevertInv'
<1> SUFFICES ASSUME RevertInv, [Next]_vars PROVE RevertInv'
  BY Zenon
<1>1. CASE UNCHANGED vars
  BY <1>1, Zenon DEF vars, process, nsb, RevertInv
<1>2. CASE ProcessStep
  <2>1. pc \in {"idle", "suspend"} /\ pc' = pc
    BY <1>2, Zenon DEF ProcessStep, Call, Return, Dlclose, Dlopen, Stopped, nsb
  <2> QED
    BY <2>1, Zenon DEF RevertInv, PatchSteps
<1>3. CASE (\E c \in Commands : Start(c)) \/ SuspendFails \/ Resume \/ Crash
  <2>1. pc' \in {"idle", "suspend"}
    BY <1>3, Zenon DEF Start, SuspendFails, Resume, Crash, Exit, Goto
  <2> QED
    BY <2>1, Zenon DEF RevertInv, PatchSteps
<1>4. CASE Suspend
  <2>1. cmd' = cmd /\ pc' = IF cmd.op = "patch" THEN "prepare" ELSE "unjump"
    BY <1>4, Zenon DEF Suspend, Goto
  <2> QED
    BY <2>1, Zenon DEF RevertInv, PatchSteps
<1>5. CASE \/ PreparePatch \/ PinPatch \/ MmapManual \/ RollbackManual \/ MmapService
           \/ LinkPatch \/ TuneJumps \/ ApplyJump
  <2>1. pc \in PatchSteps /\ cmd' = cmd
    BY <1>5, Zenon
    DEF PatchSteps, PreparePatch, PinPatch, MmapManual, RollbackManual, MmapService,
        LinkPatch, TuneJumps, ApplyJump
  <2> QED
    BY <2>1, Zenon DEF RevertInv
<1>6. CASE Unload
  <2>1. /\ cmd' = cmd
        /\ \/ pc' = "unload"
           \/ pc' = "resume" /\ segs' = segs /\ (cmd.dry \/ segs[cmd.p] = {})
           \/ pc' = "resume" /\ ret' = "fail"
    BY <1>6, Zenon DEF Unload, Goto, Fail
  <2> QED
    BY <2>1, Zenon DEF RevertInv, PatchSteps
<1>7. CASE RevertJump \/ RevertJumpsDone
  <2>1. pc' \in {"unjump", "unload"}
    BY <1>7, Zenon DEF RevertJump, RevertJumpsDone, Goto
  <2> QED
    BY <2>1, Zenon DEF RevertInv, PatchSteps
<1> QED
  BY <1>1, <1>2, <1>3, <1>4, <1>5, <1>6, <1>7, Zenon DEF Next, NsbStep

(* RevertRecovers: under the condition of JumpsLeadToMappedCode, and       *)
(* whatever an nsb that was killed or failed has left of the patch, a      *)
(* revert that returns success has unmapped all of it, and every jump      *)
(* leads to another patch.                                                 *)
THEOREM RevertUndoesAll ==
  ASSUME "poke" \notin Faults, "tune" \notin Faults
  PROVE  Spec => []RevertRecovers
<1>1. Init => RevertInv
  BY Zenon DEF Init, RevertInv, PatchSteps
<1>2. JumpInv /\ RevertInv => RevertRecovers
  BY Zenon DEF JumpInv, NoDanglingJump, RevertInv, RevertRecovers
<1> QED
  BY <1>1, <1>2, RevertStep, TypeInit, TypeStep, PlaceInit, PlaceStep, JumpInit,
     JumpStep, PTL
  DEF Spec

-----------------------------------------------------------------------------
(* Steps that leave the mappings and the linking of patches alone, and do  *)
(* not change which patch is being loaded or unloaded.                     *)
LEMMA WholeSame ==
  ASSUME WholeInv, UNCHANGED <<segs, bound>>,
         pc' \notin {"mmap", "rollback", "link"},
         \A p \in Patches : InWork(p) /\ segs[p] # {} => InWork(p)'
  PROVE  WholeInv'
BY Zenon DEF WholeInv, Whole

(* Mapping: from segment 0 up, or all of them at once. *)
LEMMA WholeMap ==
  ASSUME "mmap" \notin Faults \/ "plugin" \notin Modes,
         TypeInv, PlaceInv, WholeInv, MmapManual \/ MmapService
  PROVE  WholeInv'
<1> DEFINE p == cmd.p
<1>1. /\ pc = "mmap" /\ p \in Patches /\ Size[p] \in Nat \ {0} /\ UNCHANGED <<bound, cmd>>
      /\ segs \in [Patches -> SUBSET Nat]
      /\ i \in Int /\ i >= 0 /\ i <= Size[p] /\ segs[p] = 0..(i - 1) /\ ~cmd.dry
      /\ cmd.mode = "plugin" => i = 0 /\ "plugin" \in Modes
  <2>1. pc = "mmap" /\ UNCHANGED <<bound, cmd>>
    BY Zenon DEF MmapManual, MmapService
  <2>2. cmd \in Commands
    BY <2>1, Zenon DEF TypeInv, TypeOK
  <2>3. cmd.mode = "plugin" => "plugin" \in Modes
    BY <2>2, Zenon DEF Commands
  <2> QED
    BY <2>1, <2>2, <2>3, CommandFields, ConstantsAssumption, Zenon DEF TypeInv, TypeOK, WholeInv
<1>2. ASSUME NEW S \in SUBSET (0..(Size[p] - 1)), segs' = MapFixed(p, S)
      PROVE  segs'[p] = segs[p] \union S /\ \A q \in Patches \ {p} : segs'[q] = segs[q]
  BY <1>1, <1>2, MapFixedReserved, Zenon
<1>3. ASSUME pc' \in {"mmap", "rollback", "link"},
             \A q \in Patches \ {p} : segs'[q] = segs[q]
      PROVE  \A q \in Patches : segs'[q] # {} /\ ~InWork(q)' => Whole(q)'
  BY <1>1, <1>3, Zenon DEF WholeInv, InWork, Whole
<1>4. CASE MmapManual /\ i < Size[p] /\ segs' = MapFixed(p, {i}) /\ i' = i + 1 /\ pc' = "mmap"
  <2>1. {i} \in SUBSET (0..(Size[p] - 1))
    BY <1>1, <1>4
  <2>2. segs'[p] = segs[p] \union {i} /\ \A q \in Patches \ {p} : segs'[q] = segs[q]
    BY <1>2, <1>4, <2>1, Zenon
  <2>3. segs'[p] = 0..(i' - 1) /\ i' <= Size[p]
    <3>1. (0..(i - 1)) \union {i} = 0..i /\ i' - 1 = i /\ i' <= Size[p]
      BY <1>1, <1>4, SMTT(30)
    <3> QED
      BY <1>1, <2>2, <3>1, Zenon
  <2>4. cmd.mode # "plugin"
    BY <1>4, Zenon DEF MmapManual
  <2> QED
    BY <1>1, <1>3, <1>4, <2>2, <2>3, <2>4, Zenon DEF WholeInv
<1>5. CASE MmapManual /\ segs' = segs /\ i' = i - 1 /\ pc' = "rollback"
  BY <1>1, <1>3, <1>5, Zenon DEF WholeInv
<1>6. CASE MmapManual /\ segs' = segs /\ i = Size[p] /\ pc' = "link"
  BY <1>1, <1>3, <1>6, ZenonT(30) DEF WholeInv
<1>7. CASE MmapService /\ segs' = MapFixed(p, 0..(Size[p] - 1)) /\ pc' = "link"
  <2>1. /\ segs'[p] = segs[p] \union 0..(Size[p] - 1)
        /\ \A q \in Patches \ {p} : segs'[q] = segs[q]
    BY <1>2, <1>7, Zenon
  <2>2. segs'[p] = 0..(Size[p] - 1)
    <3>1. segs[p] = {}
      BY <1>1, <1>7, SMTT(30) DEF MmapService
    <3> QED
      BY <2>1, <3>1, Zenon
  <2> QED
    BY <1>1, <1>3, <1>7, <2>1, <2>2, Zenon DEF WholeInv
<1>8. CASE MmapService /\ segs' = segs /\ pc' = "resume"
  <2>1. segs[p] = {}
    BY <1>1, <1>8 DEF MmapService
  <2> QED
    BY <1>1, <1>8, <2>1, WholeSame, Zenon DEF InWork
<1> QED
  <2>1. MmapService => "mmap" \notin Faults
    BY <1>1, Zenon DEF MmapService
  <2> QED
    BY <1>4, <1>5, <1>6, <1>7, <1>8, <2>1, Zenon DEF MmapManual, MmapService, Goto, Fail

(* Unmapping: a failed load down to segment 0, then a patch is gone. *)
LEMMA WholeUnmap ==
  ASSUME "munmap" \notin Faults, TypeInv, WholeInv, RollbackManual \/ Unload
  PROVE  WholeInv'
<1> DEFINE p == cmd.p
<1>1. /\ pc \in {"rollback", "unload"} /\ p \in Patches /\ cmd' = cmd
      /\ segs \in [Patches -> SUBSET Nat] /\ bound \in [Patches -> BOOLEAN] /\ i \in Int
  <2>1. pc \in {"rollback", "unload"} /\ cmd' = cmd
    BY Zenon DEF RollbackManual, Unload
  <2> QED
    BY <2>1, CommandFields, Zenon DEF TypeInv, TypeOK
<1>2. CASE pc' = "resume" /\ UNCHANGED <<segs, bound>> /\ (InWork(p) => segs[p] = {})
  BY <1>1, <1>2, WholeSame, Zenon DEF InWork
<1>3. CASE /\ pc = "rollback" /\ pc' = pc /\ bound' = bound /\ i' = i - 1
           /\ segs' = [segs EXCEPT ![p] = @ \ {i}]
  <2>1. segs'[p] = segs[p] \ {i} /\ \A q \in Patches \ {p} : segs'[q] = segs[q]
    BY <1>1, <1>3, Zenon
  <2>2. segs'[p] \subseteq 0..i'
    BY <1>1, <1>3, <2>1, SMTT(30) DEF WholeInv
  <2>3. \A q \in Patches : segs'[q] # {} /\ ~InWork(q)' => Whole(q)'
    BY <1>1, <1>3, <2>1, Zenon DEF WholeInv, InWork, Whole
  <2> QED
    BY <1>1, <1>3, <2>2, <2>3, Zenon DEF WholeInv
<1>4. ASSUME pc = "unload", pc' = pc, ~cmd.dry, NEW k,
             segs' = [segs EXCEPT ![p] = @ \ {k}], bound' = [bound EXCEPT ![p] = FALSE]
      PROVE  WholeInv'
  <2>1. \A q \in Patches \ {p} : segs'[q] = segs[q] /\ bound'[q] = bound[q]
    BY <1>1, <1>4, ZenonT(30)
  <2> QED
    BY <1>1, <1>4, <2>1, Zenon DEF WholeInv, InWork, Whole
<1>5. pc = "rollback" /\ i < 0 => segs[p] = {}
  BY <1>1, SMTT(30) DEF WholeInv
<1>6. CASE RollbackManual
  BY <1>1, <1>2, <1>3, <1>5, <1>6, Zenon DEF RollbackManual, Goto
<1>7. CASE Unload
  <2>1. CASE (cmd.dry \/ segs[p] = {}) /\ pc' = "resume" /\ UNCHANGED <<segs, bound>>
    <3>1. pc = "unload"
      BY <1>7, Zenon DEF Unload
    <3> QED
      BY <1>2, <2>1, <3>1, Zenon DEF InWork
  <2>2. CASE /\ ~cmd.dry /\ pc' = pc
             /\ \E k \in segs[p] : segs' = [segs EXCEPT ![p] = @ \ {k}]
             /\ bound' = [bound EXCEPT ![p] = FALSE]
    <3>1. pc = "unload"
      BY <1>7, Zenon DEF Unload
    <3> QED
      BY <1>4, <2>2, <3>1, Zenon
  <2> QED
    BY <1>7, <2>1, <2>2, Zenon DEF Unload, Goto
<1> QED
  BY <1>6, <1>7, Zenon

(* Every step keeps track of which patches are whole. *)
LEMMA WholeStep ==
  ASSUME "crash" \notin Faults, "munmap" \notin Faults,
         "mmap" \notin Faults \/ "plugin" \notin Modes
  PROVE  TypeInv /\ PlaceInv /\ WholeInv /\ [Next]_vars => WholeInv'
<1> SUFFICES ASSUME TypeInv, PlaceInv, WholeInv, [Next]_vars PROVE WholeInv'
  BY Zenon
<1>1. CASE UNCHANGED vars
  BY <1>1, Zenon DEF vars, process, nsb, WholeInv, InWork, Whole
<1>2. CASE \/ ProcessStep \/ \E c \in Commands : Start(c)
           \/ Suspend \/ SuspendFails \/ Resume \/ PreparePatch \/ TuneJumps \/ ApplyJump
           \/ RevertJump \/ RevertJumpsDone
  <2>1. /\ UNCHANGED <<segs, bound>>
        /\ pc \in {"idle", "suspend", "resume", "prepare", "tune", "jump", "unjump"}
    BY <1>2, Zenon
    DEF ProcessStep, Call, Return, Dlclose, Dlopen, Stopped, Start, Suspend, SuspendFails,
        Resume, PreparePatch, TuneJumps, ApplyJump, RevertJump, RevertJumpsDone, process
  <2>2. pc' \notin {"mmap", "rollback", "link"}
    BY <1>2, <2>1, Zenon
    DEF ProcessStep, Call, Return, Dlclose, Dlopen, Start, Suspend, SuspendFails, Resume,
        PreparePatch, TuneJumps, ApplyJump, RevertJump, RevertJumpsDone, nsb, Goto, Exit, Fail
  <2> QED
    BY <2>1, <2>2, WholeSame, Zenon DEF InWork
<1>3. CASE PinPatch
  <2>1. /\ pc = "pin" /\ segs[cmd.p] = {} /\ UNCHANGED <<segs, bound, cmd>> /\ cmd.p \in Patches
        /\ Size[cmd.p] \in Nat
    BY <1>3, CommandFields, ConstantsAssumption, Zenon DEF PinPatch, PlaceInv, TypeInv, TypeOK
  <2>2. CASE pc' = "resume"
    BY <2>1, <2>2, WholeSame, Zenon DEF InWork
  <2>3. CASE i' = 0 /\ pc' = IF cmd.dry THEN "link" ELSE "mmap"
    <3>1. segs'[cmd.p] = 0..(i' - 1) /\ i' <= Size[cmd.p]
      BY <2>1, <2>3, SMTT(30)
    <3>2. \A q \in Patches : segs'[q] # {} /\ ~InWork(q)' => Whole(q)'
      BY <2>1, <2>3, Zenon DEF WholeInv, InWork, Whole
    <3>3. CASE cmd.dry
      BY <2>1, <2>3, <3>2, <3>3, Zenon DEF WholeInv
    <3>4. CASE ~cmd.dry
      BY <2>1, <2>3, <3>1, <3>2, <3>4, Zenon DEF WholeInv
    <3> QED
      BY <3>3, <3>4, Zenon
  <2> QED
    BY <1>3, <2>2, <2>3, Zenon DEF PinPatch, Goto, Fail
<1>4. CASE LinkPatch
  <2>1. /\ pc = "link" /\ UNCHANGED <<segs, cmd>> /\ cmd.p \in Patches
        /\ bound \in [Patches -> BOOLEAN] /\ cmd.dry \in BOOLEAN
        /\ segs[cmd.p] = IF cmd.dry THEN {} ELSE 0..(Size[cmd.p] - 1)
    BY <1>4, CommandFields, ZenonT(30) DEF LinkPatch, TypeInv, TypeOK, WholeInv
  <2>2. CASE pc' = "tune" /\ bound' = [bound EXCEPT ![cmd.p] = ~cmd.dry]
    <3>1. \A q \in Patches \ {cmd.p} : bound'[q] = bound[q]
      BY <2>1, <2>2, Zenon
    <3>2. ~cmd.dry => bound'[cmd.p]
      BY <2>1, <2>2, Zenon
    <3> QED
      BY <2>1, <2>2, <3>1, <3>2, Zenon DEF WholeInv, InWork, Whole
  <2>3. CASE pc' = "unload" /\ bound' = bound
    <3>1. \A q \in Patches : InWork(q) /\ segs[q] # {} => InWork(q)'
      BY <2>1, <2>3, Zenon DEF InWork
    <3> QED
      BY <2>1, <2>3, <3>1, WholeSame, Zenon
  <2> QED
    BY <1>4, <2>2, <2>3, Zenon DEF LinkPatch, Goto, Fail
<1>5. ~Crash
  BY Zenon DEF Crash
<1> QED
  BY <1>1, <1>2, <1>3, <1>4, <1>5, WholeMap, WholeUnmap, Zenon DEF Next, NsbStep

(* JumpsLeadToBoundPatches: when munmap succeeds, nsb is not killed and    *)
(* the service does not fail half way through its mmap command, a patch    *)
(* that has any mapping while the process runs is mapped completely and    *)
(* linked, so a jump finds all of it.  Failures of mmap in nsb itself, of  *)
(* the relocations and of the writes of jumps are allowed.                 *)
THEOREM JumpsFindWholePatches ==
  ASSUME "crash" \notin Faults, "munmap" \notin Faults,
         "mmap" \notin Faults \/ "plugin" \notin Modes
  PROVE  Spec => []JumpsLeadToBoundPatches
<1>1. Init => WholeInv
  BY Zenon DEF Init, WholeInv
<1>2. WholeInv => JumpsLeadToBoundPatches
  BY Zenon DEF WholeInv, InWork, Whole, JumpsLeadToBoundPatches, Stopped
<1> QED
  BY <1>1, <1>2, WholeStep, TypeInit, TypeStep, PlaceInit, PlaceStep, PTL DEF Spec
=============================================================================
