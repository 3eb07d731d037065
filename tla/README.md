# nsb: TLA+ models and proofs

nsb replaces functions of a running process. `nsb patch` stops the process,
maps a patch (a small ELF file) within reach of a 32 bit jump, links it to the
process and overwrites the entry of every replaced function with a jump;
`nsb revert` takes that back. This directory models what these commands do to
the process, step by step, checks the models with TLC on small instances and
proves the central invariants with TLAPS for all instances.

## 1. The system

| part | source | state | operations |
|---|---|---|---|
| commands | `patcher/main.c`, `patcher/patch.c` | none that outlives a command | patch, revert, check, list |
| stopping at a safe point | `patcher/process.c` 287-690, `patcher/util.c` | `ctx->threads` | suspend, catch, infect, check stack, cure |
| stack checks | `patcher/backtrace.c` | frames of one thread | unwind, compare with ranges |
| remote memory | `patcher/process.c` 47-285, 643-666 | mappings and bytes of the process | peek, poke, remote mmap and munmap, run code |
| mappings, ELF maps, placement | `patcher/vma.c`, `patcher/dl_map.c`, `patcher/elf.c`, `patcher/process.c` 937-1011 | `ctx->vmas`, `ctx->dl_maps` | collect, sort, group, find a hole |
| linking | `patcher/relocations.c`, `patcher/rtld.c`, `patcher/patch.c` 362-476 | GOT and code bytes of the patch | collect, resolve, apply |
| encodings | `patcher/x86_64.c` | none | relative offsets, call stubs |
| service plugin | `plugins/service.c`, `patcher/service.c`, `common/scm.c` | sockets, the loaded library | start, request, respond, stop |
| metadata | `patcher/protobuf.c`, `protobuf/*.proto` | none | unpack |
| generator | `generator/*.py` | none | compare two ELF files, resolve symbols, check lines |

How they interact: a command builds everything anew. `process_suspend` stops
all threads at a point where none of them is in the code to change; then the
mappings are listed, and the patches among them form the list of applied
patches, in address order. nsb keeps no other record: the process is the only
persistent state, and whatever a crash or a failed step leaves there is what
the next command finds.

What is hard here, and listed line by line under `hazards` in `PROJECT.json`:
threads that start and end while they are being stopped; a sequence of remote
writes each of which can fail, or be the last one before nsb is killed; several
patches of one function applied and reverted in any order, told apart by their
addresses; placement with `MAP_FIXED`, which replaces what is already there;
error codes that are logged and dropped; options tested in some places and not
in others.

## 2. Modules

| module | models | corresponds to |
|---|---|---|
| `LivePatch` | patch and revert, one remote operation per action | `patch.c`, memory half of `process.c`, mmap handler of `plugins/service.c` |
| `ThreadStop` | `process_suspend` thread by thread | the thread half of `process.c`, `util.c` |
| `PatchStack` | abstract: patches are applied and reverted as a whole | what `README.md` of the repository promises |
| `PatchHistory` | `LivePatch` with the order of application as history variable, and the refinement mapping to `PatchStack` | |
| `Service` | the injected library and the protocol, over several runs of nsb | `patcher/service.c`, `plugins/service.c`, `common/scm.c`, scratch page and dlopen calls of `process.c` |
| `Placement` | operators: holes, pages, jump range, offsets, short references | `x86_64.c`, `find_hole`, parts of `dl_map.c`, `elf.c`, `patch.c` |
| `Mappings` | operators: lists of mappings, ELF objects, segments of a patch | `vma.c`, `dl_map.c`, parts of `elf.c`, `patch.c` |
| `Relocations` | operators: objects to search, symbol lookup, relocation values | `relocations.c`, `rtld.c`, parts of `elf.c`, `process.c` |
| `PatchLoad` | patch and revert at the level of addresses, composed of the three above | `patch.c`, `load_elf`, injection and needed list |
| `StackCheck` | stacks as instruction pointers, the checks, applying and reverting | `backtrace.c`, `process_check_stack`, `patch_check_backtrace` |
| `LivePatchProofs`, `ThreadStopProofs`, `StackCheckProofs`, `ServiceProofs`, `PlacementProofs` | proofs about the module each is named after | |
| `PatchHistoryProofs` | the refinement of `PatchStack`, on top of `LivePatchProofs` | |
| `MappingsProofs` | lemmas about the lists and objects of `Mappings`, on top of `PlacementProofs` | |
| `PatchLoadProofs` | the theorems about `PatchLoad`, on top of `MappingsProofs` | |
| `MCLivePatch`, `MCPatchHistory`, `MCPatchLoad`, `MCStackCheck` | values of constants for TLC | |

### LivePatch

The process is `code` (what is found at the entry of a function: the original
code, a jump, or zeros), `segs` and `base` (which segments of which patch are
mapped, and where), `bound` (the patch is linked), `loaded` (the target
libraries that are mapped) and for every thread the functions (`inOld`) and
patches (`inNew`) it has frames in. nsb is a program counter `pc` and the local
state of one command. The steps:

    suspend --> prepare -> pin -> mmap -> link -> tune -> jump --> resume     patch
                                   |       |                         ^
                                rollback  unload --------------------|
    suspend --> unjump (once per func_jump) --> unload ------------> resume   revert

Every label is one function or loop of the code (see `map` in `PROJECT.json`).
Between `suspend` and `resume` the process is stopped; otherwise its threads
call, return, close and open libraries. `Faults` says what may fail: a remote
`mmap` or `munmap`, linking (`link`), an access of process memory while jumps
are written or taken back (`poke`), reading the target's file (`tune`), and nsb
being killed between any two steps (`crash`).

Abstractions. An address is a cell that holds one segment; `1..N` is the range
a jump from the target reaches and `Busy` are the cells that other mappings
take. `Busy` is a constant: the other mappings of the process are the same
before, during and after all commands. (`PatchLoad`, with real addresses, has a
process that maps memory and loads a library between commands, but none that
unmaps memory.) A process that unmaps memory below an applied patch makes room there
for a later one, and then addresses do not tell the order of the patches: what
`revert_order` shows for patches of two sizes happens for patches of any size.
The executable segment of a patch is its first one, as
`dlm_load_base` and the plugin's limit of two mappings suppose. A
jump is the address of the executable segment it leads into, not the place in
it. Frames are sets: their order on the stack is never looked at. The target is
within one library, as `target_bid` is one build id. `Suspend` is one step, which
`ThreadStop` justifies. Linking is one step, which
fails as a whole or not at all. The descriptor of the patch file that
`process_mmap_dlm_manual` leaves open in the process when a mapping fails is left
out. There is one nsb at a time: a second one cannot
attach with ptrace. Of the service plugin only what patches see is here; the rest
is `Service`.

### ThreadStop

The process has threads that run, clone, exit, are killed and are stopped by
signals of others; `held` are the threads nsb has stopped. nsb reads
`/proc/<pid>/task` entry by entry (`walk`), adds what is new to `threads`, then
seizes the listed threads one by one, until a round ends with the last thread
of the list seized; then it looks at the stacks, and cures all threads when one
of them is in a bad place. The kernel lists threads in the order they were
created; when an entry that was returned is gone, readdir may skip others
(`MaySkip`). What libcompel's `compel_stop_task` says of a thread that is
already held or gone is a choice (`StopResults`).

### PatchStack and PatchHistory

`PatchStack` has a stack of patches and for every function the patch whose
version runs. `PatchHistory` adds to `LivePatch` the list `order` of patches
that were applied, and `view`, what the process could see when it ran last;
`Stack` is `PatchStack` with `view` for its variables. With `Lifo` users revert
the patch that was applied last.

### Service

One nsb after another brings the library into the process, talks to it and
takes it out again. The process keeps `lib` (dlopen count, listening socket,
backlog, the accepted connection), `segs` (segments of the patch) and `left`
(what the last nsb left of its own). `requests` and `answers` are the two
directions of each connection, named by the number of the nsb that opened it.
A remote call (`process_exec_code`) is one step, as the thread that makes it
runs only then. Almost every step has a fault of its own, some of them with the
outcome that the code gives them rather than the intended one: a failed
`recv` is taken for an answer (`blind`), a failed mmap of the scratch page for an
address (`page = "bad"`), a failed constructor is not noticed.

The contents of messages are left out: a request is its kind, an answer its
kind and result. The real patch has exactly two segments here, the number
the plugin accepts. Fault flags `orphan`, `hit` and `blind` are for the properties.

### Placement, Mappings, Relocations and PatchLoad

`Placement`, `Mappings` and `Relocations` are operators without state, named after the
functions they translate. Addresses are bytes, and arithmetic wraps at
`LongBits` where the code's does at 64; the offset of a jump has `IntBits` where
the code's has 32. `PatchLoad` has the mappings and link maps of a process, and
nsb's copies of them (`vmas`, `dlms`, `needed`), which are read at the
beginning of a command and go stale when the plugin is injected. Between
commands the process maps anonymous memory and loads a library. The next mapping
of the last one is garbage, as in the code, where the list head is taken for it.

Supposed: the executable segment of a patch is its first; a patch with a second
executable segment is refused, as is one that has not two segments when the plugin
maps it; dlopen maps nothing but the library, and libraries that the process opens
are global, so that the order of the link maps is the scope of a lookup; all reads of
process memory succeed (a dynamic section that `rtld_needed_array` cannot read would
be left out without an error); the layout of the files is what `create_elf_mmaps` reads (file
size, so no bss beyond the last page). The six instructions before the call of
the injected code have one byte each instead of ten, in proportion to
the range. The failures of `LivePatch` are left out except a failing dlclose,
which is the one that changes what the next command computes.

### StackCheck

`stack[t]` are the instruction pointers that libunwind would return, innermost
first; a signal frame is an entry of its own. Threads step, call, return and
take signals between two tries of nsb, which reads the stacks when they are
stopped. For every thread libunwind succeeds, fails in a way that the code tries
again (`EAGAIN`), or fails in a way that ends the command (`Unwinds`). A return address may be just after its function, when the callee
does not return. The outermost frame, which `do_backtrace` does not record, is in
`Main`: the entry of a thread is not a function that is patched. Every function
that is replaced is at least as long as the jump, which the generator enforces
(`MIN_FUNC_SIZE` in `generator/binpatch.py`).

## 3. What is checked

Each run's instance is small but has the cases that matter: two patches that
replace one function together and one of them a second function, a busy cell
that splits the range so that one hole fits a patch and another does not, a
patch with two segments so that one can be mapped without the other, and one
with a single segment, which the plugin refuses. One thread is
enough in `LivePatch`, whose properties are about one thread and one place at a
time; `ThreadStop` has three.

| run | properties | result |
|---|---|---|
| `faults` | `TypeOK`, `RedirectedFunctionsIdle`, `OtherPatchesKept` | hold with every fault, crash, mode and dry run (2 million states) |
| `safety` | `NoDanglingJump`, `NoStrayFrame`, `RevertRecovers`, `ProcessResumed` | hold with failing mmap, munmap and linking, crashes, dry runs, and a library that comes and goes; `ProcessResumed` excepts the dlopen call of the plugin |
| `atomic` | `AtomicForTheProcess`, `LatestPatchRuns`, `JumpsLeadToBoundPatches`, `CheckReportsApplied` | hold for three patches in no-plugin mode, with failing mmap and linking, reverted last in first out and placed in an unfragmented range |
| `thread_stop` | `TypeOK`, `SafeWhenCaught`, `FreedBeforeRetry`, `SuspendEnds` | hold for up to three threads and two tries |
| `service` | `TypeOK`, `OwnConnection`, `AnswerMatches`, `LinksWhatIsMapped`, `LeavesNoTrace`, `ProcessSurvives`, `WorksAfterFailures`, `CommandEnds` | hold for four runs of nsb with every fault and a crash at any step, with the exceptions named below |
| `load` | `PatchIsAddedUnlessLeftOver`, `NoNesting`, `RevertLeavesNothing`, `PlacingAsExpected`, `InReachOfPatch`, `SearchesLinkedObjects`, `LinkedLikeByTheLoader`, `StaticRefsExact` | hold for two commands on two patches with and without the plugin (700,000 states) |
| `stack_check` | `NoOldFrames`, `NoUnmappedFrames` | hold for two threads, two patches and two functions, applied and reverted any number of times |
| `dry_run_revert` | `DryRunChangesNothing` | violated: `write_func_code` ignores `dry_run` |
| `half_loaded` | `CheckReportsApplied` | violated: the plugin's error path leaves the first mapping |
| `revert_order` | `LatestPatchRuns` | violated: "previous" means lower address, not applied before |
| `zombie` | `DeadProcessNoticed` | violated: the loop of `process_infect` never ends for a zombie |
| `leftover_plugin` | `PatchIsAdded` | violated: a plugin left by an earlier command is listed twice, and a taken place is taken for a hole |

The last five are disagreements between the code and its own text; each is
described with its lines under `findings`. They also delimit the passing runs:
`atomic` has an unfragmented range because of `revert_order` and no plugin
because of `half_loaded`, and `PatchIsAddedUnlessLeftOver` excepts
`leftover_plugin`. The passing runs have further limits, where the code is known
not to do better:

* `safety` and `atomic` have no failing accesses of process memory (`poke`,
  `tune`). `apply_func_jumps` and `patch_revert_func_jumps` log such a failure
  and return 0: a patch is then reported as applied with some of its jumps
  missing, and a revert unmaps a patch that a function still jumps into. With
  "poke" among the `Faults` of these runs TLC finds both.
* In `safety`, a process that hangs in the dlopen call of the plugin stays stopped
  (`InDlopen`).
* In `service`, an nsb that ends between connect and accept leaves its connection
  in the backlog (`orphan`), and the next command's plugin accepts that one; a
  lock held by a stopped thread makes dlopen hang (`held`); after a failed recv
  the answer is made up (`blind`); a library whose constructor failed stays deaf
  until it is unloaded. The properties except exactly these.
* In `load`, a library that the process maps into the gap of a patch (`InGap`)
  splits the list of its mappings; weak undefined symbols are never looked up
  (`resolve_es`), so `LinkedLikeByTheLoader` leaves them out.

In `atomic`, reverting last in first out is an assumption about users, made
because of `revert_order`: with an unfragmented range, in which nothing else is ever
mapped or unmapped, address order is then the order of application. `CheckReportsApplied` says nothing about a patch left by
a crash, which nsb has no way of telling from an applied one.

Bounds: `N` is 4 or 6 cells: with 4, the busy cell leaves no hole for one patch
when the other was put in its place, and with 6 it leaves a hole to spare. `MaxJumps` is 2, the
length of the longest list of func_jumps. `Tries` is 2 instead of 25, enough
for one retry and for giving up. `MaxTid` is 3, so that a thread can be cloned
while the list is read and exit while a later one is being seized. `MaxNsb` is 4:
one nsb leaves a connection or a library, a second and a third make the
count or the backlog worse, a fourth meets the result. In `load`, a page has eight
bytes and a jump reaches four of eleven pages, so that places out of reach exist on
both sides; one patch has a gap between its segments and data that starts
within a page, the library is in a place where the patch fits exactly or with room
to spare, and two commands make one patch meet the other, a revert meet a patch,
or a command meet a plugin that was left. In `stack_check`, `MAX_DEPTH` is 1 and
the stacks have up to 4 frames, so that some are too deep.

Fairness is weak and of nsb alone. nsb is a single thread; it takes its next step as
long as it has one, and its loops are bounded. In `LivePatch` the one step excepted is
the return from the dlopen call (`~InDlopen /\ NsbStep`), since a lock held by a
stopped thread may keep it from returning; `ProcessResumed` says that the process is
let go from any other step. In `Service` it is for the steps of nsb that are not faults, so
that no fault is needed to end a wait, and `CommandEnds` excepts the same lock. In
`ThreadStop` nothing is assumed of the scheduling of the process: its threads may never
run, and never leave the functions that are to change, and nsb gives up then. But
`SuspendEnds` does rest on the process creating finitely many threads (`MaxTid`): the loop
of `process_infect` has no bound of its own, and one that clones faster than nsb
seizes could keep it going. `SuspendEnds` also excludes the zombie leader, which is
`zombie`.

## 4. What is proved

Every theorem is for all values of the constants, under the named assumptions of
the modules, which TLC evaluates on the runs' instances. Every inductive
invariant below was checked with TLC before it was proved.

| theorem | statement | module, conditions |
|---|---|---|
| `Typed` | `Spec => []TypeOK` | `LivePatch`, any faults |
| `OthersKept` | `Spec => OtherPatchesKept` | `LivePatch`, any faults |
| `OverwrittenFunctionsIdle` | `Spec => []RedirectedFunctionsIdle` | `LivePatch`, any faults |
| `JumpsLeadToMappedCode` | `Spec => []NoDanglingJump` | `LivePatch`, no `poke`, `tune` |
| `FramesInMappedCode` | `Spec => []NoStrayFrame` | `LivePatch`, no `poke`, `tune` |
| `RevertUndoesAll` | `Spec => []RevertRecovers` | `LivePatch`, no `poke`, `tune` |
| `JumpsFindWholePatches` | `Spec => []JumpsLeadToBoundPatches` | `LivePatch`, no `crash`, `munmap`; no `mmap` in plugin mode |
| `ImplementsPatchStack` | `SpecH => AtomicForTheProcess` | `PatchHistory`, `Orderly` |
| `RunsLatestPatch` | `SpecH => []LatestPatchRuns` | `PatchHistory`, `Orderly` |
| `CheckFindsAppliedPatches` | `SpecH => []CheckReportsApplied` | `PatchHistory`, `Orderly` |
| `ThreadStopTyped` | `Spec => []TypeOK` | `ThreadStop` |
| `StoppedAtSafePoint` | `Spec => []SafeWhenCaught` | `ThreadStop` |
| `FreedWhileWaiting` | `Spec => []FreedBeforeRetry` | `ThreadStop` |
| `OldBodiesUnused` | `Spec => []NoOldFrames` | `StackCheck` |
| `UnmappedPatchesUnused` | `Spec => []NoUnmappedFrames` | `StackCheck` |
| `ServiceTyped` | `Spec => []TypeOK` | `Service`, any faults |
| `AcceptsOwnConnection` | `Spec => []OwnConnection` | `Service`, any faults |
| `AnswersMatchRequests` | `Spec => []AnswerMatches` | `Service`, any faults |
| `LinksMappedPatch` | `Spec => []LinksWhatIsMapped` | `Service`, any faults |
| `SuccessLeavesNoTrace` | `Spec => []LeavesNoTrace` | `Service`, any faults |
| `LibraryKillsNobody` | `Spec => []ProcessSurvives` | `Service`, any faults |
| `FaultlessCommandsWork` | `Spec => []WorksAfterFailures` | `Service`, any faults |
| `PlaceIsFree` | no mapping is in the place that `process_find_place_for_elf` returns | `Placement`, `ListOK` |
| `PinnedPatchIsFree` | no segment that `pin_elf_mmaps` places is over a mapping | `Placement`, `Placing` |
| `PinnedPatchInReach` | every jump to, and reference from, a placed segment fits | `Placement`, `Placing` |
| `JumpsEncodable`, `ReferencesFit` | the same for any place that passes `dl_map_check_jump_range` at both ends | `Placement`, `TargetOK` |
| `JumpsLand` | an offset that `ip_gen_offset` accepts leads to the target | `Placement` |
| `OverflowTestExact` | the overflow test of `apply_static_ref` passes a value if and only if it is read back | `Placement` |
| `PlacesAsExpected` | `Spec => []PlacingAsExpected` | `PatchLoad` |
| `AddsPatch` | `Spec => PatchIsAddedUnlessLeftOver` | `PatchLoad` |
| `BindsInReach` | `Spec => []InReachOfPatch` | `PatchLoad` |
| `NestsNoPatch` | `Spec => NoNesting` | `PatchLoad` |
| `RevertUnmapsAll` | `Spec => RevertLeavesNothing` | `PatchLoad` |

### LivePatch

For any patches, functions, threads, segments, address range and busy cells.
Each invariant rests on the ones before it.

* `TypeInv` is `TypeOK` with the lower bounds of the cursor in the loops over
  segments (0) and over func_jumps (1).
* `PlaceInv`: no two patches share a cell, and while segments are being mapped
  the cells of the whole patch, mapped or not, are reserved: none belongs to
  another patch. This is what makes `MAP_FIXED` harmless. `OtherPatchesKept`
  alone says nothing about the place chosen before the first segment is mapped,
  and is not inductive.
* `IdleInv`: a thread is inside original code only, and while a patch is being
  applied none is inside a function that it replaces. Revert needs no such
  clause: it writes only where there is a jump already.
* `JumpInv`: every jump and every frame leads to a mapped segment 0, and a
  library that is not loaded has no jumps. No jump or frame leads to the place
  of a patch that is being mapped or linked; when its jumps are written its
  segment 0 is mapped. During `unjump` the func_jumps before the cursor do not
  lead to the patch any more, and during `unload` no jump and no frame does. So
  what is unmapped was not used. A `tune` fault breaks the clause that all
  func_jumps of the patch are tuned, and a `poke` fault leaves the loop of
  `unjump` early, so that a jump still leads to the patch at `unload`.
* `RevertInv`: a revert reaches `resume` without an error only when no segment
  of the patch is left. With `JumpInv` that is `RevertRecovers`; nothing about
  how the patch came to be there is needed, which is why crashes are allowed.
* `WholeInv`: a patch of which anything is mapped is completely mapped and
  linked, unless it is the one that is being loaded or unloaded; of that one
  `mmap` and `rollback` know which segments are there. The excluded faults are
  the ones that leave part of a patch: a crash, a failed munmap, and the
  plugin's error path, which forgets mapping 0 (`half_loaded`).

### PatchHistory

`Orderly` is what makes nsb's way of telling patches apart by address sufficient, and a
condition on constants, so that the theorems are for every instance that meets it: the user
reverts the patch applied last (`Lifo`), libraries are not closed and opened, the
steps that nsb does not undo succeed (only `mmap` and `link` may fail, and `mmap` only in
no-plugin mode, because of `half_loaded`), reverts are not dry runs (`dry_run_revert`), and
either all patches have one size or the free cells are one range. With it goes the
assumption that `Busy` is a constant. Each part excludes a case in which the code
does not do what is proved.

`HistoryInv` has four parts on top of `TypeInv`, `PlaceInv`, `JumpInv`, `RevertInv` and
`WholeInv` (`Background`):

* `ListInv`: the patches whose command went through are exactly those that are mapped, but
  for the one under way; a patch that is reverted is the last.
* `OrderInv`: the patches are at increasing addresses, and (`Ascending`) whatever place was
  free for any patch when one of them was placed is above it. The second half is
  what `LatestPatchRuns` alone lacks: the next patch goes to the lowest hole that fits, and only
  if no lower one was passed over is that hole above all patches. In the run `revert_order` a small
  patch fits in a hole that a large one passed over, and `OrderInv` is what fails.
* `CodeInv`: every function leads to the last patch that replaces it, but for the func_jumps that
  the command under way has been past.
* `ViewInv`: what the process saw is the list before the command, or, once the last step is done
  and the process is about to run, one patch more or less. That one difference is the step of
  `PatchStack`.

### ThreadStop

For any number of threads and tries. `ListInv`: no thread is listed twice, the
seized threads are a prefix of the list, and exactly they are held until the
process is killed. `WalkInv`: threads are created in the order of the directory,
and a walk during which all listed threads are seized passes over no entry, since
entries are only passed over when one that was returned is gone. `StepInv`: what
is established at each step. Together: the loop of `process_infect` looks only at
the last thread of the list, but if that one is seized they all are, so nothing
in the list can exit, so the last walk was complete, so every thread is held.

### StackCheck

For any threads and tries and stacks of any depth. `StacksInv`: no entry of any
stack is inside an overwritten body or an unmapped patch (`Allowed`); the running
function, and what a signal interrupted, is in some body; the outermost frame is
in `Main`. `Checked`: once caught, the stacks have what `process_check_stack` saw,
in every frame but the outermost. `LayoutAssumption`, `PatchAssumption` and
`SigReturnAssumption` say what the linker and the kernel guarantee: functions do
not overlap each other or a mapping of a patch, the outermost function is none that a patch
changes and nothing returns past it (it is not in the backtrace), code of others
does not end exactly where the mapping of a patch begins, and of any patches one
is the highest.

### Service

For any number of runs of nsb, any backlog and any set of faults. `IInv` has five
parts besides the types: `PcInv` (what nsb holds at each step), `LibInv` (the
library is loaded as long as somebody has a reference; an orphaned connection
means that an earlier nsb still has one), `SocketInv` (unless a connection was
orphaned, the backlog has at most the connection of this nsb), `WireInv` (the
request of this nsb is the one it sent last, at most one answer is under way
unless a recv failed, and what other nsb left in a socket is at most a request
that nobody reads) and `ResultInv` (what the process keeps, and what a failure
without a fault is due to). The properties are not inductive one by one: that an
answer matches depends on which connection was accepted, that on the backlog, and
that on who still has a reference to the library.

### Placement

The theorems are about the operators, for any page size, any widths of addresses and
offsets, and any list of mappings, target and patch. `Placing` says what
`pin_elf_mmaps` relies on: an ordered list of mappings of whole pages, none over
another, and a patch of whole pages that begins in page 0. That the
code provides it whenever it calls `pin_elf_mmaps` is `PlacesAsExpected` below; the
exception, a plugin that was left over, is where two mappings of the list overlap, and there the
conclusion fails as well (`leftover_plugin`). `OverflowTestExact` is for references of four
bytes, the size the test of the code is about; references of eight are not tested and need not be.

The argument: the unsigned difference in `find_hole` is the size of the gap since
the next mapping begins behind the end of this one and behind the hint, and behind
the last mapping any place is free. The segments of a patch in whole
pages fit between the place and its end (`SegmentInPlace`). Both ends of the place
are within half an int of the target although the sums in `dl_map_check_jump_range`
may wrap (`ReachBounds`), so all offsets are (`OffsetFits`, `FitsIff`).
`PowersAssumption` states the few facts about powers of two that the provers
cannot derive.

### Mappings and PatchLoad

For any processes, layouts, patches, page size, widths and number of commands. `LoadAssumption`
states what the kernel and the linker provide: mappings are whole pages and do not overlap
(`MapsOK`), the address space is within the width of an address, and the program headers of a
patch are in order, from page 0 on, in different pages (`PhdrsOK`).

`LoadInv` says that nsb's copies agree with the process at each step of a command: the mappings
are well formed, `vmas` lists every one of them in order, also after the plugin was injected
(unless one was left over), `dlms` is the grouping of those that are not the plugin's, the target
is known and the patch is not, and a patch that is being bound is in reach. The properties alone say nothing of these copies before `load_elf` uses them.

The lists are results of folds. What a fold returns is proved by induction on the set of rounds
done so far (`Rounds`): a set of numbers that has 0 and with every number below the length the next
one has all of them, which needs no induction rule with an operator parameter. Along it
go the insertion into a sorted list (`AddSorted`, `SpliceSorted`), the reading of the mappings
(`Collected`), the grouping into objects (`DlMapsOf`) and the mapping of segment after segment
(`MapSegmentsOK`). `PinnedAround` and `NothingInside` give `NestsNoPatch`: a hole inside an object is
`Interior` unless the process mapped something there.

### Only model-checked

* Liveness (`ProcessResumed`, `SuspendEnds`, `CommandEnds`): fairness and `ENABLED`
  are out of reach of the prover.
* `SearchesLinkedObjects`, `LinkedLikeByTheLoader` and `StaticRefsExact`: they rest on how
  addresses of link maps are found again among the objects, on filters (`SelectSeq`) and on the
  search of `find_dym_sym`, over lists of link maps about which the model says little in
  general.

## 5. Plan

1. Proofs: `StaticRefsExact` from `LoadInv` with the load bases of both objects, then
   `SearchesLinkedObjects`.
2. `PatchLoad` with the failures of `LivePatch`, with a process that unmaps memory, and with a
   dlopen that maps more than the library.

## 6. Not modelled

The generator (`generator/*.py`): pure functions of two ELF files and their debug
information, without state or concurrency; a model would repeat its lookups in
symbol tables and DWARF trees line by line. What the patcher relies on is an
assumption: the size of functions in `StackCheck`, the `target_value` of a static
reference in `MCPatchLoad`, which is computed there as the generator does.

The capacity of the array in `rtld_needed_array`, which is exceeded with more than
ten objects: past the end of an allocation the code has no behaviour to model.
`nsb list`, which only reads.

ELF parsing through libelf (the rest of `patcher/elf.c`), the copying of
metadata messages (`patcher/protobuf.c`), logging, list and allocation macros, argument parsing and usage
text, the macros of manual patches (`include/vzp.h`) and the test programs: input
and output, or code without state. Memory exhaustion in nsb itself ends a command
like any other failure of the step it happens in.
