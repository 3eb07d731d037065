------------------------------- MODULE PatchLoad -------------------------------
(***************************************************************************)
(* Patches are put into the address space of a process, bound to it and    *)
(* taken out again, at the level of addresses: the commands patch and      *)
(* revert of patcher/patch.c with the mappings, objects and symbols of     *)
(* Mappings and Relocations, over several commands, while the process maps *)
(* memory and loads a library between them.                                *)
(*                                                                         *)
(* LivePatch has the failures, the threads and the jumps of the same       *)
(* commands; here the process is stopped while nsb runs and every remote   *)
(* operation succeeds but the dlclose call.                                *)
(***************************************************************************)
EXTENDS Relocations

CONSTANTS
  UserPages,    \* pages of the process's address space
  Exe, Lib,     \* files mapped from the start: the executable and a library
  Late,         \* a library that the process may load later
  Vdso,         \* the link map of the vdso
  Plugin,       \* libnsb_service.so
  Patches,      \* patch files
  Target,       \* Target[p]: the file that p patches
  Phdrs,        \* Phdrs[p]: the program headers of p to load
  Layouts,      \* initial mappings of Exe and Lib
  SymTabs,      \* symbol tables of the files, one of which holds
  Symbols,      \* Symbols[p]: relocations and marked symbols of p
  StaticRefs,   \* StaticRefs[p]: references of p to data of its target
  SymtabOffset, \* of DT_SYMTAB in a file
  FuncValue,    \* of the functions that nsb calls: dlopen in Lib, the plugin's
  Garbages,     \* pointers of nsb that may be taken for an address
  MaxAnon,      \* bound on the anonymous mappings of the process
  MaxCommands,  \* bound on the commands
  Faults        \* {"dlclose"} if the dlclose call may fail

VARIABLES
  maps,         \* the mappings of the process
  links,        \* its list of link maps
  refs,         \* dlopen calls of the plugin not undone
  symtabs,      \* its symbol tables
  bound,        \* bound[p]: what nsb wrote into the mapped patch p
  pc, cmd, count, \* nsb: next step, command, number of commands so far
  scratch,      \* ctx->remote_vma
  vmas,         \* ctx->vmas
  dlms,         \* ctx->dl_maps
  service,      \* ctx->service.dlm, as a sequence of at most one object
  needed,       \* ctx->needed_list
  resolved,     \* the relocations of the patch, resolved
  patch_dlm,    \* the mappings of the patch
  ret

process == <<maps, links, refs, symtabs, bound>>
ctx == <<scratch, vmas, dlms, service, needed, resolved, patch_dlm>>
vars == <<process, pc, cmd, count, ctx, ret>>

NoVma == Vma(0, 0, NoFile, FALSE)
NotBound == [got |-> <<>>, refs |-> <<>>]

Fail(label) == pc' = label /\ ret' = "fail"

-----------------------------------------------------------------------------
(* The address space.                                                      *)

Free(v) == \A w \in maps : ~Overlap(v, w)

(* mmap at an address that the kernel chooses; it is never the first page. *)
AnyPlace(pages, path, exec) ==
  {v \in {Vma(PageSize * i, PageSize * (i + pages), path, exec) :
            i \in 1..(UserPages - pages)} : Free(v)}

Mapped(path) == {v \in maps : v.path = path}
StartOf(path) == Min({v.start : v \in Mapped(path)})

ASSUME LoadAssumption ==
  /\ \A m \in Layouts : MapsOK(m)
  /\ UserPages \in Nat
  /\ PageSize * UserPages <= 2^LongBits
  /\ Garbages \subseteq Addresses
  /\ Plugin # NoFile
  /\ Plugin \notin Patches /\ NoFile \notin Patches
  /\ \A p \in Patches : PhdrsOK(Phdrs[p])

LinkMap(path, start) ==
  [path |-> path, l_addr |-> IF path \in Static THEN 0 ELSE start,
   symtab |-> start + SymtabOffset]

VdsoLink == [path |-> Vdso, l_addr |-> PageSize, symtab |-> SymtabOffset]

-----------------------------------------------------------------------------
(* The process, between commands.                                          *)

Mmap ==
  /\ pc = "idle"
  /\ Cardinality(Mapped(NoFile)) < MaxAnon
  /\ \E v \in AnyPlace(1, NoFile, FALSE) : maps' = maps \union {v}
  /\ UNCHANGED <<links, refs, symtabs, bound, pc, cmd, count, ctx, ret>>

Dlopen ==
  /\ pc = "idle"
  /\ Mapped(Late) = {}
  /\ \E v \in AnyPlace(1, Late, TRUE) :
       /\ maps' = maps \union {v}
       /\ links' = Append(links, LinkMap(Late, v.start))
  /\ UNCHANGED <<refs, symtabs, bound, pc, cmd, count, ctx, ret>>

-----------------------------------------------------------------------------
(* The beginning of a command.                                             *)

(* process_cease: after process_suspend, process_link maps the scratch     *)
(* page, then process_collect_vmas reads the mappings.                     *)
process_cease ==
  /\ pc = "idle"
  /\ count < MaxCommands
  /\ count' = count + 1
  /\ cmd' \in [op : {"patch"}, patch : Patches, plugin : BOOLEAN]
         \union [op : {"revert"}, patch : {p \in Patches : Mapped(p) # {}},
                 plugin : {FALSE}]
  /\ \E v \in AnyPlace(1, NoFile, TRUE) :
       /\ scratch' = v
       /\ maps' = maps \union {v}
       /\ vmas' = collect_vmas(maps \union {v})
  /\ dlms' = collect_dl_maps(vmas')
  /\ IF \E d \in Range(dlms') : TwoExecVmas(d)
     THEN pc' = "unlink" /\ ret' = "fail"
     ELSE pc' = cmd'.op /\ ret' = "ok"
  /\ UNCHANGED <<links, refs, symtabs, bound, service, needed, resolved, patch_dlm>>

TargetDlm == find_dl_map_by_bid(dlms, Target[cmd.patch])[1]

(* process_find_patch, process_find_target_dlm and, without the plugin,    *)
(* process_collect_needed by rtld_needed_array.                            *)
PatchProcess ==
  /\ pc = "patch"
  /\ IF \/ find_dl_map_by_bid(dlms, cmd.patch) # <<>>
        \/ find_dl_map_by_bid(dlms, Target[cmd.patch]) = <<>>
     THEN Fail("unlink") /\ UNCHANGED needed
     ELSE IF cmd.plugin
     THEN pc' = "inject" /\ UNCHANGED <<needed, ret>>
     ELSE /\ needed' = process_collect_needed(dlms, rtld_needed_array(links))
          /\ IF needed' = <<>> THEN Fail("unlink") ELSE pc' = "resolve" /\ UNCHANGED ret
  /\ UNCHANGED <<process, cmd, count, scratch, vmas, dlms, service, resolved,
                 patch_dlm>>

(* Wrong service_collect_vmas: what dlopen mapped is not added. *)
CollectNothing(m) == vmas

(* service_collect_vmas: the mappings of the library are put among the     *)
(* others.                                                                 *)
service_collect_vmas(m) == splice_vma_lists_sorted(collect_vmas_by_path(m, Plugin), vmas)

(* process_inject_service: dlopen maps the library unless it is loaded;    *)
(* then process_collect_needed, in the library.  A library out of reach of *)
(* a call from the scratch page cannot be used.                            *)
process_inject_service ==
  LET dlopen == dl_map_symbol_value(find_dl_map_by_bid(dlms, Lib)[1], FuncValue)
      Callable(dlm) == x86_64_call(dl_map_symbol_value(dlm, FuncValue), scratch.start)
  IN
  /\ pc = "inject"
  /\ \/ /\ ~x86_64_call(dlopen, scratch.start)
        /\ Fail("unlink")
        /\ UNCHANGED <<maps, links, refs, vmas, service, needed>>
     \/ /\ x86_64_call(dlopen, scratch.start)
        /\ refs' = refs + 1
        /\ IF refs > 0
           THEN UNCHANGED <<maps, links>>
           ELSE \E v \in AnyPlace(1, Plugin, TRUE) :
                  /\ maps' = maps \union {v}
                  /\ links' = Append(links, LinkMap(Plugin, v.start))
        /\ vmas' = service_collect_vmas(maps')
        /\ service' = collect_dl_maps(collect_vmas_by_path(maps', Plugin))
        /\ needed' = IF Callable(service'[1])
                     THEN process_collect_needed(dlms, nsb_service_cmd_needed_list(links'))
                     ELSE <<>>
        /\ IF needed' # <<>>
           THEN pc' = "resolve" /\ UNCHANGED ret
           ELSE Fail("dlclose")
  /\ UNCHANGED <<symtabs, bound, cmd, count, scratch, dlms, resolved, patch_dlm>>

End == IF service # <<>> THEN "dlclose" ELSE "unlink"

(* collect_relocations and resolve_relocations *)
ResolveRelocations ==
  LET r == resolve_relocations(symtabs, Symbols[cmd.patch], needed, TargetDlm) IN
  /\ pc = "resolve"
  /\ IF r.ok
     THEN resolved' = r.es /\ pc' = "load" /\ UNCHANGED ret
     ELSE Fail(End) /\ UNCHANGED resolved
  /\ UNCHANGED <<process, cmd, count, scratch, vmas, dlms, service, needed, patch_dlm>>

-----------------------------------------------------------------------------
(* apply_dyn_binpatch                                                      *)

(* The plugin maps two segments, and refuses any other number. *)
MmapRefused(segments) == cmd.plugin /\ Len(segments) # 2

(* load_patch: load_elf finds the place and maps the segments; it fails if *)
(* add_dl_vma_sorted refuses one of them, or there is no place.            *)
load_elf ==
  LET dlm == create_elf_mmaps(cmd.patch, Phdrs[cmd.patch]) IN
  /\ pc = "load"
  /\ \E garbage \in Garbages :
       LET pinned == pin_elf_mmaps(vmas, dlms \o service, dlm, TargetDlm, garbage) IN
       IF TwoExecVmas(dlm) \/ pinned = <<>> \/ MmapRefused(pinned)
       THEN Fail(End) /\ UNCHANGED <<maps, patch_dlm>>
       ELSE /\ maps' = MapSegments(maps, pinned)
            /\ patch_dlm' = <<[dlm EXCEPT !.vmas = pinned]>>
            /\ pc' = "bind"
            /\ UNCHANGED ret
  /\ UNCHANGED <<links, refs, symtabs, bound, cmd, count, scratch, vmas, dlms, service,
                 needed, resolved>>

Relocs(ss) ==
  [i \in DOMAIN ss |-> StaticReloc(TargetDlm, patch_dlm[1], ss[i].target_value)]

(* apply_relocations and apply_static_refs; the patch is unloaded when a   *)
(* reference does not fit.                                                 *)
BindPatch ==
  LET ss == StaticRefs[cmd.patch]
      relocs == Relocs(ss)
  IN
  /\ pc = "bind"
  /\ IF \A i \in DOMAIN relocs : ss[i].patch_size < 8 => StaticRefFits(relocs[i])
     THEN /\ bound' = [bound EXCEPT ![cmd.patch] =
                [got |-> [i \in DOMAIN resolved |-> apply_es(patch_dlm[1], resolved[i])],
                 refs |-> [i \in DOMAIN relocs |-> write_static_ref(relocs[i], ss[i].patch_size)]]]
          /\ pc' = End
          /\ UNCHANGED <<maps, ret>>
     ELSE /\ maps' = maps \ Range(patch_dlm[1].vmas)
          /\ Fail(End)
          /\ UNCHANGED bound
  /\ UNCHANGED <<links, refs, symtabs, cmd, count, ctx>>

(* revert_dyn_binpatch: patch_unload unmaps the object that has the build  *)
(* id of the patch.                                                        *)
RevertPatch ==
  /\ pc = "revert"
  /\ maps' = maps \ Range(find_dl_map_by_bid(dlms, cmd.patch)[1].vmas)
  /\ bound' = [bound EXCEPT ![cmd.patch] = NotBound]
  /\ pc' = "unlink"
  /\ UNCHANGED <<links, refs, symtabs, cmd, count, ctx, ret>>

-----------------------------------------------------------------------------
(* process_resume                                                          *)

(* The nsb process is gone, and with it all that it knew. *)
Forget ==
  /\ pc' = "idle"
  /\ cmd' = [op |-> "none"]
  /\ scratch' = NoVma
  /\ vmas' = <<>>
  /\ dlms' = <<>>
  /\ service' = <<>>
  /\ needed' = <<>>
  /\ resolved' = <<>>
  /\ patch_dlm' = <<>>

(* process_shutdown_service: an error leaves the scratch page as well. *)
process_shutdown_service ==
  /\ pc = "dlclose"
  /\ \/ /\ refs' = refs - 1
        /\ maps' = IF refs = 1 THEN maps \ Mapped(Plugin) ELSE maps
        /\ links' = IF refs = 1 THEN SelectSeq(links, LAMBDA lm : lm.path # Plugin)
                    ELSE links
        /\ pc' = "unlink"
        /\ UNCHANGED <<cmd, ctx, ret>>
     \/ /\ "dlclose" \in Faults
        /\ ret' = "fail"
        /\ Forget
        /\ UNCHANGED <<maps, links, refs>>
  /\ UNCHANGED <<symtabs, bound, count>>

process_unlink ==
  /\ pc = "unlink"
  /\ maps' = maps \ {scratch}
  /\ Forget
  /\ UNCHANGED <<links, refs, symtabs, bound, count, ret>>

-----------------------------------------------------------------------------
Init ==
  /\ maps \in Layouts
  /\ links = <<LinkMap(Exe, StartOf(Exe)), VdsoLink, LinkMap(Lib, StartOf(Lib))>>
  /\ refs = 0
  /\ symtabs \in SymTabs
  /\ bound = [p \in Patches |-> NotBound]
  /\ pc = "idle"
  /\ cmd = [op |-> "none"]
  /\ count = 0
  /\ scratch = NoVma
  /\ vmas = <<>>
  /\ dlms = <<>>
  /\ service = <<>>
  /\ needed = <<>>
  /\ resolved = <<>>
  /\ patch_dlm = <<>>
  /\ ret = "ok"

Next ==
  \/ Mmap \/ Dlopen
  \/ process_cease \/ PatchProcess \/ process_inject_service \/ ResolveRelocations
  \/ load_elf \/ BindPatch \/ RevertPatch
  \/ process_shutdown_service \/ process_unlink

Spec == Init /\ [][Next]_vars

-----------------------------------------------------------------------------
(* The plugin was there before this command: an earlier one left it.       *)
LeftOver == find_dl_map_by_bid(dlms, Plugin) # <<>>

Between(w, path) ==
  /\ w.path # path
  /\ \E u, v \in Mapped(path) : u.end <= w.start /\ w.end <= v.start

(* A mapping of the given kind is in the gap between two segments of a     *)
(* mapped patch.                                                           *)
InGap(anonymous) ==
  \E w \in maps, p \in Patches : Between(w, p) /\ (w.path = NoFile) = anonymous

(* README.md, "The patch is added to the process address space": mapping a *)
(* patch at the place that process_find_place_for_elf found takes away no  *)
(* other mapping.                                                          *)
PatchIsAdded == [][pc = "load" => maps \subseteq maps']_vars

(* The same, unless an earlier command left the plugin in the process.     *)
PatchIsAddedUnlessLeftOver == [][pc = "load" /\ ~LeftOver => maps \subseteq maps']_vars

(* find_hole puts a patch between two mappings of another object only if   *)
(* the process itself mapped memory between them.                          *)
NoNesting ==
  [][pc = "load" /\ ~LeftOver /\ ~InGap(TRUE) /\ ~InGap(FALSE) => ~InGap(FALSE)']_vars

(* What find_hole and pin_elf_mmaps rely on holds when load_elf calls      *)
(* them, unless the plugin was left over: splice_vma_lists_sorted, after   *)
(* the injection of the plugin, leaves the list of mappings in order and   *)
(* none over another, all of them and the target are whole pages, and the  *)
(* segments of the patch are whole pages from page 0 on.                   *)
PlacingAsExpected ==
  pc = "load" /\ ~LeftOver =>
    \A garbage \in Garbages :
      Placing(vmas, create_elf_mmaps(cmd.patch, Phdrs[cmd.patch]), TargetDlm, garbage)

(* dl_map_check_jump_range: from every byte of the target a jump to every  *)
(* byte of a segment of the patch can be encoded, and every byte of the    *)
(* target can be referred to from every segment.  (The error of a jump     *)
(* that cannot be encoded would be lost in tune_patch_func_jumps.)  No     *)
(* function is in the first bytes of a patch, which are its ELF header.    *)
InReachOfPatch ==
  pc = "bind" =>
    \A v \in Range(patch_dlm[1].vmas),
       f \in dl_map_start(TargetDlm)..(dl_map_end(TargetDlm) - 1) :
      /\ \A p \in (v.start + 5)..(v.end - 1) : x86_jmpq_instruction(f, p)
      /\ \A p \in v.start..(v.end - 4) : StaticRefFits(Long(f - (p + 4)))

(* The plugin and nsb itself find the same objects to search, in the same  *)
(* order: the plugin leaves out exactly its own link, and each address is  *)
(* looked up in the object it belongs to.                                  *)
SearchesLinkedObjects ==
  pc = "resolve" /\ ~LeftOver /\ ~InGap(FALSE) =>
    LET scope == SelectSeq(links, LAMBDA lm : lm.path \notin {Vdso, Plugin})
    IN  [i \in DOMAIN needed |-> needed[i].path] = [i \in DOMAIN scope |-> scope[i].path]

Applied == pc \in {"dlclose", "unlink"} /\ ret = "ok" /\ cmd.op = "patch"

BaseOf(path) == IF path \in Static THEN 0 ELSE StartOf(path)

(* README.md, "Redirecting external links to global functions and          *)
(* variables according to the dynamic linker algorithm": an external link  *)
(* of an applied patch leads to the first definition of its symbol in the  *)
(* order of the link maps, the patch taking the place of its target.       *)
(* (That order is the dynamic linker's if libraries opened by the process  *)
(* are opened with RTLD_GLOBAL: the code tells no others apart.)  Not      *)
(* stated of undefined weak symbols, which resolve_es never looks up, nor  *)
(* of symbols that the patch marks as being in the target.                 *)
LinkedLikeByTheLoader ==
  Applied /\ ~LeftOver /\ ~InGap(FALSE) =>
    \A i \in DOMAIN bound[cmd.patch].got :
      LET got == bound[cmd.patch].got[i]
          es == got.rela
          defs == {j \in DOMAIN links :
                     /\ links[j].path \notin {Vdso, Plugin}
                     /\ \/ symtabs[links[j].path][es.name] # 0
                        \/ links[j].path = Target[cmd.patch] /\ es.value # 0}
          path == links[Min(defs)].path
          address == IF path = Target[cmd.patch] /\ es.value # 0
                     THEN BaseOf(cmd.patch) + es.value
                     ELSE BaseOf(path) + symtabs[path][es.name]
          marked == \/ Symbols[cmd.patch].manual[es.name] # 0
                    \/ /\ Target[cmd.patch] = Exe
                       /\ Symbols[cmd.patch].global[es.name] # 0
      IN  marked \/ /\ defs # {}
                    /\ got.value = Long(address + IF es.type = "64" THEN es.addend ELSE 0)

(* README.md, "Redirecting links to process static data": the processor,   *)
(* which adds the stored offset to the address after the reference, gets   *)
(* to the variable of the target.                                          *)
StaticRefsExact ==
  Applied /\ ~LeftOver =>
    \A i \in DOMAIN bound[cmd.patch].refs :
      LET ss == StaticRefs[cmd.patch][i]
      IN  Long(BaseOf(cmd.patch) + ss.place + ss.patch_size + bound[cmd.patch].refs[i])
            = Long(BaseOf(Target[cmd.patch]) + ss.var)

(* revert leaves no mapping of the patch, unless the process put another   *)
(* object between its segments.                                            *)
RevertLeavesNothing ==
  [][pc = "revert" /\ ~InGap(FALSE) => \A v \in maps' : v.path # cmd.patch]_vars
=============================================================================
