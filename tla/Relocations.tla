----------------------------- MODULE Relocations -----------------------------
(***************************************************************************)
(* How the symbols of a patch are bound: the objects to search, from the   *)
(* dynamic linker's list (patcher/rtld.c, the needed list of               *)
(* plugins/service.c, process_collect_needed of patcher/process.c), the    *)
(* search (patcher/relocations.c), and the symbol tables and relocations   *)
(* of patcher/elf.c.                                                       *)
(*                                                                         *)
(* A symbol table gives a value to a name, 0 if the object does not define *)
(* it.  A relocation is a record of the symbol's name, whether it is weak, *)
(* its value in the patch, the type, the offset and the addend.            *)
(***************************************************************************)
EXTENDS Mappings

CONSTANTS
  NoName      \* the symbol of a relocation that has none

-----------------------------------------------------------------------------
(* The objects to search: links is the list of link maps of the process.   *)

(* The vdso is passed over: its DT_SYMTAB is an offset.  So is an object   *)
(* whose dynamic section cannot be read, as the error is a negative number *)
(* too; all reads succeed here.                                            *)
HasSymtab(lm) == lm.symtab >= lm.l_addr

rtld_needed_array(links) ==
  [i \in DOMAIN SelectSeq(links, HasSymtab) |-> SelectSeq(links, HasSymtab)[i].symtab]

(* In the library the last link is taken for the library itself. *)
nsb_service_cmd_needed_list(links) == 
  rtld_needed_array(SubSeq(links, 1, Len(links) - 1))

(* process_collect_needed: the objects at these addresses; an empty        *)
(* sequence if one of them is not found.                                   *)
process_collect_needed(dlms, needed_array) ==
  LET found(i) == find_dl_map_by_addr(dlms, needed_array[i])
  IN  IF \A i \in DOMAIN needed_array : found(i) # <<>> /\ HasExecVma(found(i)[1])
      THEN [i \in DOMAIN needed_array |-> found(i)[1]]
      ELSE <<>>

-----------------------------------------------------------------------------
(* The relocations of the patch.                                           *)

(* collect_es: relocations without a symbol are dropped. *)
collect_es(relas) == SelectSeq(relas, LAMBDA r : r.name # NoName)

(* collect_relocations: .rela.plt, then .rela.dyn; a section that is       *)
(* missing is no error.                                                    *)
collect_relocations(patch) == collect_es(patch.rela_plt) \o collect_es(patch.rela_dyn)

(* What a search returns: a value, -1 for -ENOENT, and the object it is    *)
(* in, an empty sequence for the patch itself.                             *)
Found(value, dlm) == [value |-> value, dlm |-> dlm]

(* The value of the symbol in an object, 0 if it is not defined there. *)
elf_dyn_sym_value(symtabs, dlm, es) == symtabs[dlm.path][es.name]

(* Wrong __find_dym_sym: it does not stop at the target. *)
FindNoStop(symtabs, deps, stop_dlm, es) ==
  LET Defining == {i \in DOMAIN deps : elf_dyn_sym_value(symtabs, deps[i], es) # 0}
      i == Min(Defining)
  IN  IF Defining = {} THEN Found(-1, <<>>)
      ELSE Found(elf_dyn_sym_value(symtabs, deps[i], es), <<deps[i]>>)

(* __find_dym_sym: the first object that defines the symbol, where the     *)
(* patch stands in for the target if it defines it.                        *)
find_dym_sym(symtabs, deps, stop_dlm, es) ==
  LET stop(d) == es.value # 0 /\ <<d>> = stop_dlm
      Stops == {i \in DOMAIN deps : \/ stop(deps[i])
                                    \/ elf_dyn_sym_value(symtabs, deps[i], es) # 0}
      i == Min(Stops)
  IN  CASE Stops = {} -> Found(-1, <<>>)
        [] Stops # {} /\ stop(deps[i]) -> Found(es.value, <<>>)
        [] OTHER -> Found(elf_dyn_sym_value(symtabs, deps[i], es), <<deps[i]>>)

(* find_dyn_sym: symbols the patch marks as manual are in the target; so   *)
(* are the ones it marks as global if the target is the executable.        *)
find_dyn_sym(symtabs, patch, deps, target, es) ==
  LET first == find_dym_sym(symtabs, deps, <<target>>, es)
  IN  CASE patch.manual[es.name] # 0 -> Found(patch.manual[es.name], <<target>>)
        [] /\ patch.manual[es.name] = 0
           /\ target = Head(deps)
           /\ patch.global[es.name] # 0 -> Found(patch.global[es.name], <<target>>)
        [] OTHER -> IF first.value # -1 THEN first
                    ELSE find_dym_sym(symtabs, deps, <<>>, es)

(* resolve_es: undefined weak symbols are dropped before any search. *)
Dropped(es) == es.weak /\ es.value = 0

(* elf_reloc_sym: the types that are supported. *)
Supported(es) == es.type \in {"GLOB_DAT", "JUMP_SLOT", "64"}

elf_reloc_sym(es, value) == IF es.type = "64" THEN Long(value + es.addend) ELSE value

(* resolve_relocations: the relocations with their address and object; an  *)
(* error, here FALSE, if one of them cannot be resolved.                   *)
resolve_relocations(symtabs, patch, deps, target) ==
  LET list == SelectSeq(collect_relocations(patch), LAMBDA es : ~Dropped(es))
      found(i) == find_dyn_sym(symtabs, patch, deps, target, list[i])
  IN  [ok |-> \A i \in DOMAIN list : found(i).value >= 0 /\ Supported(list[i]),
       es |-> [i \in DOMAIN list |->
                 [rela |-> list[i],
                  dlm |-> found(i).dlm,
                  address |-> elf_reloc_sym(list[i], found(i).value)]]]

(* apply_es: what is written at the offset of the relocation in the patch. *)
apply_es(patch_dlm, es) ==
  LET dlm == IF es.dlm = <<>> THEN patch_dlm ELSE es.dlm[1]
  IN  [rela |-> es.rela, value |-> Long(dlm_load_base(dlm) + es.address)]
=============================================================================
