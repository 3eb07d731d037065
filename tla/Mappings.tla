------------------------------- MODULE Mappings -------------------------------
(***************************************************************************)
(* What nsb knows of the address space of a process: the list of mappings  *)
(* (patcher/vma.c), the ELF objects they belong to (patcher/dl_map.c), the *)
(* segments of a patch (patcher/elf.c) and the values of its references to *)
(* static data (patcher/patch.c).                                          *)
(***************************************************************************)
EXTENDS Placement

CONSTANTS
  NoFile      \* the path of an anonymous mapping

-----------------------------------------------------------------------------
(* The mappings of a process.                                              *)

Overlap(v, w) == v.start < w.end /\ w.start < v.end

(* mmap with MAP_FIXED: what was mapped there is gone. *)
MapFixed(m, v) ==
  LET rest(w) == {u \in {Vma(w.start, Min({w.end, v.start}), w.path, w.exec),
                         Vma(Max({w.start, v.end}), w.end, w.path, w.exec)} :
                    u.start < u.end}
  IN  {v} \union UNION {rest(w) : w \in m}

(* The segments of a patch, one after the other. *)
MapSegments(m, segments) ==
  LET mapped[n \in 0..Len(segments)] ==
        IF n = 0 THEN m ELSE MapFixed(mapped[n - 1], segments[n])
  IN  mapped[Len(segments)]

(* A process has its mappings at whole pages, none over another. *)
MapsOK(m) ==
  /\ IsFiniteSet(m)
  /\ \A v \in m : /\ v = Vma(v.start, v.end, v.path, v.exec)
                  /\ v.start \in Addresses
                  /\ v.end \in 0..2^LongBits
                  /\ v.start < v.end
                  /\ v.start % PageSize = 0
                  /\ v.end % PageSize = 0
  /\ \A v, w \in m : v = w \/ ~Overlap(v, w)

-----------------------------------------------------------------------------
(* vma.c: a list of mappings in the order of their addresses.              *)

(* add_vma_sorted, and add_dl_vma_sorted: at the tail if its start is      *)
(* above all, otherwise before the first that does not start below it.     *)
add_vma_sorted(list, v) ==
  IF list = <<>> \/ list[Len(list)].start < v.start
  THEN Append(list, v)
  ELSE LET k == Min({i \in 1..Len(list) : ~(list[i].start < v.start)})
       IN  SubSeq(list, 1, k - 1) \o <<v>> \o SubSeq(list, k, Len(list))

(* Wrong splice_vma_lists_sorted: the mappings are put at the tail. *)
SpliceAtTail(from, to) == to \o from

splice_vma_lists_sorted(from, to) ==
  LET list[n \in 0..Len(from)] ==
        IF n = 0 THEN to ELSE add_vma_sorted(list[n - 1], from[n])
  IN  list[Len(from)]

(* /proc/<pid>/maps: as many lines are before the one of a mapping as      *)
(* there are mappings below it.                                            *)
ProcMaps(maps) ==
  [n \in 1..Cardinality(maps) |->
     CHOOSE v \in maps : Cardinality({w \in maps : w.start < v.start}) = n - 1]

(* collect_vmas adds the mappings one by one, as they are read. *)
collect_vmas(maps) == splice_vma_lists_sorted(ProcMaps(maps), <<>>)

collect_vmas_by_path(maps, path) ==
  splice_vma_lists_sorted(ProcMaps({v \in maps : v.path = path}), <<>>)

-----------------------------------------------------------------------------
(* dl_map.c: an ELF object is the list of its mappings, one of them        *)
(* executable.                                                             *)

HasExecVma(dlm) == \E v \in Range(dlm.vmas) : v.exec
exec_vma(dlm) == CHOOSE v \in Range(dlm.vmas) : v.exec

(* Wrong dlm_load_base: every object is taken for relocatable. *)
LoadBaseAnyType(dlm) == exec_vma(dlm).start

dlm_load_base(dlm) == IF dlm.path \in Static THEN 0 ELSE exec_vma(dlm).start

(* Wrong collect_dl_map_vma: an anonymous mapping ends the object. *)
CollectEndsAtAnonymous(dlms, v) ==
  IF dlms = <<>> \/ dlms[Len(dlms)].path # v.path
  THEN Append(dlms, [path |-> v.path, vmas |-> <<v>>])
  ELSE [dlms EXCEPT ![Len(dlms)].vmas = add_vma_sorted(@, v)]

(* collect_dl_map_vma: a mapping without an ELF file is passed over, and   *)
(* one of the same file as the last object belongs to that object.         *)
collect_dl_map_vma(dlms, v) ==
  CASE v.path = NoFile -> dlms
    [] v.path # NoFile /\ (dlms = <<>> \/ dlms[Len(dlms)].path # v.path) ->
         Append(dlms, [path |-> v.path, vmas |-> <<v>>])
    [] OTHER -> [dlms EXCEPT ![Len(dlms)].vmas = add_vma_sorted(@, v)]

collect_dl_maps(vmas) ==
  LET dlms[n \in 0..Len(vmas)] ==
        IF n = 0 THEN <<>> ELSE collect_dl_map_vma(dlms[n - 1], vmas[n])
  IN  dlms[Len(vmas)]

(* add_dl_vma_sorted refuses an object with two executable mappings. *)
TwoExecVmas(dlm) ==
  \E i, j \in DOMAIN dlm.vmas : i < j /\ dlm.vmas[i].exec /\ dlm.vmas[j].exec

(* The first of the objects found, if there is one. *)
find_dl_map(dlms, found) == IF found = {} THEN <<>> ELSE <<dlms[Min(found)]>>

find_dl_map_by_bid(dlms, path) ==
  find_dl_map(dlms, {i \in DOMAIN dlms : dlms[i].path = path})

(* Wrong compare_addr: the address only has to be above the start. *)
FindByStart(dlms, addr) ==
  find_dl_map(dlms, {i \in DOMAIN dlms : addr >= dl_map_start(dlms[i])})

(* compare_addr counts the address after the last byte as well. *)
find_dl_map_by_addr(dlms, addr) ==
  find_dl_map(dlms, {i \in DOMAIN dlms : /\ addr >= dl_map_start(dlms[i])
                                         /\ addr <= dl_map_end(dlms[i])})

(* dlm_find_sym: the value is added to the start of the object. *)
dl_map_symbol_value(dlm, value) == dl_map_start(dlm) + value

-----------------------------------------------------------------------------
(* elf.c: the segments of a patch, before they have their place.           *)

(* The program headers of a shared object from address 0 on, its segments  *)
(* in order of their addresses and on pages of their own.                  *)
PhdrsOK(phdrs) ==
  /\ phdrs \in Seq([vaddr : Nat, filesz : Nat \ {0}, exec : BOOLEAN])
  /\ phdrs # <<>>
  /\ phdrs[1].vaddr < PageSize
  /\ \A i, j \in 1..Len(phdrs) :
       i < j => PageAlign(phdrs[i].vaddr + phdrs[i].filesz) <= PageStart(phdrs[j].vaddr)

create_elf_mmaps(path, phdrs) ==
  [path |-> path,
   vmas |-> splice_vma_lists_sorted(
              [n \in 1..Len(phdrs) |-> create_elf_vma(path, phdrs[n])], <<>>)]

-----------------------------------------------------------------------------
(* patch.c: references of the patch to static data of the target.          *)

(* The value of the reference: target_value is what the generator stored.  *)
StaticReloc(target, patch, target_value) ==
  Long(target_value + dlm_load_base(target) - dlm_load_base(patch))
===============================================================================
