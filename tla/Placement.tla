------------------------------- MODULE Placement -------------------------------
(***************************************************************************)
(* Where nsb puts a patch and what it can reach from there: the place for  *)
(* the patch (find_hole of patcher/process.c, pin_elf_mmaps of             *)
(* patcher/elf.c), the range of jumps (patcher/dl_map.c,                   *)
(* patcher/x86_64.c) and the short references to data of the target        *)
(* (patcher/patch.c).                                                      *)
(*                                                                         *)
(* Addresses are in bytes and wrap like the code's: an uint64_t has        *)
(* LongBits bits here and an int has IntBits.                              *)
(***************************************************************************)
EXTENDS Integers, Sequences, Functions, FiniteSetsExt

CONSTANTS
  PageSize,   \* bytes of a page
  LongBits,   \* bits of an address
  IntBits,    \* bits of the offset of a jump, a call or a short reference
  Static      \* ELF files that are executables linked to a fixed address

ASSUME PlacementAssumption ==
  /\ PageSize \in Nat \ {0}
  /\ IntBits \in Nat \ {0}
  /\ LongBits \in Nat
  /\ LongBits > IntBits
  /\ 2^(IntBits - 1) % PageSize = 0

(* What arithmetic says of the powers of two above. *)
ASSUME PowersAssumption ==
  /\ 2^(IntBits - 1) \in Nat \ {0}
  /\ 2^IntBits = 2 * 2^(IntBits - 1)
  /\ 2^(LongBits - IntBits - 1) \in Nat \ {0}
  /\ 2^LongBits = 2 * 2^(LongBits - IntBits - 1) * 2^IntBits
  /\ 2^(LongBits - 1) = 2^(LongBits - IntBits - 1) * 2^IntBits

Long(x) == x % 2^LongBits
INT_MAX == 2^(IntBits - 1) - 1

(* The value of the low bits of x, read with their sign. *)
Signed(x, bits) == LET u == x % 2^bits IN IF u < 2^(bits - 1) THEN u ELSE u - 2^bits

-----------------------------------------------------------------------------
(* vma.c and dl_map.c: a mapping, and the ends of an ELF object.           *)

Vma(start, end, path, exec) ==
  [start |-> start, end |-> end, path |-> path, exec |-> exec]

dl_map_start(dlm) == dlm.vmas[1].start
dl_map_end(dlm) == dlm.vmas[Len(dlm.vmas)].end

-----------------------------------------------------------------------------
(* x86_64.c and dl_map.c: what a jump can reach.                           *)

X86_64_JUMP_RANGE == 2^(IntBits - 1)

x86_jump_min_address(address) ==
  IF address > X86_64_JUMP_RANGE THEN address - X86_64_JUMP_RANGE ELSE 0

x86_jump_max_address(address) == Long(address + X86_64_JUMP_RANGE)

dl_map_jump_hint(dlm) ==
  IF dlm.path \in Static THEN dl_map_end(dlm)
  ELSE x86_jump_min_address(dl_map_end(dlm))

dl_map_check_jump_range(dlm, base) ==
  /\ base >= x86_jump_min_address(dl_map_end(dlm))
  /\ base <= x86_jump_max_address(dl_map_start(dlm))

(* ip_gen_offset: whether the offset from next_ip to tgt_pos fits.  A      *)
(* 5-byte jump at cur_pos is followed by cur_pos + 5.                      *)
ip_gen_offset(next_ip, tgt_pos) ==
  LET offset == Signed(tgt_pos - next_ip, LongBits)
  IN  (IF offset < 0 THEN -offset ELSE offset) <= INT_MAX

x86_jmpq_instruction(cur_pos, tgt_pos) == ip_gen_offset(cur_pos + 5, tgt_pos)

(* x86_64_call: the call follows the six instructions of ten bytes that    *)
(* load the arguments, scaled here to one byte each.                       *)
x86_64_call(call, where) == ip_gen_offset(where + 6 + 5, call)

-----------------------------------------------------------------------------
(* elf.c and process.c: a place for the patch.                             *)

PageStart(x) == x - (x % PageSize)
PageAlign(x) == PageStart(x + PageSize - 1)

(* create_elf_vma, of a PT_LOAD program header. *)
create_elf_vma(path, p) ==
  Vma(p.vaddr, p.vaddr + PageAlign(p.filesz + (p.vaddr % PageSize)), path, p.exec)

load_size(dlm) == PageStart(dl_map_end(dlm)) - PageStart(dl_map_start(dlm))

(* The start of the mapping that follows number i.  Nothing follows the    *)
(* last: next_vma then takes the head of the list for a mapping and reads  *)
(* a pointer of nsb, here garbage, as its start.                           *)
NextStart(vmas, i, garbage) == IF i < Len(vmas) THEN vmas[i + 1].start ELSE garbage

(* Not the last mapping of its object: dlms are all the objects known. *)
Interior(v, dlms) ==
  \E d \in Range(dlms) : v \in Range(d.vmas) /\ v # d.vmas[Len(d.vmas)]

(* Wrong find_hole: the gaps within an object are taken as well. *)
FindHoleInterior(vmas, dlms, i, hint, size, garbage) ==
  LET next == NextStart(vmas, i, garbage)
  IN  next >= hint /\ Long(next - Max({hint, vmas[i].end})) >= size

find_hole(vmas, dlms, i, hint, size, garbage) ==
  LET next == NextStart(vmas, i, garbage)
  IN  /\ next >= hint
      /\ ~Interior(vmas[i], dlms)
      /\ Long(next - Max({hint, vmas[i].end})) >= size

(* process_find_place_for_elf: the place, or -1. *)
process_find_place_for_elf(vmas, dlms, hint, size, garbage) ==
  LET found == {i \in DOMAIN vmas : find_hole(vmas, dlms, i, hint, size, garbage)}
  IN  IF found = {} THEN -1 ELSE Max({hint, vmas[Min(found)].end})

(* pin_elf_mmap *)
pin_elf_mmap(v, hole) ==
  [v EXCEPT !.start = PageStart(hole + v.start),
            !.end = PageStart(hole + v.start) + (v.end - v.start)]

(* Wrong pin_elf_mmaps: only the start of the place has to be in reach. *)
InReachStart(target, hole, size) == dl_map_check_jump_range(target, hole)

(* The start and the end of the place have to be in reach of a jump. *)
InReach(target, hole, size) ==
  /\ dl_map_check_jump_range(target, hole)
  /\ dl_map_check_jump_range(target, hole + size)

(* pin_elf_mmaps: the mappings at their place, none if there is no place. *)
pin_elf_mmaps(vmas, dlms, dlm, target, garbage) ==
  LET size == load_size(dlm)
      hole == process_find_place_for_elf(vmas, dlms, dl_map_jump_hint(target),
                                         size, garbage)
  IN  IF hole >= 0 /\ InReach(target, hole, size)
      THEN [i \in DOMAIN dlm.vmas |-> pin_elf_mmap(dlm.vmas[i], hole)]
      ELSE <<>>

-----------------------------------------------------------------------------
(* patch.c: references of the patch to static data of the target.          *)

(* The overflow test of apply_static_ref, for a reference of four bytes,   *)
(* here IntBits bits: the bits above them all have to be copies of its     *)
(* sign.  One of eight bytes is not tested.                                *)
StaticRefFits(reloc) ==
  LET sign == (reloc \div 2^(IntBits - 1)) % 2
  IN  (IF sign = 1 THEN 2^LongBits - 1 - reloc ELSE reloc) \div 2^IntBits = 0

(* write_static_ref: what the processor reads of the bytes written. *)
write_static_ref(reloc, patch_size) ==
  Signed(reloc, IF patch_size = 4 THEN IntBits ELSE LongBits)

-----------------------------------------------------------------------------
(* What pin_elf_mmaps relies on.                                           *)

(* Addresses of a process. *)
Addresses == 0..(2^LongBits - 1)

(* The mappings of a process, as iterate_vmas meets them: in the order of  *)
(* their addresses, and none over another.                                 *)
ListOK(vmas) ==
  /\ \A i \in 1..Len(vmas) : /\ vmas[i].start \in Addresses
                             /\ vmas[i].end \in 0..2^LongBits
                             /\ vmas[i].start < vmas[i].end
  /\ \A i, j \in 1..Len(vmas) : i < j => vmas[i].end <= vmas[j].start

(* The target: an object somewhere in the address space. *)
TargetOK(target) ==
  /\ dl_map_start(target) \in Addresses
  /\ dl_map_end(target) \in 0..2^LongBits
  /\ dl_map_start(target) < dl_map_end(target)

(* The segments of a patch as create_elf_vma makes them of a shared        *)
(* object: whole pages long, none behind the last, the first in page 0.    *)
PatchOK(dlm) ==
  /\ dlm.vmas # <<>>
  /\ dlm.vmas \in Seq([start : Nat, end : Nat, path : {dlm.path}, exec : BOOLEAN])
  /\ \A n \in 1..Len(dlm.vmas) : /\ (dlm.vmas[n].end - dlm.vmas[n].start) % PageSize = 0
                                 /\ dlm.vmas[n].end <= dl_map_end(dlm)
  /\ dl_map_start(dlm) < PageSize

(* What pin_elf_mmaps is called with: mappings of whole pages, a target    *)
(* and a patch.                                                            *)
Placing(vmas, dlm, target, garbage) ==
  /\ vmas \in Seq(Range(vmas))
  /\ ListOK(vmas)
  /\ \A i \in 1..Len(vmas) : vmas[i].end % PageSize = 0
  /\ TargetOK(target)
  /\ dl_map_end(target) % PageSize = 0
  /\ PatchOK(dlm)
  /\ garbage \in Addresses
================================================================================
