----------------------------- MODULE MCPatchLoad -----------------------------
(***************************************************************************)
(* PatchLoad for TLC: an executable at a fixed address, a library and the  *)
(* stack, a patch of the library and one of the executable.  Pages have    *)
(* eight bytes, a jump reaches four pages of an address space of eleven,   *)
(* and what is above the stack is out of reach.                            *)
(***************************************************************************)
EXTENDS PatchLoad, TLC

MCPatches == {"p1", "p2"}
MCTarget == [p \in MCPatches |-> IF p = "p1" THEN "lib" ELSE "exe"]

Page(i, path, exec) == Vma(8 * i, 8 * (i + 1), path, exec)

(* p1 has a page between its segments, and its data starts within a page. *)
MCPhdrs ==
  [p \in MCPatches |->
     <<[vaddr |-> 0, filesz |-> 7, exec |-> TRUE]>>
     \o IF p = "p1" THEN <<[vaddr |-> 19, filesz |-> 4, exec |-> FALSE]>> ELSE <<>>]

(* Below the library there is exactly the room for p1, or more. *)
MCLayouts ==
  {{Page(1, "exe", TRUE), Page(i, "lib", TRUE), Page(10, "none", FALSE)} : i \in {5, 7}}

Names == {"f", "g", "w"}

(* The values of f and g; the executable's are addresses. *)
Table(f, g) == [n \in Names |-> CASE n = "f" -> f [] n = "g" -> g [] OTHER -> 0]

(* The plugin has a g as well. *)
Values(e, l, t) ==
  "exe" :> e @@ "lib" :> l @@ "late" :> t @@ "plugin" :> Table(0, 5)

MCSymTabs ==
  {Values(Table(14, 0), Table(5, 7), Table(0, 0)),
   Values(Table(0, 0), Table(5, 0), Table(6, 6))}

Rela(name, weak, value, type, addend) ==
  [name |-> name, weak |-> weak, value |-> value, type |-> type, addend |-> addend]

(* p1 replaces f, p2 marks f as global of the executable. *)
MCSymbols ==
  [p \in MCPatches |->
     [rela_plt |-> <<Rela("f", FALSE, IF p = "p1" THEN 6 ELSE 0, "JUMP_SLOT", 0)>>,
      rela_dyn |-> <<Rela("g", FALSE, 0, "64", 3), Rela("w", TRUE, 0, "GLOB_DAT", 0),
                     Rela("no", FALSE, 0, "RELATIVE", 0)>>,
      manual |-> Table(0, 0),
      global |-> Table(IF p = "p1" THEN 0 ELSE 14, 0)]]

(* As the generator computes them: from the variable to the next instruction. *)
Ref(place, var, size) ==
  [place |-> place, var |-> var, patch_size |-> size,
   target_value |-> Long(var - place - size)]

MCStaticRefs ==
  [p \in MCPatches |-> IF p = "p1" THEN <<Ref(1, 3, 4), Ref(2, 7, 8)>>
                       ELSE <<Ref(2, 14, 4)>>]
=============================================================================
