---------------------------- MODULE PatchLoadProofs ----------------------------
(***************************************************************************)
(* Proofs about PatchLoad: what nsb has collected is what is mapped, and   *)
(* so a patch is put where nothing was mapped, in reach of its target and  *)
(* not between the segments of another one, and is unmapped as a whole.    *)
(***************************************************************************)
EXTENDS PatchLoad, MappingsProofs

-----------------------------------------------------------------------------
(* The commands.                                                           *)

Labels == {"idle", "patch", "inject", "resolve", "load", "bind", "revert", "dlclose",
           "unlink"}

(* The mappings that are not those of the plugin. *)
Others == {v \in maps : v.path # Plugin}

(* What nsb knows of the process: ctx->dl_maps is what is mapped but for   *)
(* the plugin, and so is ctx->vmas, to which the plugin is added.          *)
LoadInv ==
  /\ MapsOK(maps)
  /\ pc \in Labels
  /\ pc \in {"patch", "inject", "resolve", "load", "bind", "revert"} =>
       /\ cmd.patch \in Patches
       /\ dlms \in Seq(Range(dlms))
       /\ \A k \in 1..Len(dlms) : TargetOK(dlms[k]) /\ dl_map_end(dlms[k]) % PageSize = 0
  /\ pc \in {"patch", "inject", "revert"} =>
       /\ vmas \in Seq(maps) /\ Ascending(vmas) /\ Range(vmas) = maps
       /\ DlmsOf(dlms, maps, maps)
  /\ pc \in {"resolve", "load"} =>
       /\ vmas \in Seq(maps)
       /\ service \in Seq(Range(service))
       /\ ~LeftOver => /\ Ascending(vmas) /\ Range(vmas) = maps
                       /\ DlmsOf(dlms, maps, Others)
  /\ pc \in {"inject", "resolve", "load", "bind"} =>
       /\ find_dl_map_by_bid(dlms, Target[cmd.patch]) # <<>>
       /\ find_dl_map_by_bid(dlms, cmd.patch) = <<>>
  /\ pc \in {"idle", "patch", "inject"} => service = <<>>
  /\ InReachOfPatch

(* mmap at an address that the kernel chooses. *)
LEMMA OneMore ==
  ASSUME NEW path, NEW exec, NEW v \in AnyPlace(1, path, exec), MapsOK(maps)
  PROVE  MapsOK(maps \union {v}) /\ v.path = path
<1>1. PICK i \in 1..(UserPages - 1) : v = Vma(PageSize * i, PageSize * (i + 1), path, exec)
  BY Zenon DEF AnyPlace
<1>2. \A w \in maps : ~Overlap(v, w)
  BY Zenon DEF AnyPlace, Free
<1>3. /\ v.start = PageSize * i /\ v.end = PageSize * (i + 1) /\ v.path = path
      /\ v = Vma(v.start, v.end, v.path, v.exec)
  BY <1>1, Zenon DEF Vma
<1>4. PageSize \in Nat \ {0} /\ UserPages \in Nat /\ PageSize * UserPages <= 2^LongBits
  BY PlacementAssumption, LoadAssumption, Zenon
<1>5. PageSize * i \in Nat /\ PageSize * (i + 1) = PageSize * i + PageSize
  BY <1>4
<1>6. PageSize * (i + 1) <= PageSize * UserPages /\ PageSize * UserPages \in Nat
  BY <1>4
<1>7. v.start \in Addresses /\ v.end \in 0..2^LongBits /\ v.start < v.end
  BY <1>3, <1>4, <1>5, <1>6, Powers, SMTT(30) DEF Addresses
<1>8. v.start % PageSize = 0 /\ v.end % PageSize = 0
  <2>1. /\ v.start \in Int /\ v.end \in Int /\ 0 \in 0..(PageSize - 1)
        /\ v.start = PageSize * i + 0 /\ v.end = PageSize * (i + 1) + 0
        /\ i \in Int /\ i + 1 \in Int
    BY <1>3, <1>4, <1>5, SMTT(30)
  <2> QED BY <1>4, <2>1, DivModUnique, Zenon
<1>9. IsFiniteSet(maps \union {v})
  BY FS_AddElement, Zenon DEF MapsOK
<1>10. ASSUME NEW w \in maps PROVE ~Overlap(w, v)
  BY <1>2, <1>10, Zenon DEF Overlap
<1> QED BY <1>2, <1>3, <1>7, <1>8, <1>9, <1>10, SMTT(30) DEF MapsOK

(* process_collect_vmas: what nsb reads when it has stopped the process. *)
LEMMA ReadMaps ==
  ASSUME NEW m, MapsOK(m), NEW list, list = collect_vmas(m), NEW d, d = collect_dl_maps(list)
  PROVE  /\ list \in Seq(m) /\ Ascending(list) /\ Range(list) = m
         /\ DlmsOf(d, m, m)
         /\ d \in Seq(Range(d))
         /\ \A k \in 1..Len(d) : TargetOK(d[k]) /\ dl_map_end(d[k]) % PageSize = 0
<1>1. Apart(m)
  BY MapsApart, Zenon
<1>2. list \in Seq(m) /\ Ascending(list) /\ Range(list) = m
  BY <1>1, Collected, Zenon
<1>3. DlmsOf(d, m, m)
  <2>1. DlmsOf(collect_dl_maps(list), m, Range(list))
    BY <1>1, <1>2, DlMapsOf, Zenon
  <2> QED BY <1>2, <2>1, Zenon
<1>4. d \in Seq(Range(d))
  <2>1. d \in Seq(Object(m))
    BY <1>3, Zenon DEF DlmsOf
  <2> QED BY <2>1, Elements, Zenon
<1>5. \A k \in 1..Len(d) : TargetOK(d[k]) /\ dl_map_end(d[k]) % PageSize = 0
  BY <1>3, ObjectIsTarget, Zenon
<1> QED BY <1>2, <1>3, <1>4, <1>5, Zenon

(* service_collect_vmas: the mappings of the plugin among the others. *)
LEMMA PluginAmong ==
  ASSUME NEW m, NEW k, MapsOK(k), m \subseteq k, NEW list, list \in Seq(m),
         NEW r, r = splice_vma_lists_sorted(collect_vmas_by_path(k, Plugin), list)
  PROVE  /\ r \in Seq(k)
         /\ /\ Ascending(list) /\ Range(list) = m
            /\ m = {v \in k : v.path # Plugin}
            => Ascending(r) /\ Range(r) = k
<1> DEFINE from == collect_vmas_by_path(k, Plugin)
<1>1. Apart(k) /\ \A w \in k : w.start \in Nat
  BY MapsApart, Zenon DEF Apart
<1>2. from \in Seq(k) /\ Range(from) = {v \in k : v.path = Plugin} /\ Ascending(from)
  BY <1>1, Collected
<1>3. list \in Seq(k)
  OBVIOUS
<1>4. r = splice_vma_lists_sorted(from, list)
  BY Zenon
<1> HIDE DEF from
<1>5. /\ r \in Seq(k)
      /\ Range(r) = Range(from) \union Range(list)
      /\ /\ Ascending(list)
         /\ \A i, j \in 1..Len(from) : from[i].start = from[j].start => i = j
         /\ \A v \in Range(from), w \in Range(list) : v.start # w.start
         => Ascending(r)
  BY <1>1, <1>2, <1>3, <1>4, SpliceSorted, SMTT(30)
<1>6. ASSUME Ascending(list), Range(list) = m, m = {v \in k : v.path # Plugin}
      PROVE  Ascending(r) /\ Range(r) = k
  <2>1. ASSUME NEW i \in 1..Len(from), NEW j \in 1..Len(from), from[i].start = from[j].start
        PROVE  i = j
    <3>1. from[i].start \in Nat /\ Len(from) \in Nat
      BY <1>1, <1>2, ElementOf, SMTT(30)
    <3>2. ~(i < j) /\ ~(j < i)
      BY <1>2, <2>1, <3>1, SMTT(30) DEF Ascending
    <3> QED BY <3>1, <3>2, SMTT(30)
  <2>2. ASSUME NEW v \in Range(from), NEW w \in Range(list) PROVE v.start # w.start
    <3>1. v \in k /\ w \in k /\ v # w
      BY <1>2, <1>6, Zenon
    <3> QED BY <1>1, <3>1, Zenon DEF Apart
  <2>3. Range(r) = k
    BY <1>2, <1>5, <1>6, Zenon
  <2> QED BY <1>5, <1>6, <2>1, <2>2, <2>3, Zenon
<1> QED BY <1>5, <1>6, Zenon

(* find_dl_map_by_bid: the target is one of the objects. *)
LEMMA TargetKnown ==
  ASSUME NEW d, d \in Seq(Range(d)), NEW path, find_dl_map_by_bid(d, path) # <<>>
  PROVE  \E k \in 1..Len(d) : find_dl_map_by_bid(d, path)[1] = d[k]
BY FindFirst

(* Where nsb is about to end, nothing is left to rely on. *)
LEMMA AtRest ==
  ASSUME MapsOK(maps'), pc' \in {"idle", "dlclose", "unlink"},
         pc' = "idle" => service' = <<>>
  PROVE  LoadInv'
BY Zenon DEF LoadInv, Labels, InReachOfPatch

(* Before the first command. *)
LEMMA LoadInit ==
  ASSUME Init
  PROVE  LoadInv
<1>1. MapsOK(maps)
  BY LoadAssumption, Zenon DEF Init
<1> QED BY <1>1, Zenon DEF Init, LoadInv, Labels, InReachOfPatch

(* The process maps memory or loads a library. *)
LEMMA LoadProcess ==
  ASSUME LoadInv, Mmap \/ Dlopen
  PROVE  LoadInv'
<1>1. MapsOK(maps')
  <2>1. CASE Mmap
    <3>1. PICK v \in AnyPlace(1, NoFile, FALSE) : maps' = maps \union {v}
      BY <2>1, Zenon DEF Mmap
    <3> QED BY <3>1, OneMore, Zenon DEF LoadInv
  <2>2. CASE Dlopen
    <3>1. PICK v \in AnyPlace(1, Late, TRUE) : maps' = maps \union {v}
      BY <2>2, Zenon DEF Dlopen
    <3> QED BY <3>1, OneMore, Zenon DEF LoadInv
  <2> QED BY <2>1, <2>2, Zenon
<1>2. pc' = "idle" /\ service' = <<>>
  BY Zenon DEF Mmap, Dlopen, ctx, LoadInv
<1> QED BY <1>1, <1>2, AtRest, Zenon

(* process_cease and process_collect_vmas: the lists have what is mapped. *)
LEMMA LoadCease ==
  ASSUME LoadInv, process_cease
  PROVE  LoadInv'
<1>1. PICK v \in AnyPlace(1, NoFile, TRUE) :
        maps' = maps \union {v} /\ vmas' = collect_vmas(maps \union {v})
  BY Zenon DEF process_cease
<1>2. MapsOK(maps')
  BY <1>1, OneMore, Zenon DEF LoadInv
<1>3. vmas' = collect_vmas(maps') /\ dlms' = collect_dl_maps(vmas')
  BY <1>1, Zenon DEF process_cease
<1>4. /\ vmas' \in Seq(maps') /\ Ascending(vmas') /\ Range(vmas') = maps'
      /\ DlmsOf(dlms', maps', maps')
      /\ dlms' \in Seq(Range(dlms'))
      /\ \A k \in 1..Len(dlms') : /\ TargetOK(dlms'[k])
                                  /\ dl_map_end(dlms'[k]) % PageSize = 0
  BY <1>2, <1>3, ReadMaps, Zenon
<1>5. service' = <<>>
  BY Zenon DEF process_cease, LoadInv
<1>6. CASE pc' = "unlink"
  BY <1>2, <1>6, AtRest, Zenon
<1>7. CASE pc' # "unlink"
  <2>1. cmd'.patch \in Patches /\ cmd'.op \in {"patch", "revert"}
    BY Zenon DEF process_cease
  <2>2. pc' \in {"patch", "revert"}
    BY <1>7, <2>1, Zenon DEF process_cease
  <2> QED BY <1>2, <1>4, <1>5, <2>1, <2>2, Zenon DEF LoadInv, Labels, InReachOfPatch
<1> QED BY <1>6, <1>7, Zenon

(* patch_process: a patch that is mapped is not loaded, and one without    *)
(* its target neither.                                                     *)
LEMMA LoadPatch ==
  ASSUME LoadInv, PatchProcess
  PROVE  LoadInv'
<1>1. /\ pc = "patch" /\ pc' \in {"unlink", "inject", "resolve"}
      /\ UNCHANGED <<maps, cmd, vmas, dlms, service>>
  BY Zenon DEF PatchProcess, Fail, process
<1>2. /\ MapsOK(maps) /\ cmd.patch \in Patches /\ service = <<>>
      /\ dlms \in Seq(Range(dlms))
      /\ \A k \in 1..Len(dlms) : TargetOK(dlms[k]) /\ dl_map_end(dlms[k]) % PageSize = 0
      /\ vmas \in Seq(maps) /\ Ascending(vmas) /\ Range(vmas) = maps
      /\ DlmsOf(dlms, maps, maps)
  BY <1>1, Zenon DEF LoadInv
<1>3. CASE pc' = "unlink"
  BY <1>1, <1>2, <1>3, AtRest, Zenon
<1>4. CASE pc' # "unlink"
  <2>1. /\ find_dl_map_by_bid(dlms, cmd.patch) = <<>>
        /\ find_dl_map_by_bid(dlms, Target[cmd.patch]) # <<>>
    BY <1>4, Zenon DEF PatchProcess, Fail
  <2>2. LeftOver' = LeftOver /\ Others' = Others /\ service \in Seq(Range(service))
    BY <1>1, <1>2 DEF LeftOver, Others
  <2>3. ~LeftOver => Others = maps
    <3> SUFFICES ASSUME ~LeftOver PROVE Others = maps
      BY Zenon
    <3>1. \A v \in maps : v.path # Plugin
      BY <1>2, LoadAssumption, NotMapped, Zenon DEF LeftOver
    <3> QED BY <3>1, Zenon DEF Others
  <2>4. ~LeftOver => DlmsOf(dlms, maps, Others)
    BY <1>2, <2>3, Zenon
  <2>5. pc' \in {"inject", "resolve"}
    BY <1>1, <1>4, Zenon
  <2> QED BY <1>1, <1>2, <2>1, <2>2, <2>4, <2>5, Zenon DEF LoadInv, Labels, InReachOfPatch
<1> QED BY <1>3, <1>4, Zenon

(* process_inject_service: the plugin is mapped, and spliced into the list *)
(* where it was not before.                                                *)
LEMMA LoadInject ==
  ASSUME LoadInv, process_inject_service
  PROVE  LoadInv'
<1>1. /\ pc = "inject" /\ pc' \in {"unlink", "dlclose", "resolve"}
      /\ UNCHANGED <<cmd, dlms>>
  BY Zenon DEF process_inject_service, Fail
<1>2. /\ MapsOK(maps) /\ cmd.patch \in Patches
      /\ dlms \in Seq(Range(dlms))
      /\ \A k \in 1..Len(dlms) : TargetOK(dlms[k]) /\ dl_map_end(dlms[k]) % PageSize = 0
      /\ vmas \in Seq(maps) /\ Ascending(vmas) /\ Range(vmas) = maps
      /\ DlmsOf(dlms, maps, maps)
      /\ find_dl_map_by_bid(dlms, Target[cmd.patch]) # <<>>
      /\ find_dl_map_by_bid(dlms, cmd.patch) = <<>>
  BY <1>1, Zenon DEF LoadInv
<1>3. /\ MapsOK(maps') /\ maps \subseteq maps'
      /\ \A v \in maps' : v \in maps \/ v.path = Plugin
  <2>1. \/ maps' = maps
        \/ \E v \in AnyPlace(1, Plugin, TRUE) : maps' = maps \union {v}
    BY Zenon DEF process_inject_service
  <2>2. CASE maps' = maps
    BY <1>2, <2>2, Zenon
  <2>3. ASSUME NEW v \in AnyPlace(1, Plugin, TRUE), maps' = maps \union {v}
        PROVE  /\ MapsOK(maps') /\ maps \subseteq maps'
               /\ \A w \in maps' : w \in maps \/ w.path = Plugin
    <3>1. MapsOK(maps \union {v}) /\ v.path = Plugin
      BY <1>2, OneMore, Zenon
    <3> QED BY <2>3, <3>1, Zenon
  <2> QED BY <2>1, <2>2, <2>3, Zenon
<1>4. CASE pc' # "resolve"
  BY <1>1, <1>3, <1>4, AtRest, Zenon
<1>5. CASE pc' = "resolve"
  <2>1. /\ vmas' = splice_vma_lists_sorted(collect_vmas_by_path(maps', Plugin), vmas)
        /\ service' = collect_dl_maps(collect_vmas_by_path(maps', Plugin))
    BY <1>5, Zenon DEF process_inject_service, Fail, service_collect_vmas
  <2>2. /\ vmas' \in Seq(maps')
        /\ /\ Ascending(vmas) /\ Range(vmas) = maps
           /\ maps = {v \in maps' : v.path # Plugin}
           => Ascending(vmas') /\ Range(vmas') = maps'
    BY <1>2, <1>3, <2>1, PluginAmong, Zenon
  <2>3. service' \in Seq(Range(service'))
    <3> DEFINE list == collect_vmas_by_path(maps', Plugin)
    <3>1. Apart(maps')
      BY <1>3, MapsApart, Zenon
    <3>2. list \in Seq(maps') /\ Ascending(list)
      BY <3>1, Collected, Zenon
    <3>3. DlmsOf(service', maps', Range(list))
      BY <2>1, <3>1, <3>2, DlMapsOf, Zenon
    <3>4. service' \in Seq(Object(maps'))
      BY <3>3, Zenon DEF DlmsOf
    <3> QED BY <3>4, Elements, Zenon
  <2>4. LeftOver' = LeftOver
    BY <1>1, Zenon DEF LeftOver
  <2>5. ASSUME ~LeftOver
        PROVE  maps = {v \in maps' : v.path # Plugin} /\ Others' = maps
    <3>1. \A v \in maps : v.path # Plugin
      BY <1>2, <2>5, LoadAssumption, NotMapped, Zenon DEF LeftOver
    <3> QED BY <1>3, <3>1, Zenon DEF Others
  <2>6. ~LeftOver' => /\ Ascending(vmas') /\ Range(vmas') = maps'
                      /\ DlmsOf(dlms', maps', Others')
    <3>1. DlmsOf(dlms, maps', maps)
      BY <1>2, <1>3, MoreMaps, Zenon
    <3> QED BY <1>1, <1>2, <2>2, <2>4, <2>5, <3>1, Zenon
  <2> QED BY <1>1, <1>2, <1>3, <1>5, <2>2, <2>3, <2>6, Zenon
          DEF LoadInv, Labels, InReachOfPatch
<1> QED BY <1>4, <1>5, Zenon

(* resolve_relocations leaves the lists alone. *)
LEMMA LoadResolve ==
  ASSUME LoadInv, ResolveRelocations
  PROVE  LoadInv'
<1>1. /\ pc = "resolve" /\ pc' \in {"unlink", "dlclose", "load"}
      /\ UNCHANGED <<maps, cmd, vmas, dlms, service>>
  BY Zenon DEF ResolveRelocations, Fail, End, process
<1>2. CASE pc' # "load"
  <2>1. MapsOK(maps')
    BY <1>1, Zenon DEF LoadInv
  <2> QED BY <1>1, <1>2, <2>1, AtRest, Zenon
<1>3. CASE pc' = "load"
  <2>1. LeftOver' = LeftOver /\ Others' = Others
    BY <1>1, Zenon DEF LeftOver, Others
  <2> QED BY <1>1, <1>3, <2>1, Zenon DEF LoadInv, Labels, InReachOfPatch
<1> QED BY <1>2, <1>3, Zenon

(* load_elf: what pin_elf_mmaps needs. *)
LEMMA LoadReady ==
  ASSUME LoadInv, pc = "load"
  PROVE  /\ cmd.patch \in Patches
         /\ OnPages(vmas, create_elf_mmaps(cmd.patch, Phdrs[cmd.patch]), TargetDlm)
<1> DEFINE dlm == create_elf_mmaps(cmd.patch, Phdrs[cmd.patch])
<1>1. /\ MapsOK(maps) /\ cmd.patch \in Patches /\ vmas \in Seq(maps)
      /\ dlms \in Seq(Range(dlms))
      /\ \A k \in 1..Len(dlms) : TargetOK(dlms[k]) /\ dl_map_end(dlms[k]) % PageSize = 0
      /\ find_dl_map_by_bid(dlms, Target[cmd.patch]) # <<>>
  BY Zenon DEF LoadInv
<1>2. PatchOK(dlm)
  BY <1>1, PatchSegments, LoadAssumption, Zenon
<1>3. TargetOK(TargetDlm) /\ dl_map_end(TargetDlm) % PageSize = 0
  <2>1. PICK k \in 1..Len(dlms) : TargetDlm = dlms[k]
    BY <1>1, TargetKnown DEF TargetDlm
  <2> QED BY <1>1, <2>1, Zenon
<1>4. vmas \in Seq(Range(vmas))
  BY <1>1, Elements, Zenon
<1>5. \A i \in 1..Len(vmas) : vmas[i].end \in Nat /\ vmas[i].end % PageSize = 0
  <2>1. \A v \in maps : v.end \in Nat /\ v.end % PageSize = 0
    BY <1>1, Powers DEF MapsOK
  <2> QED BY <1>1, <2>1, ElementOf, Zenon
<1> QED BY <1>1, <1>2, <1>3, <1>4, <1>5, Zenon DEF OnPages

(* load_elf: the segments are mapped at a place in reach of the target. *)
LEMMA LoadElf ==
  ASSUME LoadInv, load_elf
  PROVE  LoadInv'
<1> DEFINE dlm == create_elf_mmaps(cmd.patch, Phdrs[cmd.patch])
<1>1. /\ pc = "load" /\ pc' \in {"unlink", "dlclose", "bind"}
      /\ UNCHANGED <<cmd, dlms>>
  BY Zenon DEF load_elf, Fail, End
<1>2. /\ MapsOK(maps) /\ cmd.patch \in Patches
      /\ dlms \in Seq(Range(dlms))
      /\ \A k \in 1..Len(dlms) : TargetOK(dlms[k]) /\ dl_map_end(dlms[k]) % PageSize = 0
      /\ find_dl_map_by_bid(dlms, Target[cmd.patch]) # <<>>
      /\ find_dl_map_by_bid(dlms, cmd.patch) = <<>>
  BY <1>1, Zenon DEF LoadInv
<1>3. OnPages(vmas, dlm, TargetDlm)
  BY <1>1, LoadReady, Zenon
<1>4. CASE pc' # "bind"
  <2>1. maps' = maps
    BY <1>4, Zenon DEF load_elf
  <2> QED BY <1>1, <1>2, <1>4, <2>1, AtRest, Zenon
<1>5. CASE pc' = "bind"
  <2>1. PICK garbage \in Garbages :
          LET pinned == pin_elf_mmaps(vmas, dlms \o service, dlm, TargetDlm, garbage)
          IN  /\ pinned # <<>>
              /\ maps' = MapSegments(maps, pinned)
              /\ patch_dlm' = <<[dlm EXCEPT !.vmas = pinned]>>
    BY <1>5, Zenon DEF load_elf, Fail, End
  <2> DEFINE pinned == pin_elf_mmaps(vmas, dlms \o service, dlm, TargetDlm, garbage)
  <2>2. /\ Len(pinned) \in Nat /\ DOMAIN pinned = 1..Len(pinned)
        /\ \A n \in 1..Len(pinned) : VmaOK(pinned[n]) /\ pinned[n].path = cmd.patch
    <3>1. pinned # <<>>
      BY <2>1, Zenon
    <3>2. dlm.path = cmd.patch /\ NotEmpty(dlm)
      BY <1>2, PatchSegments, LoadAssumption, Zenon
    <3> DEFINE ds == dlms \o service
    <3>3. pinned = pin_elf_mmaps(vmas, ds, dlm, TargetDlm, garbage)
      BY Zenon
    <3> HIDE DEF dlm, pinned, ds
    <3>4. /\ Len(pinned) \in Nat /\ DOMAIN pinned = 1..Len(pinned)
          /\ \A n \in 1..Len(pinned) : VmaOK(pinned[n]) /\ pinned[n].path = dlm.path
      BY <1>3, <3>1, <3>2, <3>3, PinnedOK, SMTT(30)
    <3> QED BY <3>2, <3>4, Zenon
  <2>3. ASSUME NEW n \in DOMAIN pinned,
               NEW f \in dl_map_start(TargetDlm)..(dl_map_end(TargetDlm) - 1)
        PROVE  /\ \A p \in (pinned[n].start + 5)..(pinned[n].end - 1) :
                    x86_jmpq_instruction(f, p)
               /\ \A p \in pinned[n].start..(pinned[n].end - 4) :
                    StaticRefFits(Long(f - (p + 4)))
    BY <1>3, PinnedPatchInReach, Zenon
  <2>4. maps' = MapSegments(maps, pinned) /\ patch_dlm' = <<[dlm EXCEPT !.vmas = pinned]>>
    BY <2>1, Zenon
  <2> HIDE DEF pinned
  <2>5. MapsOK(maps')
    <3>1. SegmentsOK(pinned)
      BY <2>2, Zenon DEF SegmentsOK
    <3> QED BY <1>2, <2>4, <3>1, MapSegmentsOK, Zenon
  <2>6. patch_dlm'[1].vmas = pinned
    <3>1. dlm = [path |-> dlm.path, vmas |-> dlm.vmas]
      BY Zenon DEF create_elf_mmaps
    <3> HIDE DEF dlm
    <3>2. [dlm EXCEPT !.vmas = pinned].vmas = pinned
      BY <3>1, Zenon
    <3> QED BY <2>4, <3>2, Zenon
  <2>7. TargetDlm' = TargetDlm
    BY <1>1, Zenon DEF TargetDlm
  <2>8. InReachOfPatch'
    <3> SUFFICES ASSUME NEW v \in Range(pinned),
                        NEW f \in dl_map_start(TargetDlm)..(dl_map_end(TargetDlm) - 1)
                 PROVE  /\ \A p \in (v.start + 5)..(v.end - 1) : x86_jmpq_instruction(f, p)
                        /\ \A p \in v.start..(v.end - 4) : StaticRefFits(Long(f - (p + 4)))
      BY <2>6, <2>7, Zenon DEF InReachOfPatch
    <3>1. PICK n \in DOMAIN pinned : v = pinned[n]
      BY Zenon DEF Range
    <3> QED BY <2>3, <3>1, Zenon
  <2> QED BY <1>1, <1>2, <1>5, <2>5, <2>8, Zenon DEF LoadInv, Labels
<1> QED BY <1>4, <1>5, Zenon

(* The other steps of the commands. *)
LEMMA LoadRest ==
  ASSUME LoadInv,
         BindPatch \/ RevertPatch \/ process_shutdown_service \/ process_unlink
  PROVE  LoadInv'
<1>1. MapsOK(maps)
  BY Zenon DEF LoadInv
<1>2. maps' \subseteq maps
  <2>1. CASE BindPatch
    BY <2>1, Zenon DEF BindPatch
  <2>2. CASE RevertPatch
    BY <2>2, Zenon DEF RevertPatch
  <2>3. CASE process_shutdown_service
    BY <2>3, Zenon DEF process_shutdown_service, Forget
  <2>4. CASE process_unlink
    BY <2>4, Zenon DEF process_unlink
  <2> QED BY <2>1, <2>2, <2>3, <2>4, Zenon
<1>3. pc' \in {"idle", "dlclose", "unlink"} /\ (pc' = "idle" => service' = <<>>)
  BY Zenon DEF BindPatch, RevertPatch, process_shutdown_service, process_unlink, Forget, Fail,
         End
<1>4. MapsOK(maps')
  BY <1>1, <1>2, FewerMaps, Zenon
<1> QED BY <1>3, <1>4, AtRest, Zenon

(* LoadInv is inductive. *)
LEMMA LoadNext ==
  ASSUME LoadInv, [Next]_vars
  PROVE  LoadInv'
<1>1. CASE UNCHANGED vars
  <2>1. UNCHANGED <<maps, pc, cmd, vmas, dlms, service, patch_dlm>>
    BY <1>1, Zenon DEF vars, process, ctx
  <2> QED BY <2>1, Zenon DEF LoadInv, LeftOver, Others, InReachOfPatch, TargetDlm
<1>2. CASE Next
  BY <1>2, LoadProcess, LoadCease, LoadPatch, LoadInject, LoadResolve, LoadElf, LoadRest, Zenon
     DEF Next
<1> QED BY <1>1, <1>2, Zenon

(* In any process, whatever it maps and whatever commands are run on it,   *)
(* what nsb has collected between process_cease and the end of a command   *)
(* is what is mapped.                                                      *)
THEOREM LoadInvariant == Spec => []LoadInv
<1>1. Init => LoadInv
  BY LoadInit, Zenon
<1>2. LoadInv /\ [Next]_vars => LoadInv'
  BY LoadNext, Zenon
<1> QED BY <1>1, <1>2, PTL DEF Spec

-----------------------------------------------------------------------------
(* What follows.                                                           *)

(* LoadInv has what load_elf relies on. *)
LEMMA LoadExpects ==
  ASSUME LoadInv
  PROVE  PlacingAsExpected
<1> SUFFICES ASSUME pc = "load", ~LeftOver, NEW garbage \in Garbages
             PROVE  Placing(vmas, create_elf_mmaps(cmd.patch, Phdrs[cmd.patch]), TargetDlm,
                            garbage)
  BY Zenon DEF PlacingAsExpected
<1> DEFINE dlm == create_elf_mmaps(cmd.patch, Phdrs[cmd.patch])
<1>1. OnPages(vmas, dlm, TargetDlm)
  BY LoadReady, Zenon
<1>2. ListOK(vmas)
  BY InOrder, Zenon DEF LoadInv
<1>3. garbage \in Addresses
  BY LoadAssumption, Zenon
<1> HIDE DEF dlm
<1>4. Placing(vmas, dlm, TargetDlm, garbage)
  BY <1>1, <1>2, <1>3, Zenon DEF Placing, OnPages
<1> QED BY <1>4, Zenon DEF dlm

(* What find_hole and pin_elf_mmaps rely on holds when load_elf calls      *)
(* them, in every process and after any commands: the lists that           *)
(* process_collect_vmas and service_collect_vmas build are in order.       *)
THEOREM PlacesAsExpected == Spec => []PlacingAsExpected
<1>1. LoadInv => PlacingAsExpected
  BY LoadExpects, Zenon
<1> QED BY <1>1, LoadInvariant, PTL

(* dl_map_check_jump_range: while nsb binds a patch, every jump from its   *)
(* target into it can be encoded and every reference to its target fits.   *)
THEOREM BindsInReach == Spec => []InReachOfPatch
<1>1. LoadInv => InReachOfPatch
  BY Zenon DEF LoadInv
<1> QED BY <1>1, LoadInvariant, PTL

(* load_elf, unless the plugin was left over: the segments are put over no *)
(* mapping.                                                                *)
LEMMA LoadedAround ==
  ASSUME LoadInv, load_elf, ~LeftOver, pc' = "bind"
  PROVE  /\ maps \subseteq maps'
         /\ MapsOK(maps')
         /\ \E hole \in Nat, size \in Nat, i \in 1..Len(vmas) :
              Around(maps, vmas, dlms \o service, cmd.patch, maps', hole, size, i)
<1> DEFINE dlm == create_elf_mmaps(cmd.patch, Phdrs[cmd.patch])
           ds == dlms \o service
<1>1. pc = "load"
  BY Zenon DEF load_elf
<1>2. /\ MapsOK(maps) /\ vmas \in Seq(maps) /\ Ascending(vmas) /\ Range(vmas) = maps
      /\ cmd.patch \in Patches
  BY <1>1, Zenon DEF LoadInv
<1>3. PICK garbage \in Garbages :
        LET pinned == pin_elf_mmaps(vmas, dlms \o service, dlm, TargetDlm, garbage)
        IN  pinned # <<>> /\ maps' = MapSegments(maps, pinned)
  BY Zenon DEF load_elf, Fail, End
<1> DEFINE pinned == pin_elf_mmaps(vmas, ds, dlm, TargetDlm, garbage)
           r == MapSegments(maps, pinned)
<1>4. Placing(vmas, dlm, TargetDlm, garbage)
  BY <1>1, LoadExpects, Zenon DEF PlacingAsExpected
<1>5. pinned # <<>> /\ maps' = r
  BY <1>3, Zenon
<1>6. dlm.path = cmd.patch /\ NotEmpty(dlm)
  BY <1>2, PatchSegments, LoadAssumption, Zenon
<1>7. OnPages(vmas, dlm, TargetDlm)
  BY <1>1, LoadReady, Zenon
<1>8. pinned = pin_elf_mmaps(vmas, ds, dlm, TargetDlm, garbage)
  BY Zenon
<1> HIDE DEF dlm, ds, pinned
<1>9. /\ maps \subseteq r
      /\ MapsOK(r)
      /\ \E hole \in Nat, size \in Nat, i \in 1..Len(vmas) :
           Around(maps, vmas, ds, dlm.path, r, hole, size, i)
  BY <1>2, <1>4, <1>5, <1>6, <1>7, <1>8, PinnedAround, Zenon
<1> HIDE DEF r
<1> QED BY <1>5, <1>6, <1>9, Zenon DEF ds

(* A stopped process does nothing, and nsb has one thing to do next. *)
LEMMA OneStep ==
  ASSUME Next
  PROVE  (pc = "load" => load_elf) /\ (pc = "revert" => RevertPatch)
BY Zenon DEF Next, Mmap, Dlopen, process_cease, PatchProcess, process_inject_service,
       ResolveRelocations, BindPatch, load_elf, RevertPatch, process_shutdown_service,
       process_unlink

(* README.md, "The patch is added to the process address space": load_elf  *)
(* maps a patch of any shape over no mapping of any process, unless an     *)
(* earlier command left the plugin in it.                                  *)
THEOREM AddsPatch == Spec => PatchIsAddedUnlessLeftOver
<1>1. ASSUME LoadInv, load_elf, ~LeftOver PROVE maps \subseteq maps'
  <2>1. maps' = maps \/ pc' = "bind"
    BY <1>1, Zenon DEF load_elf
  <2> QED BY <1>1, <2>1, LoadedAround, Zenon
<1>2. ASSUME LoadInv, [Next]_vars
      PROVE  [pc = "load" /\ ~LeftOver => maps \subseteq maps']_vars
  BY <1>1, <1>2, OneStep, Zenon
<1> QED BY <1>2, LoadInvariant, PTL DEF Spec, PatchIsAddedUnlessLeftOver

(* revert_dyn_binpatch: patch_unload unmaps all of the patch, whatever was *)
(* loaded and unloaded before, unless a mapping of another file is between *)
(* two segments of a patch.                                                *)
THEOREM RevertUnmapsAll == Spec => RevertLeavesNothing
<1>1. ASSUME LoadInv, RevertPatch, ~InGap(FALSE), NEW v \in maps' PROVE v.path # cmd.patch
  <2> SUFFICES ASSUME v.path = cmd.patch PROVE FALSE
    BY Zenon
  <2> DEFINE r == find_dl_map_by_bid(dlms, cmd.patch)
  <2>1. pc = "revert" /\ v \in maps /\ v \notin Range(r[1].vmas)
    BY <1>1, Zenon DEF RevertPatch
  <2>2. /\ MapsOK(maps) /\ cmd.patch \in Patches /\ cmd.patch # NoFile
        /\ DlmsOf(dlms, maps, maps)
    BY <1>1, <2>1, LoadAssumption, ZenonT(30) DEF LoadInv
  <2>3. \/ v \in Range(r[1].vmas)
        \/ \E u, w \in maps : /\ u.path = v.path
                              /\ w.path # v.path /\ w.path # NoFile
                              /\ u.end <= w.start /\ w.end <= v.start
    BY <2>1, <2>2, FirstHasAll, Zenon
  <2> HIDE DEF r
  <2>4. PICK u, w \in maps : /\ u.path = v.path
                             /\ w.path # v.path /\ w.path # NoFile
                             /\ u.end <= w.start /\ w.end <= v.start
    BY <2>1, <2>3, Zenon
  <2>5. Between(w, cmd.patch)
    BY <2>1, <2>4, Zenon DEF Between, Mapped
  <2>6. InGap(FALSE)
    BY <2>2, <2>4, <2>5, Zenon DEF InGap
  <2> QED BY <1>1, <2>6, Zenon
<1>2. ASSUME LoadInv, [Next]_vars
      PROVE  [pc = "revert" /\ ~InGap(FALSE) => \A v \in maps' : v.path # cmd.patch]_vars
  BY <1>1, <1>2, OneStep, Zenon
<1> QED BY <1>2, LoadInvariant, PTL DEF Spec, RevertLeavesNothing

(* No other file is between v and a lower mapping of its file. *)
Undivided(v) ==
  \A u, w \in Others :
    u.path = v.path /\ u.end <= w.start /\ w.end <= v.start => w.path \in {v.path, NoFile}

(* Two mappings of a file with no other file between them are in the same  *)
(* object, and only the last of them ends it.                              *)
LEMMA IsInterior ==
  ASSUME MapsOK(maps), DlmsOf(dlms, maps, Others), service \in Seq(Range(service)),
         NEW x \in Others, NEW v \in Others, x.path = v.path, x.path # NoFile, x.start < v.start,
         Undivided(x), Undivided(v)
  PROVE  Interior(x, dlms \o service)
<1>1. Others \subseteq maps
  BY Zenon DEF Others
<1> DEFINE r == find_dl_map_by_bid(dlms, x.path)
<1>2. r # <<>> /\ x \in Range(r[1].vmas)
  BY <1>1, FirstHasAll, SMTT(30) DEF Undivided
<1>3. v \in Range(r[1].vmas)
  BY <1>1, FirstHasAll, SMTT(30) DEF Undivided
<1>4. dlms \in Seq(Object(maps)) /\ Len(dlms) \in Nat
  BY DEF DlmsOf
<1>5. PICK k \in 1..Len(dlms) : r[1] = dlms[k]
  <2>1. \/ r = <<>> /\ \A k \in 1..Len(dlms) : dlms[k].path # x.path
        \/ /\ r # <<>>
           /\ \E k \in 1..Len(dlms) : /\ r[1] = dlms[k]
                                      /\ dlms[k].path = x.path
                                      /\ \A j \in 1..Len(dlms) : j < k => dlms[j].path # x.path
    BY <1>4, FindFirst, SMTT(30)
  <2> HIDE DEF r
  <2> QED BY <1>2, <2>1, ZenonT(30)
<1> HIDE DEF r
<1>6. dlms[k] \in Object(maps) /\ Ascending(dlms[k].vmas)
  BY <1>4, ElementOf, Zenon DEF DlmsOf
<1>7. dlms[k].vmas \in Seq(maps)
  BY <1>6, Zenon DEF Object
<1> DEFINE s == dlms[k].vmas
<1>8. s \in Seq(maps) /\ Len(s) \in Nat /\ DOMAIN s = 1..Len(s) /\ Ascending(s)
  BY <1>6, <1>7, SMTT(30)
<1>9. x \in Range(s) /\ v \in Range(s)
  BY <1>2, <1>3, <1>5, Zenon
<1> HIDE DEF s
<1>10. \A w \in maps : w.start \in Nat
  BY Powers, SMTT(30) DEF MapsOK, Addresses
<1>11. x # s[Len(s)]
  <2> SUFFICES ASSUME x = s[Len(s)] PROVE FALSE
    BY Zenon
  <2>1. PICK e \in 1..Len(s) : v = s[e]
    BY <1>8, <1>9, Zenon DEF Range
  <2>2. v # x
    <3>1. x.start \in Nat /\ v.start \in Nat
      BY <1>1, <1>10, Zenon
    <3> QED BY <3>1, SMTT(30)
  <2>3. e < Len(s) /\ Len(s) \in 1..Len(s)
    <3>1. e # Len(s)
      BY <2>1, <2>2, Zenon
    <3> QED BY <1>8, <3>1, BelowTop, Zenon
  <2>4. s[e].start < s[Len(s)].start
    BY <1>8, <2>3, Zenon DEF Ascending
  <2>5. x.start \in Nat /\ v.start \in Nat
    BY <1>1, <1>10, Zenon
  <2> QED BY <2>1, <2>4, <2>5, SMTT(30)
<1>12. dlms[k] \in Range(dlms \o service)
  <2> DEFINE V == Object(maps) \cup Range(service)
             all == dlms \o service
  <2>1. dlms \in Seq(V) /\ service \in Seq(V)
    BY <1>4, SMTT(30)
  <2> HIDE DEF V
  <2>2. /\ all \in Seq(V) /\ Len(all) = Len(dlms) + Len(service) /\ Len(service) \in Nat
        /\ \A i \in 1..(Len(dlms) + Len(service)) :
             all[i] = IF i <= Len(dlms) THEN dlms[i] ELSE service[i - Len(dlms)]
    BY <2>1, Joined, SMTT(30)
  <2> HIDE DEF all
  <2>3. k \in 1..(Len(dlms) + Len(service)) /\ k <= Len(dlms)
    BY <1>4, <2>2, SMTT(30)
  <2>4. all[k] = dlms[k] /\ DOMAIN all = 1..Len(all)
    BY <2>2, <2>3
  <2> QED BY <2>2, <2>3, <2>4, Zenon DEF Range, all
<1> QED BY <1>9, <1>11, <1>12, Zenon DEF s, Interior

(* find_hole: where a mapping is between two segments of a patch after     *)
(* load_elf, one was there before.                                         *)
LEMMA NothingBetween ==
  ASSUME LoadInv, load_elf, ~LeftOver, pc' = "bind", ~InGap(TRUE), ~InGap(FALSE),
         NEW w \in maps', NEW p \in Patches, w.path # p,
         NEW u \in maps', NEW v \in maps', u.path = p, v.path = p,
         u.end <= w.start, w.end <= v.start
  PROVE  FALSE
<1>1. /\ pc = "load" /\ MapsOK(maps) /\ vmas \in Seq(maps) /\ Ascending(vmas)
      /\ Range(vmas) = maps /\ DlmsOf(dlms, maps, Others) /\ service \in Seq(Range(service))
      /\ cmd.patch \in Patches /\ find_dl_map_by_bid(dlms, cmd.patch) = <<>>
  BY Zenon DEF LoadInv, load_elf
<1> DEFINE ds == dlms \o service
<1>2. MapsOK(maps') /\ \E hole \in Nat, size \in Nat, i \in 1..Len(vmas) :
                         Around(maps, vmas, ds, cmd.patch, maps', hole, size, i)
  BY LoadedAround, Zenon
<1> HIDE DEF ds
<1>3. PICK hole \in Nat, size \in Nat, i \in 1..Len(vmas) :
        Around(maps, vmas, ds, cmd.patch, maps', hole, size, i)
  BY <1>2, Zenon
<1>4. w.start \in Nat /\ w.end \in Nat /\ w.start < w.end
  BY <1>2, MapsAt, Zenon
<1>5. \A y \in maps : y.path = p => y \in Others
  BY LoadAssumption, Zenon DEF Others
<1>6. \A y \in maps, q \in maps, z \in maps :
        q.path = p /\ z.path = p /\ q.end <= y.start /\ y.end <= z.start => y.path = p
  <2>1. \A y \in maps : ~Between(y, p)
    BY Zenon DEF InGap
  <2> QED BY <2>1, Zenon DEF Between, Mapped
<1>7. CASE p = cmd.patch
  <2>1. \A y \in maps : y.path # cmd.patch
    <3>1. \A y \in Others : y.path # cmd.patch
      BY <1>1, NotMapped, LoadAssumption, Zenon DEF Others
    <3> QED BY <1>5, <1>7, <3>1, Zenon
  <2>2. u.path = cmd.patch /\ v.path = cmd.patch /\ w.path # cmd.patch
    BY <1>7, Zenon
  <2> QED BY <1>2, <1>3, <2>1, <2>2, NothingInside, SMTT(30)
<1>8. CASE p # cmd.patch
  <2>1. u \in maps /\ v \in maps
    BY <1>3, <1>8, Zenon DEF Around
  <2>2. w \notin maps
    BY <1>6, <2>1, Zenon
  <2>3. hole <= w.start /\ w.end <= hole + size
    BY <1>3, <2>2, ZenonT(30) DEF Around
  <2> DEFINE x == vmas[i]
  <2>4. /\ x \in maps
        /\ u = x \/ u.end <= x.start
        /\ x.end <= v.start
        /\ x.start < v.start
    <3>1. Inside(w, hole, size, u, v)
      BY <1>4, <2>3, Zenon DEF Inside
    <3>2. Listed(maps, vmas)
      BY <1>1, Zenon DEF Listed
    <3> QED BY <1>3, <2>1, <3>1, <3>2, OnBothSides, Zenon
  <2>5. ~Interior(x, ds)
    BY <1>3, Zenon DEF Around
  <2> HIDE DEF x
  <2>6. x.path = p
    BY <1>6, <2>1, <2>4, Zenon
  <2>7. x \in Others /\ v \in Others
    BY <1>5, <2>1, <2>4, <2>6, Zenon
  <2>8. Undivided(x) /\ Undivided(v)
    <3>1. \A y \in Others : y \in maps
      BY Zenon DEF Others
    <3>2. ASSUME NEW z \in maps, z.path = p PROVE Undivided(z)
      <4>1. ASSUME NEW q \in Others, NEW y \in Others,
                   q.path = z.path, q.end <= y.start, y.end <= z.start
            PROVE  y.path = z.path
        BY <1>6, <3>1, <3>2, <4>1, Zenon
      <4> QED BY <4>1, Zenon DEF Undivided
    <3> QED BY <2>1, <2>4, <2>6, <3>2, Zenon
  <2>9. x.path = v.path /\ x.path # NoFile
    BY <2>6, LoadAssumption, Zenon
  <2>10. Interior(x, dlms \o service)
    BY <1>1, <2>4, <2>7, <2>8, <2>9, IsInterior, Zenon
  <2> QED BY <2>5, <2>10, Zenon DEF ds
<1> QED BY <1>7, <1>8, Zenon

(* find_hole puts a patch between two segments of another one only if the  *)
(* process itself has mapped memory there, for patches of any shape, in    *)
(* any process.                                                            *)
THEOREM NestsNoPatch == Spec => NoNesting
<1>1. ASSUME LoadInv, load_elf, ~LeftOver, ~InGap(TRUE), ~InGap(FALSE), InGap(FALSE)'
      PROVE  FALSE
  <2>1. CASE maps' = maps
    BY <1>1, <2>1, SMTT(30) DEF InGap, Between, Mapped
  <2>2. CASE pc' = "bind"
    <3>1. PICK w \in maps', p \in Patches :
            /\ w.path # p /\ w.path # NoFile
            /\ \E u, v \in maps' : /\ u.path = p /\ v.path = p
                                   /\ u.end <= w.start /\ w.end <= v.start
      BY <1>1 DEF InGap, Between, Mapped
    <3> QED BY <1>1, <2>2, <3>1, NothingBetween, Zenon
  <2> QED BY <1>1, <2>1, <2>2, Zenon DEF load_elf
<1>2. ASSUME LoadInv, [Next]_vars
      PROVE  [pc = "load" /\ ~LeftOver /\ ~InGap(TRUE) /\ ~InGap(FALSE) => ~InGap(FALSE)']_vars
  BY <1>1, <1>2, OneStep, Zenon
<1> QED BY <1>2, LoadInvariant, PTL DEF Spec, NoNesting
=============================================================================
