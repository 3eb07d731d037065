SPECIFICATION Spec
CONSTANTS
  PageSize = 8
  LongBits = 10
  IntBits = 6
  NoFile = "none"
  Static = {"exe"}
  NoName = "no"
  UserPages = 11
  Exe = "exe"
  Lib = "lib"
  Late = "late"
  Vdso = "vdso"
  Plugin = "plugin"
  Patches <- MCPatches
  Target <- MCTarget
  Phdrs <- MCPhdrs
  Layouts <- MCLayouts
  SymTabs <- MCSymTabs
  Symbols <- MCSymbols
  StaticRefs <- MCStaticRefs
  SymtabOffset = 2
  FuncValue = 5
  Garbages = {0, 200}
  MaxAnon = 2
  MaxCommands = 2
  Faults = {"dlclose"}
PROPERTIES
  PatchIsAddedUnlessLeftOver
  NoNesting
  RevertLeavesNothing
INVARIANTS
  PlacingAsExpected
  InReachOfPatch
  SearchesLinkedObjects
  LinkedLikeByTheLoader
  StaticRefsExact
CHECK_DEADLOCK FALSE
