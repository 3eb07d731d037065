SPECIFICATION SpecH
CONSTANTS
  A = A
  B = B
  C = C
  f1 = f1
  f2 = f2
  lib = lib
  None = None
  Patches = {A, B, C}
  Funcs = {f1, f2}
  Libs = {lib}
  Threads = {t1}
  N = 6
  Busy = {}
  Jumps <- MCJumps
  MaxJumps = 2
  Size <- MCSize
  Lib <- MCLib
  Target <- MCTarget
  Dlopened = {}
  Linked = {A, B}
  DryRuns = {"patch"}
  Modes = {"no-plugin"}
  Faults = {"mmap", "link"}
  Lifo = TRUE
INVARIANTS JumpsLeadToBoundPatches CheckReportsApplied LatestPatchRuns
PROPERTIES AtomicForTheProcess
