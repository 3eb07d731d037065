SPECIFICATION SpecH
CONSTANTS
  A = A
  B = B
  C = C
  f1 = f1
  f2 = f2
  lib = lib
  None = None
  Patches = {A, B, C}
  Funcs = {f1, f2}
  Libs = {lib}
  Threads = {t1}
  N = 6
  Busy = {2}
  Jumps <- MCJumps
  MaxJumps = 2
  Size <- MCSize
  Lib <- MCLib
  Target <- MCTarget
  Dlopened = {}
  Linked = {A, B}
  DryRuns = {}
  Modes = {"no-plugin"}
  Faults = {}
  Lifo = TRUE
INVARIANTS LatestPatchRuns
