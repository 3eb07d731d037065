SPECIFICATION Spec
CONSTANTS
  A = A
  B = B
  f1 = f1
  f2 = f2
  lib = lib
  None = None
  Patches = {A, B}
  Funcs = {f1, f2}
  Libs = {lib}
  Threads = {t1}
  N = 6
  Busy <- MCBusy
  Jumps <- MCJumps
  MaxJumps = 2
  Size <- MCSize
  Lib <- MCLib
  Target <- MCTarget
  Dlopened = {}
  Linked = {A}
  DryRuns = {}
  Modes = {"plugin"}
  Faults = {"mmap"}
INVARIANTS CheckReportsApplied
