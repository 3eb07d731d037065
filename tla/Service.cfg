SPECIFICATION Spec
CONSTANTS
  MaxNsb = 4
  Backlog = 1
  None = None
  Faults = {"link", "scratch", "lock", "dlopen", "listen", "collect", "connect",
            "send", "exec", "needed", "mmap", "munmap", "answer", "recv", "relocate",
            "dlclose", "crash"}
INVARIANTS
  TypeOK
  OwnConnection
  AnswerMatches
  LinksWhatIsMapped
  LeavesNoTrace
  ProcessSurvives
  WorksAfterFailures
PROPERTY
  CommandEnds
CHECK_DEADLOCK FALSE
