\* Two worker processes, a stream longer than the buffers, a short request, a reset.
CONSTANTS
  stream = stream
  plain = plain
  reset = reset
  Pids = {1, 2}
  Requests <- MCRequests
  Kind <- MCKind
  Chunks = 2
  Buffer = 1
  ReadyPolls = 1
  ExitWait = 1
  MaxCommands = 3

SPECIFICATION Spec

INVARIANTS
  TypeOK
  NoSpareWorker
  ResetSurvivesRestarts

PROPERTIES
  LoopComesBack
  RequestsEnd

CHECK_DEADLOCK FALSE
