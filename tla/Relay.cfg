CONSTANTS
  Blocks <- MCBlocks
  MaxBlocks = 3
  LineEnds <- MCLineEnds
  Tails = {0}
  Paths = {"chat", "raw"}
SPECIFICATION RelaySpec
INVARIANTS EventsArriveAsSent MeterAgrees
CHECK_DEADLOCK FALSE
