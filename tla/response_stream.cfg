\* Bodies of up to six pieces, cut into chunks of up to three.
SPECIFICATION Spec
CONSTANTS
  MaxPieces = 6
  MaxChunk = 3
INVARIANTS
  ChunkingIrrelevant
  OneTerminalEvent
  SettlementMatchesOutput
  Transparent
  SyntheticStartsLine
CHECK_DEADLOCK FALSE
