SPECIFICATION ConsensusSpec
CONSTANTS
  N = 3
  Command = {c}
  MaxTerm = 2
  MaxLen = 2
  F = 1
  Request = {r1, r2, r3}
  Modes = {"honest", "silent", "wrong_sequence", "wrong_digest", "equivocating"}
  MaxRequests = 3
  MaxTriggers = 2
  MaxCuts = 2
SYMMETRY ConsensusSymmetry
INVARIANTS ElectionSafety LogMatching OneRequestPerSlot RunsAgree
CHECK_DEADLOCK FALSE
