SPECIFICATION PbftSpec
CONSTANTS
  F = 1
  Request = {r1, r2}
  Modes = {"honest", "silent", "wrong_sequence", "wrong_digest", "equivocating"}
  MaxRequests = 2
  MaxTriggers = 2
  MaxCuts = 1
INVARIANTS PbftAgreement
CHECK_DEADLOCK FALSE
