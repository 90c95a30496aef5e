SPECIFICATION ExclusionSpec
CONSTANTS
  Client = {c1, c2}
  Lock = {l1, l2}
  Resource = {r}
  Ttl = {1, 2}
  MaxToken = 3
  MaxTime = 3
  LNode = {1, 2, 3}
  MaxCalls = 4
  BullyNode = {1, 2, 3, 4}
  HeartbeatInterval = 1
  ElectionTimeout = 4
  MaxFaults = 4
  SettleTime = 8
INVARIANTS MutualExclusion ClockCondition HighestLeads
PROPERTIES FencedOrder NoOvertaking
CHECK_DEADLOCK FALSE
