SPECIFICATION Spec
CONSTANTS
  imports = imports
  exports = exports
  ownI = ownI
  ownE = ownE
  slot = slot
  Workflow = {imports, exports}
  Limit = {ownI, ownE, slot}
  Key = {k1}
  NoKey = NoKey
  Own <- MCOwn
  Shared <- MCShared
  KeysOf <- MCKeysOf
  Queues = {imports, exports}
  Total <- MCTotal
  PerKey <- MCPerKey
  Child = {1}
  Timed = {2}
  PromoteTries = 2
  MaxRuns = 3
  MaxVerbs = 2
  Touched = {slot}
  Pairs <- MCPairs
  Values = {0}
INVARIANTS NoIdleSlot
PROPERTIES AdmitsWithinLimits OrderedPerKey QueuedRunsStart
CHECK_DEADLOCK FALSE
