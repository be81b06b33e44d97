SPECIFICATION Spec
CONSTANTS
  ann = ann
  bob = bob
  eve = eve
  User = {ann, bob, eve}
  Fd = {1, 2, 3}
  NULL = NULL
  DESTROYED = DESTROYED
  Queries <- MCQueries
  Scenarios <- MCScenarios
  Room = 2
  MaxCommands = 1
INVARIANTS WholeReplies SameOrder MembersOnly
PROPERTIES JoinTold SendersReturn
CHECK_DEADLOCK FALSE
