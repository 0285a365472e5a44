SPECIFICATION Spec
CONSTANTS
  turn = turn
  batch = batch
  build = build
  other = other
  Api = Api
  Job <- WideJobs
  Class <- WideClass
  Backends <- WideBackends
  Links <- WideLinks
  LocalCapacity = 1
  RemoteSettings = {0, 2}
  RemoteLimit = 2
  MaxBackground = 1
  PromoteB = 0
  PromoteC = 0
  Reused = {}
  Cancellable = {}
  Stops = TRUE
INVARIANTS
  TypeOK
  LaneCapacity
  NoLostWakeup
  PositionsCurrent
