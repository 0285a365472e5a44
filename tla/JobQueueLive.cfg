SPECIFICATION FairSpec
CONSTANTS
  turn = turn
  batch = batch
  build = build
  other = other
  Api = Api
  Job <- RivalJobs
  Class <- RivalClass
  Backends <- RivalBackends
  Links <- RivalLinks
  LocalCapacity = 1
  RemoteSettings = {1}
  RemoteLimit = 1
  MaxBackground = 2
  PromoteB = 0
  PromoteC = 1
  Reused = {turn, other}
  Cancellable = {build}
  Stops = FALSE
PROPERTIES
  ServiceSpec
  OvertakingKeepsRoom
  AgedIsNotDelayed
  EveryJobStarts
