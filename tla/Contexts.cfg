SPECIFICATION FairSpec
CONSTANTS
  w1 = w1
  w2 = w2
  j1 = j1
  j2 = j2
  j3 = j3
  Nobody = Nobody
  Nothing = Nothing
  Everything = Everything
  Workspace = {w1, w2}
  Job = {j1, j2, j3}
  Home <- TwoHomes
  Tagger = {j1}
  Indexer = {j3}
  Editor = {e1}
  MaxContexts = 1
  MaxVersion = 2
  Writes <- FewWrites
  MaxReloads = 1
INVARIANTS
  TypeOK
  RegistryFresh
  NothingOlderIsGiven
  ColdWhileBuilt
PROPERTIES
  EveryAskEnds
