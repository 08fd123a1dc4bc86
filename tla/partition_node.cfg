CONSTANTS
  nodes = nodes  edges = edges
  Process = {r1, r2}
  Table = {nodes, edges}
  Scan <- MCScan
  MaxCommits = 2
  MaxFaults = 2
  NoGeneration = NoGeneration
SPECIFICATION FairSpec
INVARIANTS TypeOK ServesOnceBootstrapped ServedCutIsBracketed IInv
PROPERTIES ServedNeverGoesBack CatchesUp
