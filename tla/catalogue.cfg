SPECIFICATION Spec
CONSTANTS
  Code = {c1, c2}
  Handler = {h1, h2}
  PerPage = 1
  MaxBatch = 2
  Week = 2
  Retention = 2
  Tie = {0, 1}
  MaxDay = 3
  MaxSecond = 0
SYMMETRY Symmetry
CONSTRAINT OneBatchPerWalk
INVARIANTS
  TypeOK
  HandedOutOnce
  FiltersPartition
  ChartKeepsSales
PROPERTIES
  WalkMissesNothing
