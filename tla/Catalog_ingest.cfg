SPECIFICATION Spec
CONSTANTS
  id = id
  amount = amount
  b = b
  c = c
  renaming = renaming
  plain = plain
  Column = {id, amount, b, c}
  Numeric = amount
  Pipeline = {renaming, plain}
  Rename <- Renames
  Frame <- Frames
  Ingest = {r1, r2, r3}
  BatchSize = 2
  MinSamples = 3
  Workers = 2
  MaxElsewhere = 1
  MaxKills = 1
SYMMETRY Symmetry
INVARIANTS
  TypeOK
  SchemaHistoryIsChain
  BaselineHoldsIngests
  GoldMirrorsTable
  CatalogIsComplete
CHECK_DEADLOCK FALSE
