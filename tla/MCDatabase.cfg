SPECIFICATION Spec
CONSTANTS
  Columns <- MCColumns
  Databases = {a}
  NoDatabase = none
  Tables = {t, u}
  Schemas <- MCSchemas
  UserIndexes <- MCUserIndexes
  KeyLists <- MCKeyLists
  Values = {1, 2}
  Wheres <- MCWheres
  Queries <- MCQueries
  MaxTables = 2
  MaxIndexes = 2
  MaxSlots = 2
INVARIANTS
  IndexesExact
  CatalogReloads
  ScansRight
SYMMETRY Symmetric
