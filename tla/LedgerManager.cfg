CONSTANTS
  Categories = {c1, c2}
  MemoryCategories = {c1}
  Producers = {p1}
  Admin = adm
  MaxCalls = 3
  MaxAdminCalls = 3
  MaxBulkDepth = 2
SPECIFICATION Spec
INVARIANTS TypeOK NoDuplicateWrites
