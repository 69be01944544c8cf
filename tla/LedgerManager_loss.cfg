CONSTANTS
  Categories = {c1}
  MemoryCategories = {c1}
  Producers = {p1}
  Admin = adm
  MaxCalls = 2
  MaxAdminCalls = 2
  MaxBulkDepth = 1
SPECIFICATION Spec
INVARIANT BufferedWritesKept
