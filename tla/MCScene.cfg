CONSTANTS
  Entities <- Keys
  NoEntity = 0
  Order = 2
  MaxDamage = 0
  GrowBy = 2
  BaseBuckets = 3
  Meshes = {1, 2}
  MaxMeshes = 3
SPECIFICATION SceneSpec
INVARIANTS RowsKeptApart MapIsInverse HierarchySound MeshesKept
CHECK_DEADLOCK FALSE
