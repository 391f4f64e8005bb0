CONSTANTS
  Entities <- Keys
  NoEntity = 0
  Order = 2
  MaxDamage = 1
  GrowBy = 2
  BaseBuckets = 3
  Meshes = {1, 2}
  MaxMeshes = 3
SPECIFICATION SceneSpec
INVARIANT ChildFollowsParent
CHECK_DEADLOCK FALSE
