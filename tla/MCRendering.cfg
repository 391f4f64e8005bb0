CONSTANTS
  Game = game
  ImGui = imgui
  game = game
  imgui = imgui
  mesh1 = mesh1
  font1 = font1
  image1 = image1
  Names <- ShaderNames
  Meshes <- GameMeshes
  Textures <- DrawTextures
  Locations = {0, 1}
  Values = {0, 1}
  MaxPrograms = 2
  MaxMaterials = 2
  ShadedNames = {1}
  ShadedLocations = {0}
  ShadedMaterials = 3
  Buttons = {1}
  FirstButton = 1
  CtrlKeys = {"left", "right"}
  ScreenWidth = 4
  WindowX = 1
  MaxScroll = 1
  MaxWraps = 1
SPECIFICATION RenderingSpec
INVARIANTS DrawnAsMeant  PushedOrDirty MaterialsKept InputSeen
CHECK_DEADLOCK FALSE
