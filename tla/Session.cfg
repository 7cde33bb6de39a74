SPECIFICATION MCSpec
CONSTANTS
  Keyboards = {k1}
  Synths = {s1}
  Gone = Gone
  Settings = {plain, edited}
  Default = plain
  SceneNames = {scene}
  UserOps = {"open", "close", "link", "unlink", "edit", "panic", "cable", "refresh", "scene", "file", "restart"}
  Refusing = TRUE
  MaxCables = 1
  MaxChanges = 2
INVARIANTS BackendAgrees LinksStayOpen
PROPERTIES LoadRestores ListCatchesUp
