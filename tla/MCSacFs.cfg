SPECIFICATION Spec
CONSTANTS
  Threads = {t1, t2}
  Names <- MCNames
  Paths <- MCPaths
  Full = {"full"}
  Longer = {"longer", "longest"}
  Cut <- CutTo71
  Over <- BytesOver
  NODE_TABLE_SIZE = 3
  BYTE = 2
  NoName = ""
  MaxCalls = 4
SYMMETRY Alike
INVARIANTS TypeOK NoHoles ParentsBefore
PROPERTIES NodesStay ImplementsTree
CHECK_DEADLOCK FALSE
