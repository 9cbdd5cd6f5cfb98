\* Two lists, nodes and other blocks in one arena of small chunks. size_t has six
\* bits, requests go up to one word more than a default chunk holds: no sum of the
\* code can wrap around.
CONSTANTS
  SIZE = 64
  DEFAULT_CAPACITY = 8
  InitialCapacities = {0, 5}
  Sizes = {0, 9}
  Aligns = {0, 4, 6}
  MaxChunks = 4
  MaxBlocks = 4
  nodeList = nodeList
  viewList = viewList
  Lists = {nodeList, viewList}
  ElemSize <- WordsPerElem
  FirstCapacity = 2
  NodeSize = 3
  MaxPush = 5
  MaxNodes = 1
SPECIFICATION ListsSpec
INVARIANTS TypeOK LiveInside LiveDisjoint LiveAligned ListsTypeOK ListsReadBack
CHECK_DEADLOCK FALSE
