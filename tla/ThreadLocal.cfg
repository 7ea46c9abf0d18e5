SPECIFICATION Spec
CONSTANTS
  Threads = {a, b, c}
  N = 2
  Values = {x, y}
  Empty = Empty
  NoThread = NoThread
INVARIANTS RoomForAll GetsOwn
