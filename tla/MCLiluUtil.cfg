SPECIFICATION MCSpec
CONSTANTS
  Threads = {a, b}
  Elements = {u, v}
  Size = 3
  NoElement = NoElement
  Nobody = Nobody
  Items = {e1, e2, e3}
  Blocks = {b1, b2}
  Null = Null
  Junk = Junk
  Factors = {1, 2}
  MaxReserve = 4
  W = 5
  Packages = 3
  Cores = 3
INVARIANTS NoLeak BlockSound HelpersAgree
PROPERTIES IsQueue LockFreed IsList
