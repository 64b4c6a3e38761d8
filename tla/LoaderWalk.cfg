SPECIFICATION FairSpec
CONSTANTS
  None = None
  Garbage = Garbage
  short = short
  Shorts = {}
  a = a
  x = x
  y = y
  d = d
  e = e
  root = root
  cont = cont
  content = content
  Files = {x}
  Dirs = {d, e}
  Root = root
  Parent <- MCParent
  BitsOf <- MCBitsOf
  Mounts = {content}
  MountLen <- MCMountLen
  Begins <- MCBegins
  Content <- MCContent
  Threads = {t1}
  t1 = t1
  t2 = t2
  Ops = {"OpenFile"}
  MaxChanges = 2
  MaxFaults = 1
INVARIANTS WalkHandlesAccounted WalkComplete DepthBounded
PROPERTIES CallsReturn EventuallyIndexed
