SPECIFICATION Spec
CONSTANTS
  None = None
  Garbage = Garbage
  short = short
  Shorts = {short}
  a = a
  x = x
  y = y
  d = d
  e = e
  root = root
  cont = cont
  content = content
  Files = {a, y}
  Dirs = {d}
  Root = root
  Parent <- MCParent
  BitsOf <- MCBitsOf
  Mounts = {content}
  MountLen <- MCMountLen
  Begins <- MCBegins
  Content <- MCContent
  Threads = {t1}
  t1 = t1
  t2 = t2
  Ops = {"OpenFile", "OpenDirectory"}
  MaxChanges = 2
  MaxFaults = 1
INVARIANTS SureIsServed RomfsStaysReachable HandlesAccounted
