SPECIFICATION Spec
CONSTANTS
  None = None
  Garbage = Garbage
  short = short
  Shorts = {short}
  a = a
  x = x
  y = y
  d = d
  e = e
  root = root
  cont = cont
  content = content
  Files = {a}
  Dirs = {}
  Root = root
  Parent <- MCParent
  BitsOf <- MCBitsOf
  Mounts = {content, cont}
  MountLen <- MCMountLen
  Begins <- MCBegins
  Content <- MCContent
  Threads = {t1, t2}
  t1 = t1
  t2 = t2
  Ops = {"OpenFile", "OpenDirectory", "OpenDirectoryNull"}
  MaxChanges = 1
  MaxFaults = 0
SYMMETRY Alike
INVARIANT RomfsStaysReachable
