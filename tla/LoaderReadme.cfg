SPECIFICATION Spec
CONSTANTS
  None = None
  Garbage = Garbage
  short = short
  Shorts = {}
  a = a
  x = x
  y = y
  d = d
  e = e
  root = root
  cont = cont
  content = content
  Files = {a}
  Dirs = {d}
  Root = root
  Parent <- MCParent
  BitsOf <- MCBitsOf
  Mounts = {content}
  MountLen <- MCMountLen
  Begins <- MCBegins
  Content <- MCContent
  Threads = {t1}
  t1 = t1
  t2 = t2
  Ops = {"OpenFile", "OpenDirectory"}
  MaxChanges = 0
  MaxFaults = 0
INVARIANTS MergedView
