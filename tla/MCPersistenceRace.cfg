SPECIFICATION Spec
CONSTANTS
  s1 = s1
  s2 = s2
  i1 = i1
  i2 = i2
  i3 = i3
  Saver <- Two
  Inode <- MCInode
  NoInode = NoInode
  Chunks = 2
  MaxVersion = 4
SYMMETRY Symmetry
INVARIANT AtomicSave
