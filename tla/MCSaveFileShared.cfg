SPECIFICATION Spec
CONSTANTS
  Savers = {s1, s2}
  Docs = {d1, d2}
  Default = d1
  OneSaver = FALSE
  Inodes = {i1, i2, i3, i4}
  NoFile = NoFile
  Hole = Hole
  Missing = Missing
  NoDoc = NoDoc
SYMMETRY InodeNames
INVARIANT MainWhole
