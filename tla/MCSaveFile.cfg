SPECIFICATION Spec
CONSTANTS
  Savers = {s1, s2, s3}
  Docs = {d1, d2}
  Default = d1
  OneSaver = TRUE
  Inodes = {i1, i2, i3, i4, i5}
  NoFile = NoFile
  Hole = Hole
  Missing = Missing
  NoDoc = NoDoc
SYMMETRY InodeNames
INVARIANTS TypeOK MainWhole ReadsWhole
PROPERTIES SaveIsAtomic
