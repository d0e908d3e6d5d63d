CONSTANTS
  Names <- MCNames
  Scripts <- MCScripts
  Files <- MCFiles
  DefaultPath <- MCPath
  Dirs <- MCDirs
  d1 = d1
  d2 = d2
  Disks <- MCDisks
  MaxDepth = 2
  MaxEdits = 1
  None = None
SPECIFICATION LookupSpec
INVARIANTS LookupTypeOK NotFoundIsAbsent ResolvesLikeDisk
PROPERTY LockedStays
