CONSTANTS
  p1 = p1
  p2 = p2
  Procs = {p1, p2}
  BLKSIZE = 8
  NDIRECT = 4
  BLOCKS = 17
  HostDir <- Tree
  HostFile <- Contents
  NameWord <- Names
  MAX_FILE_SIZE = 100
  NFD = 2
  KEPT = 1
  Opens <- OpenArgs
  Dirs <- DirPaths
  Programs <- ProgramPaths
  MaxLen = 1
  MaxPos = 1
  MaxLeak = 1
SYMMETRY Symm
SPECIFICATION Spec
INVARIANTS
  CountsCoverHolders
  NoCountAssertFails
  GetcwdNamesCwd
