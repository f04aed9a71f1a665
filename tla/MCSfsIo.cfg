CONSTANTS
  BLKSIZE = 5
  NDIRECT = 1
  BLOCKS = 20
  HostDir <- Tree
  HostFile <- Contents
  NameWord <- Names
  MAX_FILE_SIZE = 13
  IOBUF = 5
  Changing = {1, 2}
  Positions = {0, 12}
  Lengths = {5}
SPECIFICATION Spec
INVARIANTS
  TypeOK
  UnusedBlocksExact
  ReadsTheImage
