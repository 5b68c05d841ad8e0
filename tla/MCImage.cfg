SPECIFICATION Spec
CONSTANTS
  PAGE_SIZE = 4
  WORD = 2
  NPages = 7
  RelrBits = 4
  Sentinel = 255
  Archs = {"aarch64", "x86_64", "arm", "i386"}
  Files <- MCFiles
  MaxApp = 1
INVARIANTS
  TypeOK
  SegmentContents
  NoFault
  TextProtected
  DataProtected
  
  NoPageKept
PROPERTY
  NoForeignClobber
