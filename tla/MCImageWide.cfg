SPECIFICATION Spec
CONSTANTS
  PAGE_SIZE = 4
  WORD = 2
  NPages = 7
  RelrBits = 4
  Sentinel = 15
  Archs = {"aarch64", "x86_64"}
  Files <- MCFiles
  MaxApp = 1
INVARIANT
  TextProtected
