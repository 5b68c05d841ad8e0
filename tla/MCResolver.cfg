SPECIFICATION Spec
CONSTANTS
  None = None
  Names = {"liba", "libb", "libs", "libbad", "libn", "libx", "liby", "libpthread", "libnone", "liblong", "libdl.so"}
  Dirs = {"app", "sys", "cwd", "long"}
  SystemLib = "sys"
  Cwd = "cwd"
  LongDirs = {"long"}
  LongNames = {"liblong"}
  Fs <- MCFs
  Cfgs <- MCCfgs
  PathStrings <- MCPathStrings
  LDPATH_BUFSIZE = 8
  LDPATH_MAX = 2
  SOPATH_MAX = 2
  AddedSopaths = {"app"}
  LIB_OVERRIDE_MAP_DEFAULT_SIZE = 1
  SymNames = {"a1", "a2", "b1", "b2", "mutex_lock", "puts", "weak", "glFoo", "nofunc", "sigsetjmp", "dladdr", "dl_iterate_phdr"}
  sysvhash <- MCSysvhash
  gnuhash <- MCGnuhash
  NBucket = 2
  BloomBits = 4
  MaskWords = 2
  Shift2 = 1
  FileOf <- MCFileOf
  Requests <- MCRequests
  HostLibs <- MCHostLibs
  HostSyms <- MCHostSyms
  GlSyms = {"glFoo"}
  EglSyms = {}
  Regions = {1, 2, 3, 4, 5}
INVARIANTS
  TypeOK
  PathsWhole
  OverrideOrder
  LookupExact
  BindingScope
  RoundTrip
