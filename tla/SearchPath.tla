----------------------------- MODULE SearchPath -----------------------------
(***************************************************************************)
(* Which file a library name stands for: the override map that construct() *)
(* reads from the cfg.d directories (config.c), the search path that       *)
(* dl_parse_library_path cuts out of BIONIC_LD_LIBRARY_PATH, and the walk  *)
(* of apkenv_open_library over it.                                         *)
(*                                                                         *)
(* A path string is a sequence of components, each a directory and its     *)
(* length; delimiters are one character.  A request is a name and the      *)
(* directory it was written with, None when it has no slash.               *)
(***************************************************************************)
EXTENDS Integers, Sequences, FiniteSets, SequencesExt, FiniteSetsExt

CONSTANTS
  None,
  Names,            \* base names of libraries
  Dirs,             \* directories
  SystemLib,        \* "/system/lib" and "/system/lib64"
  Cwd,              \* the working directory
  LongDirs,         \* directories too long to put a name behind in buf
  LongNames,        \* names of more than 256 characters
  Fs,               \* the regular files there are: <<directory, name>>
  Cfgs,             \* what the cfg.d directories may hold
  PathStrings,      \* values of BIONIC_LD_LIBRARY_PATH
  AddedSopaths,     \* what apkenv_add_sopath may be called with
  LDPATH_BUFSIZE, LDPATH_MAX, SOPATH_MAX,
  LIB_OVERRIDE_MAP_DEFAULT_SIZE

ASSUME BoundsAssumption ==
  /\ {LDPATH_BUFSIZE, LDPATH_MAX, SOPATH_MAX, LIB_OVERRIDE_MAP_DEFAULT_SIZE} \subseteq Nat \ {0}
  /\ LDPATH_BUFSIZE > 2 /\ None \notin Dirs

(* What the environment hands to this code: requests and files name        *)
(* directories and base names, a string has a component for each of its    *)
(* parts, and a cfg.d directory holds files of lines of words.             *)
Request == [dir : Dirs \cup {None}, name : Names]
Component == [dir : Dirs \cup {""}, len : Nat]
Line == Seq(Names \cup {"skip", "bad"})

ASSUME SearchAssumption ==
  /\ SystemLib \in Dirs /\ AddedSopaths \subseteq Dirs
  /\ Fs \subseteq Dirs \X Names /\ IsFiniteSet(Fs)
  /\ Cfgs \subseteq Seq(SUBSET Seq(Line)) \ {<<>>}
  /\ PathStrings \subseteq Seq(Component) \ {<<>>}
  /\ \A p \in PathStrings : \A k \in DOMAIN p : p[k].len > 0 => p[k].dir \in Dirs

VARIABLES
  CfgDirs,           \* cfg.d directories, XDG_DATA_DIRS first, /etc last: each a
                     \*   set of files, a file a sequence of lines
  phase,             \* "cfg", then "run"; "exited" after exit(1)
  dir, unread, lines,\* construct's loops: directory, its unread files, the rest of a file
  lib_override_map, lib_override_map_size,
  ldpaths, sopaths, parsed

cfgVars == <<CfgDirs, phase, dir, unread, lines, lib_override_map, lib_override_map_size>>
pathVars == <<ldpaths, sopaths, parsed>>

-----------------------------------------------------------------------------
(* config.c                                                                *)

(* The built-in search directories are one, SystemLib.                     *)
InitCfg ==
  /\ CfgDirs \in Cfgs /\ phase = "cfg" /\ dir = 1 /\ unread = CfgDirs[1] /\ lines = <<>>
  /\ lib_override_map = <<>> /\ lib_override_map_size = 0
  /\ ldpaths = <<>> /\ sopaths = <<SystemLib>> /\ parsed = <<>>

(* readdir names the files of a directory in any order.                    *)
read_cfg_file ==
  /\ phase = "cfg" /\ lines = <<>>
  /\ \E f \in unread : unread' = unread \ {f} /\ lines' = f
  /\ UNCHANGED <<CfgDirs, phase, dir, lib_override_map, lib_override_map_size, pathVars>>

MapFull == Len(lib_override_map) = lib_override_map_size
\* Mutant of GrownSize: the map grows one entry late.
MapFullLate == Len(lib_override_map) > lib_override_map_size

GrownSizeLate ==
  IF lib_override_map = <<>> THEN LIB_OVERRIDE_MAP_DEFAULT_SIZE
  ELSE IF MapFullLate THEN 2 * lib_override_map_size ELSE lib_override_map_size
GrownSize ==
  IF lib_override_map = <<>> THEN LIB_OVERRIDE_MAP_DEFAULT_SIZE
  ELSE IF MapFull THEN 2 * lib_override_map_size ELSE lib_override_map_size

lib_override_map_append(line) ==
  /\ lib_override_map_size' = GrownSize
  /\ lib_override_map' = Append(lib_override_map, line)

(* An empty line or a comment is skipped; fewer than two words end the     *)
(* process.                                                                *)
process_cfg_line ==
  /\ phase = "cfg" /\ lines # <<>>
  /\ lines' = Tail(lines)
  /\ \/ /\ Head(lines) = <<"skip">>
        /\ UNCHANGED <<phase, lib_override_map, lib_override_map_size>>
     \/ /\ Head(lines) = <<"bad">> /\ phase' = "exited"
        /\ UNCHANGED <<lib_override_map, lib_override_map_size>>
     \/ /\ Len(Head(lines)) = 2
        /\ lib_override_map_append(Head(lines)) /\ UNCHANGED phase
  /\ UNCHANGED <<CfgDirs, dir, unread, pathVars>>

(* construct() goes on to the next directory, and after the last one to    *)
(* the program.                                                            *)
read_cfg_dir ==
  /\ phase = "cfg" /\ lines = <<>> /\ unread = {}
  /\ dir' = dir + 1
  /\ IF dir < Len(CfgDirs) THEN unread' = CfgDirs[dir + 1] /\ UNCHANGED phase
     ELSE phase' = "run" /\ UNCHANGED unread
  /\ UNCHANGED <<CfgDirs, lines, lib_override_map, lib_override_map_size, pathVars>>

-----------------------------------------------------------------------------
(* dl_parse_library_path                                                   *)

(* Offset of component k in the string, and length of the whole string.    *)
Start(path, k) ==
  LET start[j \in 1 .. Len(path) + 1] == IF j = 1 THEN 0 ELSE start[j - 1] + path[j - 1].len + 1
  IN  start[k]
StrLen(path) == Start(path, Len(path) + 1) - 1

(* apkenv_strlcpy: the characters that fit, and whether all did.           *)
Copied(path) == Min({StrLen(path), LDPATH_BUFSIZE - 1})
Truncated(path) == StrLen(path) >= LDPATH_BUFSIZE

(* Components of the copy that are not empty, as strsep finds them.        *)
Visible(path, k) == Min({path[k].len, Copied(path) - Start(path, k)})
Found(path) == {k \in DOMAIN path : Visible(path, k) > 0}
Taken(path) == {k \in Found(path) : Cardinality({j \in Found(path) : j < k}) < LDPATH_MAX}
ScannedAll(path) == Cardinality(Taken(path)) < LDPATH_MAX

(* The 2nd to last character is '\0' only where strsep has been and found  *)
(* a delimiter.                                                            *)
SecondToLastIsNul(path) ==
  \E k \in DOMAIN path :
    /\ Start(path, k) + path[k].len = LDPATH_BUFSIZE - 2
    /\ ScannedAll(path) \/ k <= Max(Taken(path))

\* Mutant of ForgetLast: the last component is kept as it was cut.
ForgetLastNever(path) == FALSE
ForgetLast(path) == Taken(path) # {} /\ Truncated(path) /\ ~SecondToLastIsNul(path)

(* A component cut short by the end of the buffer names something else.    *)
Entry(path, k) == IF Visible(path, k) = path[k].len THEN path[k].dir ELSE "cut"
Nth(S, n) == CHOOSE k \in S : Cardinality({j \in S : j < k}) = n - 1
Parsed(path) ==
  LET all == [n \in 1 .. Cardinality(Taken(path)) |-> Entry(path, Nth(Taken(path), n))]
  IN  IF ForgetLast(path) THEN Front(all) ELSE all

(* construct() calls it for the environment, and code that knows the       *)
(* application's directory may call it again: the new path replaces the    *)
(* old one.                                                                *)
dl_parse_library_path ==
  /\ phase = "run"
  /\ \E p \in PathStrings : ldpaths' = Parsed(p) /\ parsed' = p
  /\ UNCHANGED <<cfgVars, sopaths>>

(* apkenv_add_sopath                                                       *)
add_sopath ==
  /\ phase = "run"
  /\ \E d \in AddedSopaths :
       /\ d \notin Range(sopaths) /\ Len(sopaths) < SOPATH_MAX
       /\ sopaths' = Append(sopaths, d)
  /\ UNCHANGED <<cfgVars, ldpaths, parsed>>

-----------------------------------------------------------------------------
(* apkenv_find_library: the /system/lib prefix goes, then the first        *)
(* override whose `from' is the name replaces it.                          *)
Stripped(r) == IF r.dir = SystemLib THEN [r EXCEPT !.dir = None] ELSE r

\* Mutant of Overridden: the last entry of the map wins.
LastOverride(r) ==
  LET ks == {k \in DOMAIN lib_override_map : r.dir = None /\ lib_override_map[k][1] = r.name}
  IN  IF ks = {} THEN r ELSE [r EXCEPT !.name = lib_override_map[Max(ks)][2]]
Overridden(r) ==
  LET ks == {k \in DOMAIN lib_override_map : r.dir = None /\ lib_override_map[k][1] = r.name}
  IN  IF ks = {} THEN r ELSE [r EXCEPT !.name = lib_override_map[Min(ks)][2]]

Resolved(r) == Overridden(Stripped(r))

(* apkenv_open_library.  For each search directory: the name as it is when *)
(* its directory is that one, else the name behind the directory; the      *)
(* latter also for the built-in directories.                               *)
Exists(d, n) == <<d, n>> \in Fs
DirOf(r) == IF r.dir = None THEN Cwd ELSE r.dir
Behind(d, r) == r.dir = None /\ d \notin LongDirs /\ Exists(d, r.name)

LdHits(r) == {k \in DOMAIN ldpaths : (ldpaths[k] = DirOf(r) /\ Exists(ldpaths[k], r.name)) \/ Behind(ldpaths[k], r)}
SoHits(r) == {k \in DOMAIN sopaths : Behind(sopaths[k], r)}

open_library(r) ==
  IF r.name \in LongNames THEN None
  ELSE IF LdHits(r) # {} THEN ldpaths[Min(LdHits(r))]
  ELSE IF SoHits(r) # {} THEN sopaths[Min(SoHits(r))] ELSE None

-----------------------------------------------------------------------------
(* Properties of the search path and the override map.                     *)

SearchTypeOK ==
  /\ phase \in {"cfg", "run", "exited"}
  /\ Len(lib_override_map) <= lib_override_map_size
  /\ Range(ldpaths) \subseteq Dirs \cup {"cut"} /\ Len(ldpaths) <= LDPATH_MAX
  /\ Range(sopaths) \subseteq Dirs /\ Len(sopaths) <= SOPATH_MAX

(* Truncation never invents a directory: however long the string and       *)
(* wherever the buffer ends, the search path is a prefix of the non-empty  *)
(* components of the string: its n-th entry is the n-th one of them        *)
(* (linker.c:3008-3015).                                                   *)
PathsWhole ==
  \A n \in DOMAIN ldpaths : \E k \in DOMAIN parsed :
    /\ parsed[k].len > 0 /\ parsed[k].dir = ldpaths[n]
    /\ Cardinality({j \in 1 .. k : parsed[j].len > 0}) = n
=============================================================================
