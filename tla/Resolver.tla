------------------------------ MODULE Resolver ------------------------------
(***************************************************************************)
(* From a library name to the address of a symbol: dlopen finds the file   *)
(* of a library and of what it needs (SearchPath), binds every symbol the  *)
(* library refers to (Symbols, apkenv_reloc_library), and dlsym, dladdr    *)
(* and dlerror answer questions about what is loaded (dlfcn.c).            *)
(*                                                                         *)
(* All of it happens under apkenv_dl_lock.  Unloading is in Linker, the    *)
(* memory of a library in Image: here a library occupies one of Regions.   *)
(* An address is a region and an offset in it, a symbol of the host a      *)
(* prefix, "" or "bionic_", and a name.                                    *)
(***************************************************************************)
EXTENDS SearchPath, Symbols

CONSTANTS
  FileOf,        \* [Fs -> [needed : Seq of requests, symtab, tags]]
  Requests,      \* what the application passes to dlopen
  HostLibs,      \* [names glibc's dlopen finds -> their symbols]
  HostSyms,      \* symbols glibc's dlsym(RTLD_DEFAULT) finds from the start
  GlSyms,        \* names that start with "gl"
  EglSyms,       \* names eglGetProcAddress knows
  Regions

(* The files there are: ld wrote their symbol tables.  The address space   *)
(* has room for a library of every name.                                   *)
Symbol == [name : SymNames, bind : {"GLOBAL", "WEAK", "LOCAL"}, def : BOOLEAN, func : BOOLEAN, value : Nat, size : Nat]

ASSUME WorldAssumption ==
  /\ Requests \subseteq Request
  /\ \A f \in Fs : /\ FileOf[f].needed \in Seq(Request) /\ FileOf[f].symtab \in Seq(Symbol)
                   /\ "DT_GNU_HASH" \in FileOf[f].tags => SortedForGnu(FileOf[f].symtab)
  /\ Regions \subseteq Nat \ {0} /\ IsFiniteSet(Regions)
  /\ Cardinality({f[2] : f \in Fs}) <= Cardinality(Regions)

VARIABLES
  solist,        \* apkenv_solist, in order; a handle is an index of it
  linking,       \* stack of the handles in apkenv_link_image, innermost last
  dl_err_str,    \* what dlerror will return
  host_global,   \* symbols glibc's dlsym(RTLD_DEFAULT) finds now
  die            \* getenv("LINKER_DIE_AT_RUNTIME")

dlVars == <<solist, linking, dl_err_str>>
env == <<cfgVars, pathVars, die>>
vars == <<env, dlVars, host_global>>

LIBDL == 1
So(h) == solist[h]
FileOfSo(h) == FileOf[<<So(h).from, So(h).name>>]
Failed(h) == "ERROR" \in So(h).flags
Linked(h) == "LINKED" \in So(h).flags /\ ~Failed(h)
RegionSize == 8

Init ==
  /\ InitCfg
  /\ solist = <<libdl_info>> /\ linking = <<>> /\ dl_err_str = None
  /\ host_global = HostSyms /\ die \in BOOLEAN

Configure ==
  /\ read_cfg_file \/ process_cfg_line \/ read_cfg_dir
  /\ UNCHANGED <<dlVars, host_global, die>>

SetPaths ==
  /\ linking = <<>> /\ (dl_parse_library_path \/ add_sopath)
  /\ UNCHANGED <<dlVars, host_global, die>>

-----------------------------------------------------------------------------
(* apkenv_find_library: by base name in the list, else from a file, else   *)
(* glibc's.                                                                *)
Known(r) == {h \in DOMAIN solist : So(h).name = Resolved(r).name}
FileDir(r) == open_library(Resolved(r))

(* The kernel hands out the first free region again.                       *)
FreeRegions == {b \in Regions : \A h \in DOMAIN solist : So(h).base = b => Failed(h)}

Load(r) ==
  /\ Known(r) = {} /\ FileDir(r) # None
  /\ LET f == FileOf[<<FileDir(r), Resolved(r).name>>]
     IN  solist' = Append(solist, [name |-> Resolved(r).name, from |-> FileDir(r), base |-> Min(FreeRegions),
                                   size |-> RegionSize, flags |-> {}, needed |-> <<>>,
                                   symtab |-> f.symtab, table |-> HashTable(f.symtab, f.tags),
                                   req |-> r, bound |-> <<>>])
  /\ linking' = Append(linking, Len(solist) + 1)

Running == phase = "run" /\ linking = <<>>

DlopenLoad ==
  /\ Running /\ \E r \in Requests : Load(r)
  /\ UNCHANGED <<env, dl_err_str, host_global>>

(* glibc's dlopen, tried when there is no file; without RTLD_GLOBAL in the *)
(* application's flags nothing enters the global scope.                    *)
Elsewhere(r) == Known(r) = {} /\ FileDir(r) = None
HostHas(r) == Elsewhere(r) /\ Resolved(r).name \in DOMAIN HostLibs

DlopenHost ==
  /\ Running
  /\ \E r \in Requests :
       HostHas(r) /\ host_global' \in {host_global, host_global \cup HostLibs[Resolved(r).name]}
  /\ UNCHANGED <<env, dlVars>>

(* The error is set when nobody has the library, or it failed before.      *)
DlopenFails ==
  /\ Running
  /\ \E r \in Requests : (Elsewhere(r) /\ ~HostHas(r)) \/ \E h \in Known(r) : ~Linked(h)
  /\ dl_err_str' = "CANNOT_LOAD_LIBRARY"
  /\ UNCHANGED <<env, solist, linking, host_global>>

-----------------------------------------------------------------------------
(* apkenv_link_image of the innermost library.                             *)

top == Last(linking)
NextNeeded == FileOfSo(top).needed[Len(So(top).needed) + 1]
MoreNeeded == linking # <<>> /\ Len(So(top).needed) < Len(FileOfSo(top).needed)

Bind(h) ==
  /\ solist' = [solist EXCEPT ![top].needed = Append(@, h)]
  /\ UNCHANGED <<env, linking, dl_err_str>>

NeededLoaded ==
  /\ MoreNeeded
  /\ \E h \in Known(NextNeeded) : Bind(IF Linked(h) THEN h ELSE LIBDL)
  /\ UNCHANGED host_global

(* A dependency that is nowhere, or that glibc has, is libdl's soinfo;     *)
(* glibc loads its own with RTLD_GLOBAL.                                   *)
NeededElsewhere ==
  /\ MoreNeeded /\ Elsewhere(NextNeeded) /\ Bind(LIBDL)
  /\ host_global' = host_global \cup
                     (IF HostHas(NextNeeded) THEN HostLibs[Resolved(NextNeeded).name] ELSE {})

NeededLoad ==
  /\ MoreNeeded /\ Load(NextNeeded)
  /\ UNCHANGED <<env, dl_err_str, host_global>>

(* apkenv__do_lookup: the library itself, then what it needs directly.     *)
Scope(h) == <<h>> \o So(h).needed
FirstIn(hs, x) == LET ks == {k \in DOMAIN hs : elf_lookup(So(hs[k]), x) # 0} IN IF ks = {} THEN 0 ELSE hs[Min(ks)]
\* Mutant of do_lookup: every library of the list is in the scope.
do_lookup_all(h, x) == FirstIn(Scope(h) \o [k \in DOMAIN solist |-> k], x)
do_lookup(h, x) == FirstIn(Scope(h), x)

Address(h, x) == [kind |-> "lib", so |-> h, sym |-> elf_lookup(So(h), x)]
Host(x) == [kind |-> "host", so |-> 0, sym |-> x]
Wrap(x) == [kind |-> "bionic", so |-> 0, sym |-> x]
Nothing(kind) == [kind |-> kind, so |-> 0, sym |-> 0]

Wrapped(x) == <<"bionic_", x>> \in host_global
OnHost(x) == <<"", x>> \in host_global

(* The order in which apkenv_reloc_library asks for symbol s of library h. *)
Resolution(h, s) ==
  LET x == s.name IN
  IF Wrapped(x) THEN Wrap(x)
  ELSE IF do_lookup(h, x) # 0 THEN Address(do_lookup(h, x), x)
  ELSE IF OnHost(x) \/ x \in GlSyms \cap EglSyms \/ x = "sigsetjmp" THEN Host(x)
  ELSE IF die /\ s.func /\ x \notin GlSyms THEN Nothing("stub")
  ELSE IF s.bind = "WEAK" THEN Nothing("zero") ELSE Nothing("fail")

Bindings(h) == [n \in DOMAIN So(h).symtab |-> Resolution(h, So(h).symtab[n])]
AllBound(h) == \A n \in DOMAIN So(h).symtab : Bindings(h)[n].kind # "fail"

Ready == linking # <<>> /\ ~MoreNeeded

LinkDone ==
  /\ Ready /\ AllBound(top)
  /\ solist' = [solist EXCEPT ![top].bound = Bindings(top), ![top].flags = {"LINKED"}]
  /\ linking' = Front(linking)
  /\ UNCHANGED <<env, dl_err_str, host_global>>

(* FLAG_ERROR; the region is unmapped but the soinfo keeps base and size.  *)
LinkFails ==
  /\ Ready /\ ~AllBound(top)
  /\ solist' = [solist EXCEPT ![top].flags = {"ERROR"}]
  /\ linking' = Front(linking)
  /\ dl_err_str' = IF Len(linking) = 1 THEN "CANNOT_LOAD_LIBRARY" ELSE dl_err_str
  /\ UNCHANGED <<env, host_global>>

-----------------------------------------------------------------------------
(* bionic_dlsym, bionic_dladdr, bionic_dlerror.                            *)

do_we_have_this_handle(handle) == handle[1] = "own" /\ handle[2] \in DOMAIN solist

(* apkenv_lookup: every usable library from index start on.                *)
lookup(x, start) ==
  MinOr0({h \in start .. Len(solist) : ~Failed(h) /\ elf_lookup(So(h), x) # 0})

find_containing_library(addr) ==
  MinOr0({h \in DOMAIN solist : So(h).base = addr[1] /\ addr[2] < So(h).size})

Error(code) == [kind |-> "error", so |-> 0, sym |-> code]

FoundIn(h, x) ==
  IF h = 0 \/ elf_lookup(So(h), x) = 0 THEN Error("SYMBOL_NOT_FOUND")
  ELSE IF So(h).symtab[elf_lookup(So(h), x)].bind = "GLOBAL" THEN Address(h, x)
  ELSE Error("SYMBOL_NOT_GLOBAL")

(* A handle is 0 (also RTLD_DEFAULT), RTLD_NEXT called from a library, a   *)
(* soinfo or a handle of glibc's.                                          *)
dlsym_result(handle, x) ==
  IF x = None THEN Error("BAD_SYMBOL_NAME")
  ELSE IF Wrapped(x) THEN Wrap(x)
  ELSE IF OnHost(x) \/ (handle[1] = "host" /\ <<"", x>> \in HostLibs[handle[2]]) THEN Host(x)
  ELSE IF handle[1] = "null" THEN Error("INVALID_LIBRARY_HANDLE")
  ELSE IF handle[1] = "next"
       THEN LET c == find_containing_library(<<So(handle[2]).base, 0>>)
            IN  FoundIn(IF c = 0 THEN 0 ELSE lookup(x, c + 1), x)
  ELSE FoundIn(IF do_we_have_this_handle(handle) THEN handle[2] ELSE 0, x)

Usable == {h \in DOMAIN solist : Linked(h)}
Handles == {<<"null", 0>>} \cup ({"own", "next"} \X Usable) \cup ({"host"} \X DOMAIN HostLibs)

dlsym ==
  /\ Running
  /\ \E r \in {dlsym_result(h, x) : h \in Handles, x \in SymNames \cup {None}} :
       dl_err_str' = IF r.kind = "error" THEN r.sym ELSE dl_err_str
  /\ UNCHANGED <<env, solist, linking, host_global>>

dladdr(addr) ==
  LET h == find_containing_library(addr)
  IN  [so |-> h, sym |-> IF h = 0 THEN 0 ELSE find_containing_symbol(So(h), addr[2])]

dlerror ==
  /\ phase = "run" /\ dl_err_str # None
  /\ dl_err_str' = None
  /\ UNCHANGED <<env, solist, linking, host_global>>

(* The process ended in exit(1), or has nothing left to ask.               *)
Rest == phase \in {"exited", "run"} /\ linking = <<>> /\ UNCHANGED vars

Next ==
  \/ Configure \/ SetPaths \/ DlopenLoad \/ DlopenHost \/ DlopenFails
  \/ NeededLoaded \/ NeededElsewhere \/ NeededLoad \/ LinkDone \/ LinkFails
  \/ dlsym \/ dlerror \/ Rest

Spec == Init /\ [][Next]_vars

-----------------------------------------------------------------------------
(* Properties *)

TypeOK ==
  /\ SearchTypeOK
  /\ \A h \in DOMAIN solist :
       /\ So(h).base \in Regions \cup {0} /\ So(h).flags \subseteq {"LINKED", "ERROR"}
       /\ Range(So(h).needed) \subseteq DOMAIN solist
  /\ Range(linking) \subseteq DOMAIN solist
  /\ dl_err_str \in {None, "CANNOT_LOAD_LIBRARY", "INVALID_LIBRARY_HANDLE", "BAD_SYMBOL_NAME",
                     "SYMBOL_NOT_FOUND", "SYMBOL_NOT_GLOBAL"}
  /\ die \in BOOLEAN

(* Earlier configuration wins: a library is loaded under the name that the *)
(* first cfg.d directory with an override for the requested name gives it, *)
(* in whatever order readdir names the files of a directory and however    *)
(* many overrides come later (dlfcn.c:337-349, linker.c:1454-1459).        *)
Given(f, n) == {k \in DOMAIN f : Len(f[k]) = 2 /\ f[k][1] = n}
OverridesIn(d, n) == {f[Min(Given(f, n))][2] : f \in {g \in CfgDirs[d] : Given(g, n) # {}}}
OverrideOrder ==
  \A h \in DOMAIN solist \ {LIBDL} :
    LET n == So(h).req.name
        ds == {d \in DOMAIN CfgDirs : OverridesIn(d, n) # {}}
    IN  So(h).name \in IF Stripped(So(h).req).dir # None \/ ds = {} THEN {n} ELSE OverridesIn(Min(ds), n)

(* Hash lookup is exact: through either kind of table, bloom filter and    *)
(* chains included, a name is found if and only if the library defines it  *)
(* as a global or weak symbol; also in the table made by hand for libdl    *)
(* (linker.c:478-542, dlfcn.c:247-282).                                    *)
LookupExact ==
  \A h \in DOMAIN solist : \A x \in SymNames :
    elf_lookup(So(h), x) = MinOr0({n \in DOMAIN So(h).symtab : Is(So(h), n, x)})

(* What a linked library is bound to: a definition in the library itself   *)
(* or in one it needs directly, so one its references keep loaded; zero or *)
(* a stub only where those do not define the name.  The host's bionic_     *)
(* version of a name goes first, and the wrappers of a host library that   *)
(* the library needs reach it, since DT_NEEDED is processed before its     *)
(* relocations (linker.c:1780-1880, 2873-2935).                            *)
NeededHosts(h) ==
  LET rs == Range(FileOfSo(h).needed) IN {Resolved(r).name : r \in {q \in rs : HostHas(q)}}
Promised(h) == HostSyms \cup UNION {HostLibs[l] : l \in NeededHosts(h)}

BindingScope ==
  \A h \in DOMAIN solist : Linked(h) /\ h # LIBDL =>
    \A n \in DOMAIN So(h).bound :
      LET b == So(h).bound[n]
          x == So(h).symtab[n].name
          scope == {h} \cup Range(So(h).needed)
      IN  /\ <<"bionic_", x>> \in Promised(h) => b.kind = "bionic"
          /\ b.kind = "lib" => b.so \in scope /\ Linked(b.so) /\ Is(So(b.so), b.sym, x)
          /\ b.kind \in {"zero", "stub", "host"} =>
               \A d \in scope : ~\E k \in DOMAIN So(d).symtab : Is(So(d), k, x)

(* Symbols of a file that neither overlap nor leave its segments.          *)
SymbolsApart(syms) ==
  \A n \in DOMAIN syms : syms[n].def /\ syms[n].size > 0 =>
    /\ syms[n].value < RegionSize
    /\ \A k \in DOMAIN syms \ {n} : syms[k].def =>
         syms[n].value < syms[k].value \/ syms[k].value + syms[k].size <= syms[n].value

(* dladdr inverts dlsym: the address dlsym gives for a symbol of a library *)
(* is found in some library, and unless that one failed to link and still  *)
(* claims the region, it is reported as that symbol of that library        *)
(* (linker.c:659-720, dlfcn.c:184-213).                                    *)
RoundTrip ==
  Running => \A h \in Handles, x \in SymNames :
    LET r == dlsym_result(h, x)
        s == So(r.so).symtab[r.sym]
        d == dladdr(<<So(r.so).base, s.value>>)
    IN  r.kind = "lib" /\ s.size > 0 =>
          d.so # 0 /\ (Failed(d.so) \/ d = [so |-> r.so, sym |-> r.sym])

(* dladdr finds an address of a loaded library in a library that is mapped *)
(* (dlfcn.c:190: "Determine if this address can be found in any library    *)
(* currently mapped"), never in one whose region was unmapped when it      *)
(* failed to link.                                                         *)
DladdrFindsMapped ==
  Running => \A h \in Usable \ {LIBDL} : \A o \in 0 .. So(h).size - 1 :
    ~Failed(dladdr(<<So(h).base, o>>).so)
=============================================================================
