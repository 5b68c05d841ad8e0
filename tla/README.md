# bionic_translation: a TLA+ model

bionic_translation loads bionic-linked `.so` files into a glibc or musl process.
It is a shim dynamic linker (`linker/`), a pthread wrapper
(`pthread_wrapper/`), libc shims (`libc/`), a few C++ runtime functions
(`libstdc++_standalone/`) and a logging wrapper (`wrapper/`). This directory
models the parts that keep state, checks them with TLC on small instances and
proves the central facts with TLAPS for every instance.

## Inventory

| Component | State | Operations | Interacts with | What is hard | What makes it correct |
|---|---|---|---|---|---|
| Library life cycle (`linker.c`, `dlfcn.c`) | `apkenv_sopool`, `apkenv_solist`, `apkenv_freelist`, `apkenv_socount`; flags, refcount, DT_NEEDED payloads of each `soinfo`; `apkenv_dl_lock` | `bionic_dlopen`, `bionic_dlclose` over find, load, link, constructors, unload | application threads, constructors of the libraries, glibc's `dlopen` | recursion through DT_NEEDED (cyclic too), failures after references were taken, the libdl stand-in, re-entry from constructors, a pool of fixed size | refcounts equal references, nothing in use is freed, constructors before users and destructors after them, slots neither lost nor listed twice, calls return |
| gdb link maps (`linker.c:205-317`) | a doubly linked list from `apkenv_r_debug_head` to `apkenv_r_debug_tail`, glibc's list | notify of load, notify of unload | life cycle (each load and unload), glibc's list | one list temporarily hung on another, links lent and taken back | the debugger sees both lists, glibc gets its own back |
| C++ guard (`__cxa_guard.cpp`) | one word, the futex queue | acquire, release, abort | the compiler's inline test, the kernel | interleavings of atomics and futex calls | one constructor, no thread past an unfinished object, no lost wake-up |
| pthread mutex wrapper (`libpthread.c`) | the first word of each mutex, the page it points to | lock, unlock, init, destroy, lazy first use | glibc mutexes, `mmap`, `mincore` | unsynchronized first use, page reuse | exclusion, one page per live mutex, the declared kind |
| Other pthread wrappers (`libpthread.c`) | the same for condition, rwlock, semaphore; attributes and cleanup records; deadlines | wrappers, timed waits, push and pop | glibc objects, clocks | first use by any operation, a page that goes away under a sleeper, carry in clock arithmetic | no wake-up and no post lost, no timeout early |
| Segments (`linker.c:859-1290`, `2955-2976`, `1495-1540`) | mapped pages, their protection and content, `base`, `size`, the ranges to protect | extents, reserve, map, zero-fill, protect, unmap | life cycle (fails or not), the rest of the process through `mmap` | page rounding, MAP_FIXED next to other threads' memory, failure half-way, 32-bit fields | segments hold what the file says, text is read-only and data writable at the end, nothing stays mapped, nobody else's page is touched |
| Relocation (`linker.c:1750-2351`) | the words of the image | per-type relocation on four architectures, RELR decoding | symbols, segments | types that differ between architectures, bitmaps relative to a moving base | each word relocated exactly once, to the value of the ABI |
| Symbols (`linker.c:426-745`, `dlfcn.c:86-213`) | two kinds of hash table, the bindings of a library, `dl_err_str` | lookup, binding, `dlsym`, `dladdr`, `dlerror` | life cycle, glibc's global scope, search path | hash collisions, lookup order, addresses that are handed out again | lookup is exact, bindings stay in the library's scope, `dladdr` inverts `dlsym` |
| Search path (`linker.c:748-857`, `2990-3016`) | `apkenv_ldpaths`, `apkenv_sopaths` | parse, add, open | configuration, life cycle | a string cut by its buffer, limits on entries | every entry is a directory of the string |
| Configuration (`config.c`, `dlfcn.c:284-366`) | `lib_override_map` and its size | read directories, files, lines | search path | files in any order, a growing array | the first directory wins, no write past the array |
| Environment filter (`linker_environ.c`) | the environment block | filter | nothing calls it | | not modelled |
| libc shims, wrapper code, start-up pieces | mostly none | forwarding, conversions | host libc | conversions between ABIs | not modelled |

`PROJECT.json` lists the components, the hazards of the code line by line, and
for every definition the source lines it models.

## Modules

| Module | Models |
|---|---|
| `Linker` | the library life cycle |
| `MCLinker` | an instance of it for TLC |
| `LinkerProofs` | its types and the soinfo pool, proved |
| `LinkerRefProofs` | its references, proved |
| `LinkerInitProofs` | its constructors and destructors, proved |
| `OnceInit` | what a guarded static object promises (abstract) |
| `CxaGuard` | the guard functions, shown to implement `OnceInit` |
| `CxaGuardProofs` | its theorems |
| `DebugMap`, `MCDebugMap` | the gdb link maps |
| `DebugMapProofs` | its theorems |
| `Pthread`, `MCPthread` | the pthread wrapper: mutexes, conditions, semaphores, rwlocks, attributes, cleanup records |
| `PthreadProofs` | its theorems |
| `Image`, `MCImage` | the memory of one library, from its program headers to its unmapping |
| `ImageProofs` | its theorems |
| `SearchPath` | override map, search path, which file a name stands for |
| `Symbols` | hash tables and lookups |
| `Resolver`, `MCResolver` | the composition of `SearchPath` and `Symbols`: opening, binding, `dlsym`, `dladdr`, `dlerror` |
| `ResolverProofs` | the theorems of all three |

`Linker`, `Image` and `Resolver` are three views of `bionic_dlopen`: who holds whom
and in which order things happen; what is in memory; which file and which symbol
is meant. Each reduces the others to what it needs of them: `Linker` to whether
they fail (`Fate`), `Image` to whether a reference is defined, weak or undefined,
`Resolver` to one region for each library.

### Linker

Everything between lock and unlock of `apkenv_dl_lock` is sequential, so the
model has one call stack and the thread that owns it. The C functions call each
other recursively; a frame `[fn, path, si, i]` is one activation (`fn` the
function, `si` its soinfo, `i` the DT_NEEDED entry it is at), `ret` is what the
last one returned, and an action is one step of the activation on top:

* `Acquire` is the lock and the first call under it, `FindLoaded`,
  `FindElsewhere` are `apkenv_find_library`; `LoadFail`, `LoadFailAllocated`,
  `LoadOk` are `apkenv_load_library` with `apkenv_alloc_info` and
  `apkenv_free_info`;
* `LinkNeeded`, `BindNeeded`, `LinkFinish` and the four failures are
  `apkenv_link_image`, with the unmapping of `apkenv_init_library`;
* `CtorAgain` .. `CtorReenter` are `apkenv_call_constructors_recursive`;
* `UnloadShared` .. `UnloadFinish` are `apkenv_unload_library`;
* `DlopenFound`, `DlopenReturn`, `DlopenOther`, `DlcloseReturn` are the rest of
  the two entry points.

A slot is a pointer to a soinfo: `1..SO_MAX` the pool, `0` the static
`apkenv_libdl_info`. The lists are sequences. What the ELF file contains is
reduced to constants: the overridden path and base name, who can open it, its
DT_NEEDED entries, and how loading and linking it can end (`Fate`). Fates keep
the paths of the code apart: no soinfo yet; soinfo allocated and given back;
failure before DT_NEEDED; the `return false` for an unsupported table, which
`apkenv_init_library` takes for success; failure in the relocations after
references were taken; failure of the GNU_RELRO protection after FLAG_LINKED.

Two steps end the process in the model (`fault`): unloading libdl's soinfo, which
has no dynamic section, and closing a glibc handle, which is not a soinfo.

Application behaviour: a thread closes only handles it was given, once each.
Constructors of the libraries in `Reentrant` call `dlopen`; destructors do not
call back. `dlopen(NULL)` and the branches for FLAG_EXE, which nothing sets, are
left out, and so are `preinit_array` (not used in shared libraries) and memory
mapped by a load that fails half-way.

The gdb notifications at the end of linking and of unloading change only the link
maps and are modelled by themselves in `DebugMap`.

History variables: `handles` and `foreign` (what the application holds),
`inited` (constructors completed, destructors not started), `calls`.

### CxaGuard and OnceInit

Each atomic access and each futex call is a step; the kernel's compare-and-sleep
is one. `FutexInterrupted` is a signal or spurious return, `Abort` a constructor
that throws. The compiler's test of the first byte is external and is where the
values `0x100` and `0x200` matter. `OnceInit` has no word, no futex and no
waiters, only the phases of the threads; `ImplementsOnce` is the refinement, with
the status read off the guard's value and the phase off the program counter.

### DebugMap

Link maps with their two pointers, at the granularity of the debugger's
breakpoints: the edit of the linker's own list, the splice, the restore. The
walk to the end of glibc's list is `Chain`, the value of the recursive function
`Walk` after as many steps as there are link maps.
glibc's own opens and closes happen between notifications. `MayUnloadFirst`
separates what works (the first library stays) from what does not: `DebuggerView`
and `OwnListLinked` are checked only where the first library stays, and the stale
head that its unloading leaves is caught by `RestoredForGlibc` alone, in
`debug_map_unload`.

### Image

One library on one of four architectures. Addresses are scaled: a page has
`PAGE_SIZE` units, a word `WORD`. `page` says who mapped a page and how it is
protected, `word` what is in memory, `si` holds the soinfo's fields and `pc` where
the loader is. An action is one program header, one DT_NEEDED entry, one
relocation or one RELR entry; `SegmentFails`, `RelroFails`, `TooLong`,
`MissingTables`, `RelocFails`, `RelroProtectFails` are the ways out, each with the
munmap its caller does. `AppMap` is another thread that maps a page at any time:
`apkenv_dl_lock` does not stop it. A store to a page that is not writable ends the
process (`StoreFaults`, `ClearFaults`).

`Terms` is the table of what each relocation type adds up, read off the switch of
`apkenv_reloc_library`, one operator for each architecture; `AbiValue` is what the
ELF supplements say, written independently (the REL builds take the addend from the
place, but for a slot of the PLT or GOT, whose old content does not count). Files are records (`MCImage`) with
program headers, content, relocations and an encoded RELR table; the encoder is
in `MCImage` and is not the inverse of the decoder by construction.

Conditions the properties need, each a definition:

* `InRegion`: the file is not prelinked, starts in page 0, and no segment has a
  file part longer than itself. The code maps a segment at `base + p_vaddr`, and
  all of its file part, while the region has the size of the span of the segments
  in memory, so another file is mapped outside of its region.
* `Conventional`: `InRegion`; file offsets congruent to addresses; the file has
  what its headers name; segments share no page and the writable ones come last. A
  read-only segment after a writable one would take the latter into the
  write-protected range.
* `StoresInside`: the file names no place outside its segments, and the dynamic
  section is writable. For the RELR table this is said with two fields that are not
  in the file: `relrSet`, the words it was made from, and `relrBase`, the base of
  each bitmap.
* `NamedOnce`: each word is named once, by one relocation, one bit of the RELR table,
  DT_NEEDED or DT_DEBUG, and the table encodes `relrSet`. Relocations add to what a
  word holds, so a file that names a word twice has no one right value for it. Every
  file of `MCImage` is such a file (`FilesNameOnce`).
* `Abs64OnZero`: where an `R_AARCH64_ABS64` is applied the file holds zero. The code
  adds to that place (`linker.c:1906`), where the ABI, its own trace line at
  `linker.c:1904` and the other types with an addend in the table store. A file with a
  value there gets the sum of both, so `RelocatedOnce` is false of it and leaves it
  out, as it does `PREL64` and `REL32`; `MCImage` has such files and files with zero.
* `AbiTypes`: without `PREL64` and `REL32`, which the code makes relative to
  `r_offset` and not to the place.

### SearchPath, Symbols and Resolver

`SearchPath`: configuration files are sequences of lines, read from a directory in
any order; a path string is a sequence of components with lengths, so that where
the buffer ends is exact. `"cut"` is a directory that does not exist in the
string. The two built-in directories are one (`SystemLib`). `PathsWhole` compares
entry by entry: the n-th entry of the path is the n-th non-empty component of the
string. `dl_parse_library_path` may be called any number of times, for the
environment and by code that knows the application's directory, and each call
replaces the path. `SearchAssumption` gives the types of what the environment hands over.

`Symbols`: the tables are those `ld` writes (external); the hash functions are
arbitrary functions of the name, so that collisions are a choice of the instance.
The lookups walk buckets and chains as recursive functions.

`Resolver`: `solist` is the list of libraries with their bindings, `linking` the
stack of those in `apkenv_link_image`, `host_global` what glibc's
`dlsym(RTLD_DEFAULT)` finds, which grows with each host library a dependency
loads. A library is bound in one step after its DT_NEEDED entries (`LinkDone`).
A library that failed keeps its `base` while its region is free again, and a later
library may be mapped there; `dladdr` and `RTLD_NEXT` then find the failed one first.
`RoundTrip` says that this is the only way for `dladdr` to miss what `dlsym` gave,
`DladdrFindsMapped` that it does not happen, which `resolver_dladdr` refutes.
`bionic_dl_iterate_phdr` (`linker.c:414`) walks the same list and reports the failed
library as one of "all the loaded libraries" (`linker.c:406`).
`Resolution`
follows the order of the RELA builds. `WorldAssumption` says what files there are: a
file with a GNU table has its symbols in the order `ld` writes them
(`SortedForGnu`), without which the code's walk along a bucket is not defined, and
there are at least as many regions as names of files, so that `mmap` finds one.

### Pthread

The first word of an object is either its static initializer or a page;
`is_mapped` is `mincore`. A call on an object is `Call`, then `Check`, `Match`, `Map`,
`Copy`, the unsynchronized steps of the first use, then the glibc call on the page
the object points to at that time. `RacyFirstUse` says whether two first uses may
overlap; `MutualExclusion` and the other properties of `lazy_mutex` are checked where
they do not, and the race itself is caught by `InitializerKnown`, in
`lazy_mutex_race`. Destroyed objects keep their stale pointer, and `mmap` may return any
page that is not mapped. A condition wait sleeps at a page (`wait[t].at`), releases
its mutex's page and takes it again; a deadline is a `struct timespec` and is
computed as the code does, with the carry. The real-time clock is ahead of the
monotonic one by a constant (`Epoch`): nobody sets it during a wait. glibc's objects are external and do what
POSIX says. Applications are well behaved: initialize before use, destroy without
users, unlock what they hold, and no more than all but one of the threads wait
(`SomeoneFree`).

## Runs

| Run | Expect | Shows |
|---|---|---|
| `linker` | pass | `RefcountExact`, `NoDangling`, `DepsInitialized`, `InitFiniPaired`, `FiniUnreferenced`, `PoolPartition`, `UniqueNames`, `NeededAcyclic`, `NoOrphan`, `CallCompletes`, `TypeOK` |
| `linker_reentrant` | violation of `CallReturns` | a constructor that calls `dlopen`, as the comment at `linker.c:2385` describes, deadlocks on `apkenv_dl_lock` |
| `linker_libdl` | violation of `LibdlSubstituteSafe` | the stand-in of `linker.c:2883` is unloaded with its last user and its null dynamic section is read |
| `cxa_guard` | pass | `OneConstructor`, `NoLostWakeup`, `ImplementsOnce`, `AcquireReturns`, `TypeOK` |
| `debug_map` | pass | `DebuggerView`, `RestoredForGlibc`, `OwnListLinked`, `TypeOK` while the first library stays loaded |
| `debug_map_unload` | violation of `RestoredForGlibc` | unloading the first library damages glibc's list |
| `lazy_mutex` | pass | `MutualExclusion`, `PagesOwned`, `KindKept`, `NothingLost`, `TimeoutNotEarly`, `TypeOK` while first uses do not overlap |
| `lazy_mutex_race` | violation of `InitializerKnown` | overlapping first uses fail the assertion at `libpthread.c:457` |
| `image` | pass | `SegmentContents`, `RelocatedOnce`, `NoFault`, `TextProtected`, `DataProtected`, `NoPageKept`, `NoForeignClobber`, `TypeOK` for libraries below the largest `uint32_t` |
| `image_wide` | violation of `TextProtected` | above it, on 64-bit builds, the range to write-protect is never recorded and the text stays writable |
| `resolver` | pass | `PathsWhole`, `OverrideOrder`, `LookupExact`, `BindingScope`, `RoundTrip`, `TypeOK` |
| `resolver_dladdr` | violation of `DladdrFindsMapped` | `dladdr` answers with a library that failed to link and is unmapped, for addresses of the one mapped in its place (`dlfcn.c:190`: "currently mapped") |

Each property of a passing run has a mutant, a small change of a definition that
breaks it (commented "Mutant of ..." in the modules).

### Bounds

* `linker`: four bionic libraries (one of them also under an overridden path), one
  glibc library and libdl; `a` needs `b` and `c`, `b` needs `c`, `c` needs `a`, so the
  entries have a cycle and a diamond; three soinfos for four libraries, so the
  pool runs out; two threads; four calls, enough for two opens that share a
  dependency and both closes, or for open, close and reuse of a slot. `c`, which
  the others need, may end in every fate but two, `a` may fail after binding its
  entries. About 270,000 states.
* `cxa_guard`: three threads, so that one sleeps, one is about to sleep and one
  constructs; two aborts, so that a construction is retried after a retry.
* `debug_map`: three libraries of the linker and two of glibc, so that a middle
  element, both ends and an empty list are removed and added to.
* `lazy_mutex`: three threads; five applications of two or three objects, between
  them one of every kind and two kinds of mutex (two mutexes; a mutex and its
  attribute; a condition, its mutex and its attribute; a semaphore; a rwlock);
  three pages, so that a stale pointer meets a reused page; recursion to depth
  two; a second of `BILLION = 2` units and a wall clock that is ahead by an odd
  number, so that adding a time carries; clocks up to 2. Threads and pages are
  interchangeable (symmetry); no liveness is checked there. About 195,000 states.
* `image`: a page of two words, seven pages, one of them another thread's: a
  library of up to three or four pages goes anywhere among them. Data segments
  start and end on, before and after page boundaries; every relocation type with
  every kind of reference, on a place that holds a value, so that a type that adds
  and one that stores differ, and the absolute types of the RELA builds on a place
  that holds zero, as `ld` leaves it, too; every RELR set over six words, with three bits to a
  bitmap, so that a set needs several bitmaps in a row and a new address between
  them. `Sentinel = 255` is above every address (a 32-bit build, or a library
  below 4 GiB); 15 in `image_wide` is below most. About 136,000 states.
* `resolver`: six files in three directories, a host library, a cycle, an override
  in each of two directories (two files of the first disagree), a map that starts
  with one entry; a path buffer of eight characters and two entries, with strings
  that are cut inside a component, behind one, behind a delimiter, and not at
  all; two buckets for up to twelve names, so that chains are longer than one and
  names collide. One of the files fails to link, and its region is handed out again.
  The path may be parsed again at any time. About 106,000 states.

Deadlock checking is off where the system may stop: the calls of `linker` are
bounded and its faults end the process, and a null dereference ends `debug_map`.
It is on in the other passing runs.

### Fairness

`linker`: weak fairness of the lock owner's steps and of acquiring a free lock by
some thread, which is what a mutex and a scheduler give. `CallCompletes` excuses
a process that has died and a constructor that has re-entered; `CallReturns`
does not excuse the second. No fairness is assumed of the application's calls.
`cxa_guard`: weak fairness of each thread's own steps at the guard, the
constructor's return included; none of signals, exceptions or new arrivals.

## Proofs

Each theorem holds for every value of the constants that satisfies the module's
named assumptions. `LinkerProofs`, `LinkerRefProofs` and `LinkerInitProofs` are
about all paths, dependencies, fates, finite sets of threads and pool sizes, from
`ConstantsAssumption` and `NoRequestAssumption` (`None`, which stands for no call,
is not a call). Together they prove every safety property of `Linker` that a run
checks.

`LinkerProofs`:

* `TypeCorrect`: `Spec => []TypeOK`. The types are not inductive alone: whether
  `LinkNeeded` reads an existing entry depends on a soinfo having as many entries
  as its file (`NeededOK`), and whether `UnloadFinish` puts a pool slot on the
  free list depends on unload never going past its start on libdl (`FramesOK`).
  `TypeInv` is their conjunction. The lemmas `PopKept`, `PushKept`, `SetTopKept`,
  `SkipKept`, `StepKept` say what each stack operation keeps, given that no
  soinfo loses its path (`FramesKept`).
* `PoolPartitioned`: `Spec => []PoolPartition`, inductive relative to `TypeInv`.
  Only three actions touch the lists; `AppendElems`, `TailElems`, `ConsElems` and
  `UnlinkElems` say what the list operations do to a list without repetition.

`LinkerRefProofs`, by one inductive invariant `RefInv`:

* `RefcountsExact`, `NothingDangles`, `NamesUnique`, `NoLibraryOrphaned`
  (`RefcountExact`, `NoDangling`, `UniqueNames`, `NoOrphan`) and the action
  property `DestructorsLast` (`FiniUnreferenced`).
* A refcount that is right is not enough to stay right. The decrement of
  `UnloadShared`, the `refcount = 0` of `UnloadFinish` and the entry that
  `BindNeeded` overwrites are right only because of what the call stack says:
  which functions can be above which (`Shape`), that a result waits for the
  activation that asked for it (`RetOK`), that a soinfo being linked has no
  references yet and unbound entries from `i` on (`LinksOK`, `LinksApart`), that an
  unload past its start works on the last reference and has cleared the entries
  below `i` (`UnloadsOK`), and that a soinfo off the list refers to nothing
  (`SlotsOK`). `ClaimsOK` says who will take the first reference to a library that
  has none, which is `NoOrphan` in the middle of a call.
* The counting is in `Counted` (what a refcount of 0 or 1 excludes) and
  `RefMember`; cardinalities of `Closing`, `NeededRefs` and `UnloadFrames` are
  finite (`RefsFinite`), for which the set of threads has to be.

`LinkerInitProofs`, by `InitInv` on top of `RefInv`:

* `NoNeededCycle` (`NeededAcyclic`): a loaded library has no bound entries, and an
  entry is bound only in a library with refcount 0, which by `RefcountsExact` no
  entry leads to. So a cycle never closes, also when slots are reused.
* `HeldAreInitialized` (`DepsInitialized`) and the action property
  `ConstructorsPaired` (`InitFiniPaired`). The difficulty is `CtorAgain`: a
  library marked `constructors_called` is passed over although its constructors
  may not have run yet. `CtorApart` shows that it is not one further down the
  stack: constructor activations follow bound entries, which have no cycle. Hence
  it is initialized (`MarksOK`). `CtorsOK` and `FinisOK` say for each activation
  which of its entries are initialized.

`CxaGuardProofs`, for all sets of threads, from `MaxAbortsAssumption`:

* `TypeCorrect`, `ConstructorsExclude`, `WakeupsKept`: `TypeOK`, `OneConstructor`
  and `NoLostWakeup`, from one inductive invariant that adds what a thread's
  `old_value` and location say about the guard (a thread that has seen COMPLETE,
  or uses the object, means the guard is COMPLETE for good);
* `GuardImplementsOnce`: `Spec => Once!Spec`, initial states and every step, by
  the same invariant.

`PthreadProofs`, for all objects, pages and finite sets of threads, from
`PthreadAssumption`:

* `TypeCorrect`, `Exclusion`, `PageOwnership`, `KindIsKept`, `NoLostWakeup`,
  `NoEarlyTimeout` (`TypeOK`, `MutualExclusion`, `PagesOwned`, `KindKept`,
  `NothingLost`, `TimeoutNotEarly`), each under the hypothesis `~RacyFirstUse`, as in
  the run `lazy_mutex`: no two threads are in the first use of one object at the
  same time. Without it they need not hold: the run `lazy_mutex_race` shows an
  overlap that fails the code's assertion.
* `AssertionsHold` (`InitializerKnown`), under that hypothesis: overlapping first
  uses, which `lazy_mutex_race` allows, are the only way to the failed assertion.
* The invariant `IInv` adds where each thread is in its first use and that it is
  alone there (`CallsOK`, `Alone`), that held objects are past it (`HeldOK`), that
  the owner and count of the glibc object behind a lock are what the application
  holds (`LocksOK`, with the readers counted), that a waiter has released its mutex
  and sleeps at its condition's page (`WaitsOK`), and that a deadline is a valid
  timespec that stands for the time due (`DeadlinesOK`).

`ImageProofs`, for all page and word sizes, address spaces, builds and files, from
`SizeAssumption` and `FileAssumption` (the types of a file's fields):

* `TypeCorrect` (`TypeOK`), by `TypeInv`, which adds that a soinfo outside of `idle`
  is one that `apkenv_load_library` filled in.
* `RegionGivenBack` (`NoPageKept`) and the action property `ForeignPagesKept`
  (`NoForeignClobber`), by `RegionInv`: from the reservation to the munmap the
  library's pages are exactly those of `[base, base + size)`, the RELRO range and
  the range to write-protect lie inside. `SegInside` is the arithmetic: a segment
  placed at `base + p_vaddr` and rounded to pages stays in a region that was rounded
  as a whole.
* `TextIsProtected`, `DataIsProtected` (`TextProtected`, `DataProtected`), by `ConvInv`:
  until FLAG_LINKED every mapped segment is writable, text too; the range covers
  the read-only segments mapped so far and ends with one of them
  (`RangeCovers`, `RangeEnds`), so that the data behind it is never taken along.
* `SegmentsRight` (`SegmentContents`), by `ContentInv`: the segments mapped so far
  have the right words, which mapping a later one keeps (`LoadSegmentOthers`).
* `StoresNeverFault` (`NoFault`), by `FaultInv`: nothing faulted so far, and the
  decoder of the RELR table is where the encoder was (`RelrInStep`).

`ForeignPagesKept`, `TextIsProtected`, `DataIsProtected` and `StoresNeverFault` assume
`NoTruncation`: every address is at most `Sentinel`, as in the run `image`. It is a
hypothesis of the theorems and not an assumption on the constants; `image_wide`
shows `TextProtected` fail without it.

* `RelocatedExactlyOnce` (`RelocatedOnce`), for conventional files with `NamedOnce`,
  `AbiTypes` and `Abs64OnZero`, by `RelocInv`:
  after each DT_NEEDED entry, relocation and RELR entry, every word of every segment
  is what the ABI makes of the file's word if a step up to now named it, and the
  file's word otherwise (`WordRight`). `Progress` ties the decoder's base to
  `relrBase`. Since each word is named once no later step undoes it.

`DebugMapProofs`, for all sets of link maps, from `DebugMapAssumption`:

* `TypeCorrect` (`TypeOK`), with and without `MayUnloadFirst`: also damaged lists
  have links that are link maps or null.
* `DebuggerSeesAll`, `GlibcListRestored`, `OwnListWhole` (`DebuggerView`,
  `RestoredForGlibc`, `OwnListLinked`), under the hypothesis `~MayUnloadFirst`, as in
  the run `debug_map`; `debug_map_unload` shows `RestoredForGlibc` fail without it.
  `ListInv` says that the links spell the two histories (`Spelled`), where each list
  ends, and that unannounced libraries are linked to nothing. `ChainApart` and
  `ChainJoined` say what the walk finds then: glibc's list, or both in a row.

`ResolverProofs`, for all files, directories, configurations, path strings, limits
and hash functions, from `BoundsAssumption`, `SearchAssumption`, `HashAssumption`
and `WorldAssumption`. It proves every property of the run `resolver`:

* `SearchPathWhole` (`PathsWhole`). `Start` grows with the component (`StartOrder`), so
  only the last component found can be cut (`CutIsLast`), and then the second to
  last character is not `\0` and it is forgotten (`ParsedFacts`).
* `EarlierConfigurationWins` (`OverrideOrder`). `OverrideInv` says for every name and
  each place in the directories, files and lines: the first entry of the map for
  it is from the first directory that has one (`Winner`), and if there is no entry
  nothing read so far had one (`KeyOK`). When the directories are read it is
  `Settled`, and `NamesInv` keeps it for each library that is loaded.
* `HashLookupExact` (`LookupExact`): `SysvWalk` and `GnuWalk` are what the walks
  find from each place on, `GnuLookup` adds the bloom filter, the buckets and the low
  bit that ends a bucket, `LibdlLookup` the table made by hand.
* `TypeCorrect` (`TypeOK`), by `PathInv`, `CfgInv` and `DlInv`: the list's names are
  different, regions in use are different, everything bound is linked
  (`ListOK`), and libraries being linked have no flags yet (`StackOK`). `Room` is the
  pigeonhole that a load finds a region.
* `BindsWithinScope` (`BindingScope`), by `BoundInv`: the host libraries among the
  needs processed so far are in glibc's global scope (`HostsDone`), and a
  linked library keeps what it was bound to. What has to be shown is that
  later steps promise a library no host symbol that it was not bound with. The search
  path may be replaced, so which need is the host's can change; but the needs that no
  listed library meets (`Unlisted`) become fewer, since the list only grows
  (`UnlistedEarlier`), and the invariant covers all that those could promise (`Owed`).
* `DladdrInvertsDlsym` (`RoundTrip`), for every list, under the hypothesis that the
  symbols of each file neither overlap nor leave its segments (`SymbolsApart`); with
  aliases `dladdr` reports the first of them. The address is found, in the library
  that `dlsym` took it from or in one that failed to link (`ContainingLibrary`:
  libraries that did not fail have different regions). The second case is real and is
  `resolver_dladdr`'s; the theorem leaves no other. The files of `MCResolver` are such files
  (`SymbolsAreApart`).

The library's induction theorems cannot be used by the provers, which have to
instantiate an operator. Facts about recursive functions and about sequences of any
length are proved by the least counterexample instead (`MinNat`): the set of
indices where the fact fails, if it has a member, has a least one, and that one
is refuted from its predecessor. That a recursive function has a value is a
lemma of its own (`SysvExists`, `GnuExists`, `StartExists`).

Only model-checked: liveness (`CallCompletes`, `AcquireReturns`), which is out of the
prover's reach. Every safety property of a passing run, invariant or action property,
is also a theorem. No refuted property is proved without the condition under which
its run refutes it.

## Plan

Done: every module, run and theorem above. What could follow is modelling: the
hazards of `PROJECT.json` that have no property, each with the reason.

## Not modelled

* `linker_environ.c`: nothing calls it.
* Branches for the main executable (FLAG_EXE), which nothing sets; preloads, whose
  list is always empty; late hooks (`APKENV_LATEHOOKS` is not defined).
* Machine code of stubs and wrappers, and logging.
* `bionic___pthread_cleanup_push`'s jump buffer and the cancellation that uses it;
  what a created thread runs.
* The libc wrappers: forwarding and conversion between two ABIs, without state.
  Two loops of `libc.c` are wrong at their bounds (`bionic_sigaction`,
  `__libc_fini`) and are listed as hazards.
* The copy of `/proc/self/status` in `libc-antiantidebug.c`: the code returns the
  descriptor of an `fmemopen` stream, which has none.
* SHA-1 (32-bit arithmetic, third-party), the C++ allocation functions, build files.
* Within the modelled parts: walks of `apkenv_solist` without the lock while it
  changes; one thread's `dlerror` seen by another; the resolution order of the REL
  builds where it differs (no `gl` and `sigsetjmp` branches);
  `bionic_dl_unwind_find_exidx`; glob patterns in the search path, which are compared
  as whole directories; the width of a relocated word; a real-time clock that is set
  while a thread waits.
