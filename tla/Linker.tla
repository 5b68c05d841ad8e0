------------------------------- MODULE Linker -------------------------------
(***************************************************************************)
(* The library life cycle of the shim linker: bionic_dlopen and            *)
(* bionic_dlclose (linker/dlfcn.c) over apkenv_find_library,               *)
(* apkenv_load_library, apkenv_init_library, apkenv_link_image,            *)
(* apkenv_call_constructors_recursive and apkenv_unload_library            *)
(* (linker/linker.c).                                                      *)
(*                                                                         *)
(* All of it runs under the mutex apkenv_dl_lock, so one call stack,       *)
(* `stack', belongs to the thread in `lock'.  The C functions recurse      *)
(* through DT_NEEDED entries; a frame of the stack is one activation, and  *)
(* an action is one step of the activation on top.  `ret' is the value the *)
(* frame above has just returned to the one on top.                        *)
(***************************************************************************)
EXTENDS Integers, Sequences, FiniteSets

CONSTANTS
    Threads,     \* application threads calling dlopen and dlclose
    Paths,       \* what a caller or a DT_NEEDED entry may name
    Override,    \* path -> path: /system/lib prefix and cfg.d override map
    Bname,       \* path -> the part after the last slash (soinfo.name)
    LibdlName,   \* "libdl.so"
    Kind,        \* path -> who can open it: "bionic", "glibc" or "absent"
    Fate,        \* path -> what loading and linking that file may come to
    Needed,      \* path -> sequence of the paths in its DT_NEEDED entries
    Reentrant,   \* paths of libraries whose constructor calls dlopen
    SO_MAX,      \* size of apkenv_sopool
    MaxCalls,    \* bound: dlopen and dlclose calls of one behaviour
    None         \* no thread, no request, no path

Fates == {"ok", "load_fail", "alloc_fail", "link_fail", "unsupported",
          "reloc_fail", "relro_fail"}

ASSUME ConstantsAssumption ==
    /\ SO_MAX \in Nat /\ MaxCalls \in Nat
    /\ IsFiniteSet(Threads) /\ None \notin Threads /\ None \notin Paths
    /\ Override \in [Paths -> Paths]
    /\ DOMAIN Bname = Paths
    /\ Kind \in [Paths -> {"bionic", "glibc", "absent"}]
    /\ Fate \in [Paths -> (SUBSET Fates) \ {{}}]
    /\ Needed \in [Paths -> Seq(Paths)]
    /\ Reentrant \subseteq Paths

(***************************************************************************)
(* Slots are pointers to soinfo: 1..SO_MAX is apkenv_sopool, Libdl the     *)
(* static apkenv_libdl_info.  The payload of a DT_NEEDED entry is RAW (an  *)
(* offset in the string table), a slot once link_image has bound it, or    *)
(* NULL once unload_library has cleared it.                                *)
(***************************************************************************)
Libdl == 0
NULL  == -1
RAW   == -2
Pool  == 1..SO_MAX
Slots == {Libdl} \cup Pool

VARIABLES
    so,        \* the soinfo records
    solist,    \* apkenv_solist, followed through soinfo.next
    freelist,  \* apkenv_freelist, followed through soinfo.next
    socount,   \* apkenv_socount
    lock,      \* owner of apkenv_dl_lock, or None
    req,       \* the call each thread is in, or None
    stack,     \* activations of the lock's owner, the innermost last
    ret,       \* what the last activation to end returned
    fault,     \* "none", or the invalid memory access that ended the process
    handles,   \* history: dlopen results not yet given to dlclose
    foreign,   \* history: glibc handles returned by bionic_dlopen, not closed
    inited,    \* history: slots whose constructors have run to their end
    calls      \* number of calls made so far

lib  == <<so, solist, freelist, socount>>
ctl  == <<lock, req, stack, ret, fault>>
hist == <<handles, foreign, inited, calls>>
vars == <<lib, ctl, hist>>

(***************************************************************************)
(* Types.                                                                  *)
(***************************************************************************)
Soinfo == [path: Paths \cup {None}, linked: BOOLEAN, error: BOOLEAN,
           refcount: Int, mapped: BOOLEAN, constructors_called: BOOLEAN,
           needed: Seq(Slots \cup {NULL, RAW})]

Request == [op: {"dlopen"}, arg: Paths] \cup [op: {"dlclose"}, arg: Slots \cup {NULL}]
ASSUME NoRequestAssumption == None \notin Request

\* An activation of a function on a path or on a soinfo.  `i' counts its
\* DT_NEEDED entries, 0 when it has not started; "selfwait" is a constructor
\* that waits for the lock its own thread holds.
Frame == [fn: {"dlopen", "find"}, path: Paths, si: Slots \cup {NULL}, i: Nat]
         \cup [fn: {"link", "ctor", "unload", "dlclose", "selfwait"},
               path: {None}, si: Slots, i: Nat]

NoRet == [done |-> FALSE, si |-> NULL, glibc |-> FALSE]
Returns(s) == [done |-> TRUE, si |-> s, glibc |-> FALSE]
Result == [done: BOOLEAN, si: Slots \cup {NULL}, glibc: BOOLEAN]

TypeOK ==
    /\ so \in [Slots -> Soinfo]
    /\ solist \in Seq(Slots) /\ freelist \in Seq(Pool)
    /\ socount \in 0..SO_MAX
    /\ lock \in Threads \cup {None}
    /\ req \in [Threads -> Request \cup {None}]
    /\ stack \in Seq(Frame)
    /\ ret \in Result
    /\ fault \in {"none", "libdl", "foreign"}
    /\ handles \in [Slots -> Nat]
    /\ foreign \in Nat /\ inited \subseteq Slots /\ calls \in Nat

Elems(s) == {s[k] : k \in DOMAIN s}
Position(s, x) == CHOOSE k \in DOMAIN s : s[k] = x
Unlink(s, x) == [k \in 1..(Len(s) - 1) |-> IF k < Position(s, x) THEN s[k] ELSE s[k + 1]]

(***************************************************************************)
(* apkenv_libdl_info and the zeroed apkenv_sopool.                         *)
(***************************************************************************)
libdl_info == [path |-> None, linked |-> TRUE, error |-> FALSE, refcount |-> 0,
               mapped |-> TRUE, constructors_called |-> FALSE, needed |-> << >>]
ZeroInfo == [libdl_info EXCEPT !.linked = FALSE, !.mapped = FALSE]
\* What apkenv_alloc_info and apkenv_load_library fill in for path p.
FreshInfo(p) == [ZeroInfo EXCEPT !.path = p,
                                 !.needed = [k \in 1..Len(Needed[p]) |-> RAW]]

name(s) == IF s = Libdl THEN LibdlName ELSE Bname[so[s].path]

Init ==
    /\ so = [s \in Slots |-> IF s = Libdl THEN libdl_info ELSE ZeroInfo]
    /\ solist = <<Libdl>> /\ freelist = << >> /\ socount = 0
    /\ lock = None /\ req = [t \in Threads |-> None]
    /\ stack = << >> /\ ret = NoRet /\ fault = "none"
    /\ handles = [s \in Slots |-> 0] /\ foreign = 0
    /\ inited = {} /\ calls = 0

(***************************************************************************)
(* The call stack.                                                         *)
(***************************************************************************)
Top == stack[Len(stack)]
Running(fn) == fault = "none" /\ lock # None /\ stack # << >> /\ Top.fn = fn
Act(fn, p, s, k) == [fn |-> fn, path |-> p, si |-> s, i |-> k]
Push(f)    == stack' = Append(stack, f)
SetTop(f)  == stack' = [stack EXCEPT ![Len(stack)] = f]
Pop        == stack' = SubSeq(stack, 1, Len(stack) - 1)
\* The activation on top moves on to its next DT_NEEDED entry and calls f.
Step(f)    == stack' = Append([stack EXCEPT ![Len(stack)].i = @ + 1], f)
Skip       == stack' = [stack EXCEPT ![Len(stack)].i = @ + 1]

(***************************************************************************)
(* Calls of the application.  A constructor listed in Reentrant makes its  *)
(* call from within apkenv_call_constructors_recursive (CtorReenter).      *)
(***************************************************************************)
CallDlopen(t, p) ==
    /\ fault = "none" /\ req[t] = None /\ calls < MaxCalls
    /\ req' = [req EXCEPT ![t] = [op |-> "dlopen", arg |-> p]]
    /\ calls' = calls + 1
    /\ UNCHANGED <<lib, lock, stack, ret, fault, handles, foreign, inited>>

\* The caller gives up the handle it passes.
CallDlclose(t, s) ==
    /\ fault = "none" /\ req[t] = None /\ calls < MaxCalls
    /\ handles[s] > 0
    /\ req' = [req EXCEPT ![t] = [op |-> "dlclose", arg |-> s]]
    /\ handles' = [handles EXCEPT ![s] = @ - 1]
    /\ calls' = calls + 1
    /\ UNCHANGED <<lib, lock, stack, ret, fault, foreign, inited>>

\* bionic_dlopen also returns glibc handles; the caller closes those too.
CallDlcloseForeign(t) ==
    /\ fault = "none" /\ req[t] = None /\ calls < MaxCalls
    /\ foreign > 0
    /\ req' = [req EXCEPT ![t] = [op |-> "dlclose", arg |-> NULL]]
    /\ foreign' = foreign - 1
    /\ calls' = calls + 1
    /\ UNCHANGED <<lib, lock, stack, ret, fault, handles, inited>>

\* pthread_mutex_lock(&apkenv_dl_lock) and the first call under it.
\* bionic_dlclose casts whatever it is given to soinfo *: a glibc handle is
\* a struct link_map, read and written as if it were a soinfo.
Acquire(t) ==
    /\ fault = "none" /\ lock = None /\ req[t] # None
    /\ lock' = t
    /\ IF req[t].op = "dlopen"
       THEN /\ stack' = <<Act("dlopen", req[t].arg, NULL, 0),
                          Act("find", req[t].arg, NULL, 0)>>
            /\ UNCHANGED fault
       ELSE IF req[t].arg = NULL
            THEN stack' = stack /\ fault' = "foreign"
            ELSE /\ stack' = <<Act("dlclose", None, req[t].arg, 0),
                               Act("unload", None, req[t].arg, 0)>>
                 /\ UNCHANGED fault
    /\ ret' = NoRet
    /\ UNCHANGED <<lib, req, hist>>

Release == lock' = None /\ req' = [req EXCEPT ![lock] = None] /\ stack' = << >>

(***************************************************************************)
(* apkenv_find_library: the list is searched by base name, and a library   *)
(* that is not in it is opened by the overridden path.                     *)
(***************************************************************************)
Target  == Override[Top.path]
\* Mutant of Matches: a library still being linked is not recognised.
MatchesLinked == {s \in Elems(solist) : so[s].linked /\ name(s) = Bname[Target]}

\* At most one soinfo matches (UniqueNames), so the order of the search does
\* not matter.
Matches == {s \in Elems(solist) : name(s) = Bname[Target]}

\* Mutant of FindLoaded: the "recursive link" check is missing.
FindUnlinked ==
    /\ Running("find") /\ Matches # {}
    /\ LET s == CHOOSE m \in Matches : TRUE
       IN ret' = Returns(IF so[s].error THEN NULL ELSE s)
    /\ Pop
    /\ UNCHANGED <<lib, lock, req, fault, hist>>

\* A previous load: its soinfo if linked; NULL if it failed, or if it is
\* still being linked further down the stack ("recursive link").
FindLoaded ==
    /\ Running("find") /\ Matches # {}
    /\ LET s == CHOOSE m \in Matches : TRUE
       IN ret' = Returns(IF so[s].error \/ ~so[s].linked THEN NULL ELSE s)
    /\ Pop
    /\ UNCHANGED <<lib, lock, req, fault, hist>>

\* apkenv_open_library fails and glibc's dlopen is tried.  Only bionic_dlopen
\* passes a place for the handle; for a DT_NEEDED entry the result is NULL.
FindElsewhere ==
    /\ Running("find") /\ Matches = {} /\ Kind[Target] # "bionic"
    /\ ret' = [Returns(NULL) EXCEPT !.glibc =
                   Kind[Target] = "glibc" /\ stack[Len(stack) - 1].fn = "dlopen"]
    /\ Pop
    /\ UNCHANGED <<lib, lock, req, fault, hist>>

Loading == Running("find") /\ Matches = {} /\ Kind[Target] = "bionic"

\* Mutant of PoolFull: the pool bound is checked one soinfo too late.
PoolFullLate == freelist = << >> /\ socount > SO_MAX

\* apkenv_alloc_info takes the head of the free list, else the next soinfo
\* of the pool.
PoolFull  == freelist = << >> /\ socount = SO_MAX
AllocSlot == IF freelist = << >> THEN socount + 1 ELSE Head(freelist)
alloc_info ==
    /\ ~PoolFull
    /\ socount' = IF freelist = << >> THEN socount + 1 ELSE socount

\* apkenv_free_info: a soinfo that is not in the list is only reported.
free_info(s) ==
    IF s \in Elems(solist)
    THEN solist' = Unlink(solist, s) /\ freelist' = <<s>> \o freelist
    ELSE UNCHANGED <<solist, freelist>>

\* apkenv_load_library gives up before it has a soinfo: an unreadable file,
\* a bad ELF header, or no soinfo left.
LoadFail ==
    /\ Loading /\ ("load_fail" \in Fate[Target] \/ PoolFull)
    /\ ret' = Returns(NULL) /\ Pop
    /\ UNCHANGED <<lib, lock, req, fault, hist>>

\* Mutant of LoadFailAllocated: the soinfo of a failed load is not given back.
LoadFailWasted ==
    /\ Loading /\ "alloc_fail" \in Fate[Target] /\ alloc_info
    /\ ret' = Returns(NULL) /\ Pop
    /\ UNCHANGED <<so, freelist, solist, lock, req, fault, hist>>

\* No memory region, or a segment that cannot be mapped: apkenv_free_info
\* unlinks the soinfo again and pushes it on the free list.
LoadFailAllocated ==
    /\ Loading /\ "alloc_fail" \in Fate[Target] /\ alloc_info
    /\ so' = [so EXCEPT ![AllocSlot] = FreshInfo(Target)]
    /\ freelist' = IF freelist = << >> THEN <<AllocSlot>> ELSE freelist
    /\ ret' = Returns(NULL) /\ Pop
    /\ UNCHANGED <<solist, lock, req, fault, hist>>

\* The segments are mapped and apkenv_init_library calls apkenv_link_image.
LoadOk ==
    /\ Loading /\ Fate[Target] \ {"load_fail", "alloc_fail"} # {} /\ alloc_info
    /\ so' = [so EXCEPT ![AllocSlot] = [FreshInfo(Target) EXCEPT !.mapped = TRUE]]
    /\ solist' = Append(solist, AllocSlot)
    /\ freelist' = IF freelist = << >> THEN freelist ELSE Tail(freelist)
    /\ SetTop(Act("link", None, AllocSlot, 1))
    /\ UNCHANGED <<ret, lock, req, fault, hist>>

(***************************************************************************)
(* apkenv_link_image.                                                      *)
(***************************************************************************)
FateOf(s)  == Fate[so[s].path]
LinkStart  == Running("link") /\ ~ret.done /\ Top.i = 1
LinkBound  == Running("link") /\ ~ret.done /\ Top.i = Len(so[Top.si].needed) + 1

\* `goto fail' and the munmap of apkenv_init_library: the soinfo stays in
\* apkenv_solist with FLAG_ERROR, and the DT_NEEDED libraries it has bound
\* keep the references it took.
LinkFails ==
    /\ ret' = Returns(NULL) /\ Pop
    /\ UNCHANGED <<solist, freelist, socount, lock, req, fault, hist>>

LinkFailEarly ==
    /\ LinkStart /\ "link_fail" \in FateOf(Top.si)
    /\ so' = [so EXCEPT ![Top.si].error = TRUE, ![Top.si].mapped = FALSE]
    /\ LinkFails

LinkFailReloc ==
    /\ LinkBound /\ "reloc_fail" \in FateOf(Top.si)
    /\ so' = [so EXCEPT ![Top.si].error = TRUE, ![Top.si].mapped = FALSE]
    /\ LinkFails

\* FLAG_LINKED is already set when the GNU_RELRO mprotect fails.
LinkFailRelro ==
    /\ LinkBound /\ "relro_fail" \in FateOf(Top.si)
    /\ so' = [so EXCEPT ![Top.si].linked = TRUE, ![Top.si].error = TRUE,
                        ![Top.si].mapped = FALSE]
    /\ LinkFails

\* An unsupported relocation table or a bad bloom filter size: `return false',
\* which apkenv_init_library takes for success, before any DT_NEEDED entry
\* is bound and without FLAG_LINKED or FLAG_ERROR.
LinkUnsupported ==
    /\ LinkStart /\ "unsupported" \in FateOf(Top.si)
    /\ ret' = Returns(Top.si) /\ Pop
    /\ UNCHANGED <<lib, lock, req, fault, hist>>

\* The loop over DT_NEEDED: find the library named by the next entry ...
LinkNeeded ==
    /\ Running("link") /\ ~ret.done /\ Top.i <= Len(so[Top.si].needed)
    /\ FateOf(Top.si) \ {"link_fail", "unsupported"} # {}
    /\ Push(Act("find", Needed[so[Top.si].path][Top.i], NULL, 0))
    /\ UNCHANGED <<lib, lock, req, ret, fault, hist>>

\* Mutant of BindNeeded: a DT_NEEDED entry takes no reference.
BindWithoutRef ==
    /\ Running("link") /\ ret.done
    /\ so' = [so EXCEPT ![Top.si].needed[Top.i] = IF ret.si = NULL THEN Libdl ELSE ret.si]
    /\ Skip /\ ret' = NoRet
    /\ UNCHANGED <<solist, freelist, socount, lock, req, fault, hist>>

\* ... and save its soinfo, or libdl's, in the entry with a reference.
BindNeeded ==
    /\ Running("link") /\ ret.done
    /\ LET lsi == IF ret.si = NULL THEN Libdl ELSE ret.si
       IN so' = [so EXCEPT ![Top.si].needed[Top.i] = lsi,
                           ![lsi].refcount = @ + 1]
    /\ Skip /\ ret' = NoRet
    /\ UNCHANGED <<solist, freelist, socount, lock, req, fault, hist>>

LinkFinish ==
    /\ LinkBound /\ "ok" \in FateOf(Top.si)
    /\ so' = [so EXCEPT ![Top.si].linked = TRUE]
    /\ ret' = Returns(Top.si) /\ Pop
    /\ UNCHANGED <<solist, freelist, socount, lock, req, fault, hist>>

(***************************************************************************)
(* apkenv_call_constructors_recursive.                                     *)
(***************************************************************************)
IsSlot(d) == d \in Slots          \* apkenv_validate_soinfo
CtorDeps(s) == so[s].needed

CtorAgain ==
    /\ Running("ctor") /\ Top.i = 0 /\ so[Top.si].constructors_called
    /\ Pop
    /\ UNCHANGED <<lib, lock, req, ret, fault, hist>>

\* Mutant of CtorEnter: constructors_called is not set.
CtorEnterUnmarked ==
    /\ Running("ctor") /\ Top.i = 0 /\ ~so[Top.si].constructors_called
    /\ Skip
    /\ UNCHANGED <<lib, lock, req, ret, fault, hist>>

CtorEnter ==
    /\ Running("ctor") /\ Top.i = 0 /\ ~so[Top.si].constructors_called
    /\ so' = [so EXCEPT ![Top.si].constructors_called = TRUE]
    /\ Skip
    /\ UNCHANGED <<solist, freelist, socount, lock, req, ret, fault, hist>>

\* Mutant of CtorNeeded: constructors of needed libraries are not called.
CtorNeededSkipped ==
    /\ Running("ctor") /\ Top.i \in 1..Len(CtorDeps(Top.si))
    /\ Skip
    /\ UNCHANGED <<lib, lock, req, ret, fault, hist>>

CtorNeeded ==
    /\ Running("ctor") /\ Top.i \in 1..Len(CtorDeps(Top.si))
    /\ LET d == CtorDeps(Top.si)[Top.i]
       IN IF IsSlot(d) THEN Step(Act("ctor", None, d, 0)) ELSE Skip
    /\ UNCHANGED <<lib, lock, req, ret, fault, hist>>

CtorDone == Running("ctor") /\ Top.i = Len(CtorDeps(Top.si)) + 1 /\ Top.i > 0

\* init_func and init_array run to their end.
CtorRun ==
    /\ CtorDone /\ so[Top.si].path \notin Reentrant
    /\ inited' = inited \cup {Top.si}
    /\ Pop
    /\ UNCHANGED <<lib, lock, req, ret, fault, handles, foreign, calls>>

\* The constructor calls bionic_dlopen, which locks apkenv_dl_lock: a normal
\* mutex its thread already owns.  The thread waits for itself.
CtorReenter ==
    /\ CtorDone /\ so[Top.si].path \in Reentrant
    /\ SetTop([Top EXCEPT !.fn = "selfwait"])
    /\ UNCHANGED <<lib, lock, req, ret, fault, hist>>

(***************************************************************************)
(* The rest of bionic_dlopen, once apkenv_find_library has returned.       *)
(***************************************************************************)
DlopenFound ==
    /\ Running("dlopen") /\ ret.done /\ ret.si # NULL
    /\ stack' = Append([stack EXCEPT ![Len(stack)].si = ret.si],
                       Act("ctor", None, ret.si, 0))
    /\ ret' = NoRet
    /\ UNCHANGED <<lib, lock, req, fault, hist>>

\* Mutant of DlopenReturn: the handle takes no reference.
DlopenReturnWithoutRef ==
    /\ Running("dlopen") /\ ~ret.done /\ Top.si # NULL
    /\ handles' = [handles EXCEPT ![Top.si] = @ + 1]
    /\ Release
    /\ UNCHANGED <<lib, ret, fault, foreign, inited, calls>>

DlopenReturn ==
    /\ Running("dlopen") /\ ~ret.done /\ Top.si # NULL
    /\ so' = [so EXCEPT ![Top.si].refcount = @ + 1]
    /\ handles' = [handles EXCEPT ![Top.si] = @ + 1]
    /\ Release
    /\ UNCHANGED <<solist, freelist, socount, ret, fault, foreign, inited, calls>>

\* Mutant of DlopenOther: the error path does not unlock.
DlopenOtherLocked ==
    /\ Running("dlopen") /\ ret.done /\ ret.si = NULL
    /\ foreign' = IF ret.glibc THEN foreign + 1 ELSE foreign
    /\ ret' = NoRet
    /\ stack' = << >> /\ req' = [req EXCEPT ![lock] = None]
    /\ UNCHANGED <<lib, lock, fault, handles, inited, calls>>

\* A glibc handle is returned as it is; otherwise set_dlerror and NULL.
DlopenOther ==
    /\ Running("dlopen") /\ ret.done /\ ret.si = NULL
    /\ foreign' = IF ret.glibc THEN foreign + 1 ELSE foreign
    /\ ret' = NoRet
    /\ Release
    /\ UNCHANGED <<lib, fault, handles, inited, calls>>

(***************************************************************************)
(* apkenv_unload_library and the end of bionic_dlclose.                    *)
(***************************************************************************)
\* Mutant of LastReference: off by one in the test for the last reference.
LastTwoReferences(s) == so[s].refcount \in {1, 2}

LastReference(s) == so[s].refcount = 1

UnloadShared ==
    /\ Running("unload") /\ Top.i = 0 /\ ~LastReference(Top.si)
    /\ so' = [so EXCEPT ![Top.si].refcount = @ - 1]
    /\ Pop
    /\ UNCHANGED <<solist, freelist, socount, lock, req, ret, fault, hist>>

\* The last reference: apkenv_call_destructors, then GNU_RELRO is undone.
UnloadEnter ==
    /\ Running("unload") /\ Top.i = 0 /\ LastReference(Top.si)
    /\ Top.si # Libdl
    /\ inited' = inited \ {Top.si}
    /\ Skip
    /\ UNCHANGED <<lib, lock, req, ret, fault, handles, foreign, calls>>

\* apkenv_libdl_info has no dynamic section: the loop over DT_NEEDED reads
\* through a null pointer.
UnloadLibdl ==
    /\ Running("unload") /\ Top.i = 0 /\ LastReference(Top.si)
    /\ Top.si = Libdl
    /\ fault' = "libdl"
    /\ UNCHANGED <<lib, lock, req, stack, ret, hist>>

UnloadNeeded ==
    /\ Running("unload") /\ Top.i \in 1..Len(so[Top.si].needed)
    /\ so' = [so EXCEPT ![Top.si].needed[Top.i] = NULL]
    /\ LET d == so[Top.si].needed[Top.i]
       IN IF IsSlot(d) THEN Step(Act("unload", None, d, 0)) ELSE Skip
    /\ UNCHANGED <<solist, freelist, socount, lock, req, ret, fault, hist>>

\* Mutant of UnloadFinish: apkenv_free_info is not called.
UnloadFinishListed ==
    /\ Running("unload") /\ Top.i = Len(so[Top.si].needed) + 1
    /\ so' = [so EXCEPT ![Top.si].mapped = FALSE, ![Top.si].refcount = 0]
    /\ Pop
    /\ UNCHANGED <<solist, freelist, socount, lock, req, ret, fault, hist>>

\* munmap, apkenv_free_info, refcount = 0.
UnloadFinish ==
    /\ Running("unload") /\ Top.i = Len(so[Top.si].needed) + 1
    /\ so' = [so EXCEPT ![Top.si].mapped = FALSE, ![Top.si].refcount = 0]
    /\ free_info(Top.si)
    /\ Pop
    /\ UNCHANGED <<socount, lock, req, ret, fault, hist>>

DlcloseReturn ==
    /\ Running("dlclose")
    /\ Release
    /\ UNCHANGED <<lib, ret, fault, hist>>

-----------------------------------------------------------------------------
Find   == FindLoaded \/ FindElsewhere
Load   == LoadFail \/ LoadFailAllocated \/ LoadOk
Link   == \/ LinkFailEarly \/ LinkFailReloc \/ LinkFailRelro
          \/ LinkUnsupported \/ LinkNeeded \/ BindNeeded \/ LinkFinish
Ctor   == CtorAgain \/ CtorEnter \/ CtorNeeded \/ CtorRun \/ CtorReenter
Dlopen == DlopenFound \/ DlopenReturn \/ DlopenOther
Unload == UnloadShared \/ UnloadEnter \/ UnloadLibdl \/ UnloadNeeded \/ UnloadFinish

\* A step of the thread that owns the lock.
OwnerStep == Find \/ Load \/ Link \/ Ctor \/ Dlopen \/ Unload \/ DlcloseReturn

Call(t) ==
    \/ \E p \in Paths : CallDlopen(t, p)
    \/ \E s \in Slots : CallDlclose(t, s)
    \/ CallDlcloseForeign(t)

Next == (\E t \in Threads : Call(t) \/ Acquire(t)) \/ OwnerStep

Spec == Init /\ [][Next]_vars

\* The scheduler runs a runnable thread; a free mutex is granted to someone.
FairSpec == Spec /\ WF_vars(OwnerStep) /\ WF_vars(\E t \in Threads : Acquire(t))

(***************************************************************************)
(* Properties.                                                             *)
(***************************************************************************)

Holds(s)   == handles[s] > 0
\* Threads that have passed s to bionic_dlclose and still wait for the lock.
Closing(s) == {t \in Threads : /\ req[t] # None /\ lock # t
                               /\ req[t].op = "dlclose" /\ req[t].arg = s}
Entries(u, s)    == {k \in DOMAIN so[u].needed : so[u].needed[k] = s}
NeededRefs(s)    == UNION {{<<u, k>> : k \in Entries(u, s)} : u \in Slots}
UnloadFrames(s)  == {k \in DOMAIN stack : stack[k].fn = "unload" /\ stack[k].si = s}
Listed(s)        == s \in Elems(solist)

\* A soinfo's refcount is the number of references that exist: handles the
\* application holds or is just closing, bound DT_NEEDED entries (those of
\* libraries that failed to link included) and unload_library activations.
\* The increments are in bionic_dlopen and apkenv_link_image, the decrements
\* in apkenv_unload_library, each reached along several paths.
RefcountExact ==
    \A s \in Slots :
        so[s].refcount = handles[s] + Cardinality(Closing(s))
                         + Cardinality(NeededRefs(s)) + Cardinality(UnloadFrames(s))

\* What a caller or another library can still reach is in apkenv_solist,
\* mapped and not failed: apkenv_unload_library never frees it under them.
NoDangling ==
    \A s \in Slots :
        Holds(s) \/ Closing(s) # {} \/ (\E u \in Elems(solist) : Entries(u, s) # {})
        => Listed(s) /\ so[s].mapped /\ ~so[s].error

\* Constructors have run in every library the application holds and in every
\* library those need: apkenv_call_constructors_recursive covers the closure
\* although it skips what is already marked constructors_called.
DepsInitialized ==
    \A s \in Slots :
        /\ Holds(s) => s \in inited
        /\ s \in inited => \A d \in Elems(so[s].needed) : IsSlot(d) => d \in inited

\* Constructors run once per load, and destructors only where they ran.
InitFiniPaired ==
    [][ /\ CtorRun => Top.si \notin inited
        /\ UnloadEnter => Top.si \in inited ]_vars

\* When apkenv_unload_library calls a library's destructors, nothing else
\* refers to it any more: users are torn down before what they use.
FiniUnreferenced ==
    [][ UnloadEnter => /\ ~Holds(Top.si) /\ Closing(Top.si) = {}
                       /\ NeededRefs(Top.si) = {} ]_vars

Injective(s) == \A j, k \in DOMAIN s : s[j] = s[k] => j = k

\* Every soinfo handed out by the pool is in exactly one of apkenv_solist and
\* apkenv_freelist, once, and apkenv_libdl_info heads apkenv_solist (what the
\* comment in apkenv_free_info relies on).
PoolPartition ==
    /\ solist # << >> /\ solist[1] = Libdl
    /\ Injective(solist) /\ Injective(freelist)
    /\ Elems(solist) \cap Elems(freelist) = {}
    /\ Elems(solist) \cup Elems(freelist) = 0..socount

\* One library of a name at a time, however deep the recursion.
UniqueNames ==
    \A s, u \in Elems(solist) : name(s) = name(u) => s = u

\* The bound DT_NEEDED entries have no cycle, even where the libraries' own
\* entries do ("recursive link" falls back to libdl), so the recursion over
\* them in lookup, constructors and unload ends.
NeededAcyclic ==
    \A S \in (SUBSET Elems(solist)) \ {{}} :
        \E s \in S : Elems(so[s].needed) \cap S = {}

\* Between calls, a library nobody refers to is gone, unless it failed.
NoOrphan ==
    (stack = << >> /\ fault = "none") =>
        \A s \in Elems(solist) \ {Libdl} : so[s].error \/ so[s].refcount > 0

SelfWait == \E k \in DOMAIN stack : stack[k].fn = "selfwait"

\* A call of bionic_dlopen or bionic_dlclose returns to its caller, unless
\* the process has died or a constructor has called back into the linker.
CallCompletes ==
    \A t \in Threads : req[t] # None ~> (req[t] = None \/ fault # "none" \/ SelfWait)

\* What comments in the code say and the runs refute.

\* "simply use libdl's soinfo, in order to not break downstream users".
LibdlSubstituteSafe == fault # "libdl"

\* "The libc constructor calls dlopen()", and the call comes back.
CallReturns ==
    \A t \in Threads : req[t] # None ~> (req[t] = None \/ fault # "none")
=============================================================================
