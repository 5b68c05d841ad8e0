------------------------------ MODULE Pthread -------------------------------
(***************************************************************************)
(* The pthread wrapper (pthread_wrapper/libpthread.c).  An object of the   *)
(* application (bionic_mutex_t, bionic_sem_t, ...) holds either the bytes  *)
(* of a static initializer or a pointer to a glibc object in a page of its *)
(* own; mincore on that pointer (IS_MAPPED) tells which.  The first use of *)
(* a mutex, semaphore, rwlock or condition maps the page and fills it in,  *)
(* with no lock and no atomic access (INIT_IF_NOT_MAPPED); attributes and  *)
(* cleanup records are mapped by an explicit call.  Timed waits convert    *)
(* the time they are given into a deadline of glibc's.                     *)
(***************************************************************************)
EXTENDS Naturals, FiniteSets

CONSTANTS
    Threads,
    Objects,      \* objects of the application
    Kind,         \* object -> what it is declared as
    Programs,     \* the sets of objects an application may use
    Pages,        \* page addresses mmap may return
    None,         \* no thread, no object, no page
    RacyFirstUse, \* may two threads be in the first use of an object at once?
    BILLION,      \* units of tv_nsec in a second
    Epoch,        \* what CLOCK_REALTIME is ahead of CLOCK_MONOTONIC
    Times,        \* times an application passes to a timed wait
    MaxNow,       \* bound: how far the clocks go
    MaxSem        \* bound: value of a semaphore

Static == "static"   \* the bytes of the initializer, not a mapped address

MutexKinds == {"normal", "recursive", "errorcheck"}  \* rows of bionic_mutex_init_map
LazyKinds == MutexKinds \cup {"sem", "rwlock", "cond"}
Kinds == LazyKinds \cup {"mutexattr", "condattr", "attr", "cleanup"}

ASSUME PthreadAssumption ==
    /\ Kind \in [Objects -> Kinds] /\ RacyFirstUse \in BOOLEAN
    /\ None \notin Threads \cup Objects \cup Pages /\ IsFiniteSet(Threads)
    /\ Static \notin Pages
    /\ Programs \subseteq SUBSET Objects
    /\ {Epoch, MaxNow, MaxSem} \subseteq Nat /\ Times \subseteq Nat /\ BILLION \in Nat \ {0}

VARIABLES
    program,  \* the objects this application uses
    word,     \* object -> its first word: Static or the page it points to
    mapped,   \* pages that are mapped
    page,     \* page -> the glibc object in it
    pc, obj, op,  \* thread -> where it is in a call, on which object, which call
    wait,     \* thread -> the condition wait it is in
    now,      \* CLOCK_MONOTONIC
    ready,    \* objects initialized and not destroyed
    held,     \* history: <<thread, object, mode>> locked and not unlocked
    sent,     \* history: semaphore -> initial value, plus posts, minus waits
    aborted   \* an assertion has failed

objVars == <<word, mapped, page>>
histVars == <<program, held, sent, aborted>>
vars == <<objVars, pc, obj, op, wait, now, ready, histVars>>

IsMutex(o) == Kind[o] \in MutexKinds
IsLazy(o) == Kind[o] \in LazyKinds
Of(kind) == {o \in program : Kind[o] = kind}

(* A glibc object: the kind and owner of a mutex, the owner (writer) of a  *)
(* rwlock; a lock depth, number of readers, value of a semaphore or of an  *)
(* attribute; the clock of a condition.  Fresh memory from mmap is zero.   *)
Clocks == {"realtime", "monotonic"}
Glibc == [kind : MutexKinds, owner : Threads \cup {None}, count : Nat, clock : Clocks]
Initializer(k) == [kind |-> k, owner |-> None, count |-> 0, clock |-> "realtime"]
Zero == Initializer("normal")
OwnedBy(g, a, n) == [g EXCEPT !.owner = a, !.count = n]

Calls == {"mutex_lock", "mutex_trylock", "rdlock", "wrlock", "sem_post", "sem_trywait", "sem_wait",
          "cond_signal", "cond_broadcast"}

\* A condition wait: mutex, page waited at, deadline passed to glibc.
Waits == [mutex : Objects \cup {None}, at : Pages \cup {None}, deadline : Nat \X Nat, due : Nat,
          how : {"none", "untimed", "abs", "relative", "monotonic"}, out : BOOLEAN]
NoWait == [mutex |-> None, at |-> None, how |-> "none", deadline |-> <<0, 0>>, due |-> 0, out |-> FALSE]

TypeOK ==
    /\ program \in Programs
    /\ word \in [Objects -> {Static} \cup Pages] /\ mapped \subseteq Pages
    /\ page \in [Pages -> Glibc]
    /\ pc \in [Threads -> {"out", "check", "match", "map", "copy", "call", "waiting", "woken", "einval"}]
    /\ obj \in [Threads -> Objects \cup {None}]
    /\ op \in [Threads -> Calls \cup {"cond_wait", "none"}]
    /\ wait \in [Threads -> Waits]
    /\ now \in 0 .. MaxNow
    /\ ready \subseteq program /\ held \subseteq Threads \X program \X {"x", "r"}
    /\ sent \in [Objects -> Nat] /\ aborted \in BOOLEAN

\* Objects with a static initializer are ready, the others are still to be
\* initialized.
Init ==
    /\ program \in Programs
    /\ word = [o \in Objects |-> Static] /\ mapped = {}
    /\ page = [p \in Pages |-> Zero]
    /\ pc = [t \in Threads |-> "out"] /\ obj = [t \in Threads |-> None]
    /\ op = [t \in Threads |-> "none"] /\ wait = [t \in Threads |-> NoWait] /\ now = 0
    /\ ready = {o \in program : IsLazy(o)}
    /\ held = {} /\ sent = [o \in Objects |-> 0] /\ aborted = FALSE

Goto(t, l) == pc' = [pc EXCEPT ![t] = l]
Idle(t) == ~aborted /\ pc[t] = "out"
HeldBy(t) == {h \in held : h[1] = t}
Users(o) == {t \in Threads : obj[t] = o \/ wait[t].mutex = o \/ \E h \in held : h[1] = t /\ h[2] = o}
is_mapped(o) == word[o] \in mapped
Target(t) == page[word[obj[t]]]
InFirstUse(o) == \E t \in Threads :
    obj[t] = o /\ (pc[t] \in {"match", "map", "copy"} \/ ~is_mapped(o))

(***************************************************************************)
(* A call on an object that may still hold its initializer.                *)
(***************************************************************************)
\* Somebody is left who can post or signal.
Waiters == {t \in Threads : op[t] \in {"sem_wait", "cond_wait"}}
SomeoneFree == Cardinality(Waiters) + 1 < Cardinality(Threads)

(* What an application calls: it locks when it holds nothing, or once more *)
(* a recursive mutex, and waits for a semaphore when it holds nothing.     *)
May(t, o, c) ==
    \/ /\ c \in {"mutex_lock", "mutex_trylock"} /\ IsMutex(o)
       /\ \A h \in HeldBy(t) : h[2] = o /\ Kind[o] = "recursive" /\ page[word[o]].count < 2
    \/ c \in {"rdlock", "wrlock"} /\ Kind[o] = "rwlock" /\ HeldBy(t) = {}
    \/ c = "sem_post" /\ Kind[o] = "sem" /\ sent[o] < MaxSem
    \/ c = "sem_trywait" /\ Kind[o] = "sem"
    \/ c = "sem_wait" /\ Kind[o] = "sem" /\ HeldBy(t) = {} /\ SomeoneFree
    \/ c \in {"cond_signal", "cond_broadcast"} /\ Kind[o] = "cond"

Enter(t, o, c) ==
    /\ Idle(t) /\ o \in ready /\ (RacyFirstUse \/ ~InFirstUse(o))
    /\ obj' = [obj EXCEPT ![t] = o] /\ op' = [op EXCEPT ![t] = c]
    /\ Goto(t, "check")
    /\ UNCHANGED <<objVars, now, ready, histVars>>

Call(t, o, c) == May(t, o, c) /\ Enter(t, o, c) /\ UNCHANGED wait

inCall == <<obj, op, wait, now, ready, program, held, sent>>

\* Mutant of Check: the page is filled in whether mapped before or not.
CheckAlwaysCopies(t) ==
    /\ ~aborted /\ pc[t] = "check"
    /\ Goto(t, IF is_mapped(obj[t]) THEN "copy" ELSE IF IsMutex(obj[t]) THEN "match" ELSE "map")
    /\ UNCHANGED <<objVars, inCall, aborted>>

\* INIT_IF_NOT_MAPPED: the test ...
Check(t) ==
    /\ ~aborted /\ pc[t] = "check"
    /\ Goto(t, IF is_mapped(obj[t]) THEN "call" ELSE IF IsMutex(obj[t]) THEN "match" ELSE "map")
    /\ UNCHANGED <<objVars, inCall, aborted>>

\* ... and for a mutex, default_pthread_mutex_init: memcmp with the known
\* initializers, and the assertion when none of them is there,
Match(t) ==
    /\ ~aborted /\ pc[t] = "match"
    /\ IF word[obj[t]] = Static
       THEN Goto(t, "map") /\ UNCHANGED aborted
       ELSE aborted' = TRUE /\ UNCHANGED pc
    /\ UNCHANGED <<objVars, inCall>>

\* mmap, whose result overwrites the initializer,
MapAt(o, content) ==
    \E p \in Pages \ mapped :
       /\ mapped' = mapped \cup {p}
       /\ page' = [page EXCEPT ![p] = content]
       /\ word' = [word EXCEPT ![o] = p]

Map(t) ==
    /\ ~aborted /\ pc[t] = "map"
    /\ MapAt(obj[t], Zero)
    /\ Goto(t, "copy")
    /\ UNCHANGED <<inCall, aborted>>

\* Mutant of Filled: the first row of the table, not the matching one.
FilledFirstRow(o) == Zero

\* Mutant of Filled: the bionic initializer is copied, not the glibc one.
FilledBionicBytes(o) == Initializer(Static)

\* the row of the mutex, or zero for the default_*_init of the others.
Filled(o) == IF IsMutex(o) THEN Initializer(Kind[o]) ELSE Zero

\* and the memcpy or memset, through the pointer as it is then.
Copy(t) ==
    /\ ~aborted /\ pc[t] = "copy"
    /\ page' = [page EXCEPT ![word[obj[t]]] = Filled(obj[t])]
    /\ Goto(t, "call")
    /\ UNCHANGED <<word, mapped, inCall, aborted>>

(***************************************************************************)
(* The glibc call, on the page the object points to now.                   *)
(***************************************************************************)
At(t, c) == ~aborted /\ pc[t] = "call" /\ op[t] = c
Put(t, g) == page' = [page EXCEPT ![word[obj[t]]] = g]

Return(t) ==
    /\ obj' = [obj EXCEPT ![t] = None] /\ op' = [op EXCEPT ![t] = "none"]
    /\ Goto(t, "out")
    /\ UNCHANGED <<word, mapped, wait, now, ready, program, aborted>>

Locked(t, mode) == held' = held \cup {<<t, obj[t], mode>>} /\ UNCHANGED sent
Nothing == UNCHANGED <<page, held, sent>>

Available(t) == Target(t).owner = None \/ (Target(t).kind = "recursive" /\ Target(t).owner = t)

Lock(t) ==
    /\ At(t, "mutex_lock") \/ At(t, "mutex_trylock")
    /\ Available(t)
    /\ Put(t, OwnedBy(Target(t), t, Target(t).count + 1))
    /\ Locked(t, "x") /\ Return(t)

Busy(t) == At(t, "mutex_trylock") /\ ~Available(t) /\ Nothing /\ Return(t)

RdLock(t) ==
    /\ At(t, "rdlock") /\ Target(t).owner = None
    /\ Put(t, [Target(t) EXCEPT !.count = @ + 1])
    /\ Locked(t, "r") /\ Return(t)

WrLock(t) ==
    /\ At(t, "wrlock") /\ Target(t).owner = None /\ Target(t).count = 0
    /\ Put(t, [Target(t) EXCEPT !.owner = t])
    /\ Locked(t, "x") /\ Return(t)

SemPost(t) ==
    /\ At(t, "sem_post")
    /\ Put(t, [Target(t) EXCEPT !.count = @ + 1])
    /\ sent' = [sent EXCEPT ![obj[t]] = @ + 1] /\ UNCHANGED held
    /\ Return(t)

SemWait(t) ==
    /\ At(t, "sem_wait") \/ At(t, "sem_trywait")
    /\ Target(t).count > 0
    /\ Put(t, [Target(t) EXCEPT !.count = @ - 1])
    /\ sent' = [sent EXCEPT ![obj[t]] = @ - 1] /\ UNCHANGED held
    /\ Return(t)

\* sem_trywait, or the timeout of sem_timedwait.
SemNone(t) == At(t, "sem_trywait") /\ Target(t).count = 0 /\ Nothing /\ Return(t)

(* What is held is mapped: INIT_IF_NOT_MAPPED does nothing in an unlock.   *)
Release(t, h, free) ==
    /\ Idle(t) /\ h \in held
    /\ page' = [page EXCEPT ![word[h[2]]] = free]
    /\ held' = IF free.owner = None THEN held \ {h} ELSE held
    /\ UNCHANGED <<word, mapped, pc, obj, op, wait, now, ready, program, sent, aborted>>

MutexUnlock(t, o) ==
    LET g == page[word[o]]
    IN  /\ IsMutex(o)
        /\ Release(t, <<t, o, "x">>, OwnedBy(g, IF g.count = 1 THEN None ELSE t, g.count - 1))

RwlockUnlock(t, o) ==
    LET g == page[word[o]]
    IN  /\ Kind[o] = "rwlock"
        /\ \/ Release(t, <<t, o, "r">>, [g EXCEPT !.count = @ - 1])
           \/ Release(t, <<t, o, "x">>, [g EXCEPT !.owner = None])

(***************************************************************************)
(* Conditions and timed waits.                                             *)
(***************************************************************************)
\* A struct timespec is <<tv_sec, tv_nsec>>.
Timespec(x) == <<x \div BILLION, x % BILLION>>
Ticks(tv) == tv[1] * BILLION + tv[2]
Time(clock) == IF clock = "realtime" THEN now + Epoch ELSE now

\* Mutant of Sum: no carry.
SumUncarried(a, b) == <<a[1] + b[1], a[2] + b[2]>>

\* tv_sec and tv_nsec are added, with a carry.
Sum(a, b) ==
    IF a[2] + b[2] >= BILLION THEN <<a[1] + b[1] + 1, a[2] + b[2] - BILLION>>
    ELSE <<a[1] + b[1], a[2] + b[2]>>

(* The deadline each kind of wait passes on; due is when the wait should   *)
(* be over, for a relative time.                                           *)
Deadline(how, x) ==
    IF how = "relative" THEN Sum(Timespec(Time("realtime")), Timespec(x))
    ELSE IF how = "monotonic" THEN Sum(Timespec(Time("monotonic")), Timespec(x))
    ELSE Timespec(x)

CondWait(t, c, m) ==
    /\ Kind[c] = "cond" /\ IsMutex(m) /\ SomeoneFree
    /\ <<t, m, "x">> \in held /\ page[word[m]].count = 1
    /\ \E how \in {"untimed", "abs", "relative", "monotonic"} :
       \E x \in IF how = "untimed" THEN {0} ELSE Times :
          wait' = [wait EXCEPT ![t] =
                     [mutex |-> m, at |-> None, how |-> how, deadline |-> Deadline(how, x),
                      due |-> IF how = "relative" THEN now + x ELSE 0, out |-> FALSE]]
    /\ Enter(t, c, "cond_wait")

(* pthread_cond_wait: the mutex is released and the thread waits at the    *)
(* page; a tv_nsec that is no fraction of a second is refused.             *)
Sleep(t) ==
    /\ At(t, "cond_wait") /\ is_mapped(wait[t].mutex)
    /\ IF wait[t].deadline[2] >= BILLION
       THEN Goto(t, "einval") /\ UNCHANGED <<page, wait, held>>
       ELSE /\ Goto(t, "waiting")
            /\ page' = [page EXCEPT ![word[wait[t].mutex]] = OwnedBy(@, None, 0)]
            /\ wait' = [wait EXCEPT ![t].at = word[obj[t]]]
            /\ held' = held \ {<<t, wait[t].mutex, "x">>}
    /\ UNCHANGED <<word, mapped, obj, op, now, ready, program, sent, aborted>>

Sleepers(p) == {u \in Threads : pc[u] = "waiting" /\ wait[u].at = p}

Wake(t, us) ==
    /\ pc' = [u \in Threads |-> IF u = t THEN "out" ELSE IF u \in us THEN "woken" ELSE pc[u]]
    /\ obj' = [obj EXCEPT ![t] = None] /\ op' = [op EXCEPT ![t] = "none"]
    /\ UNCHANGED <<objVars, wait, now, ready, histVars>>

CondSignal(t) ==
    /\ At(t, "cond_signal")
    /\ LET us == Sleepers(word[obj[t]])
       IN  IF us = {} THEN Wake(t, {}) ELSE \E u \in us : Wake(t, {u})

CondBroadcast(t) == At(t, "cond_broadcast") /\ Wake(t, Sleepers(word[obj[t]]))

Timeout(t) ==
    /\ ~aborted /\ pc[t] = "waiting" /\ wait[t].how # "untimed"
    /\ Time(page[wait[t].at].clock) >= Ticks(wait[t].deadline)
    /\ Goto(t, "woken") /\ wait' = [wait EXCEPT ![t].out = TRUE]
    /\ UNCHANGED <<objVars, obj, op, now, ready, histVars>>

\* The woken thread takes its mutex again.
Rewake(t) ==
    LET m == wait[t].mutex
    IN /\ ~aborted /\ pc[t] = "woken" /\ page[word[m]].owner = None
       /\ page' = [page EXCEPT ![word[m]] = OwnedBy(@, t, 1)]
       /\ held' = held \cup {<<t, m, "x">>}
       /\ wait' = [wait EXCEPT ![t] = NoWait]
       /\ obj' = [obj EXCEPT ![t] = None] /\ op' = [op EXCEPT ![t] = "none"]
       /\ Goto(t, "out")
       /\ UNCHANGED <<word, mapped, now, ready, program, sent, aborted>>

Tick ==
    /\ now < MaxNow /\ \E t \in Threads : wait[t].mutex # None
    /\ now' = now + 1
    /\ UNCHANGED <<objVars, pc, obj, op, wait, ready, histVars>>

(***************************************************************************)
(* Explicit initialization and destruction, called when no other thread    *)
(* uses the object, as POSIX asks.                                         *)
(***************************************************************************)
atomic == <<pc, obj, op, wait, now, program, held>>

\* munmap: the content is gone with the page.
Unmap(o) ==
    /\ mapped' = mapped \ {word[o]}
    /\ page' = [page EXCEPT ![word[o]] = Zero]

\* Mutant of Destroy: the page stays mapped.
DestroyLeaks(t, o) ==
    /\ Idle(t) /\ o \in ready /\ Users(o) = {}
    /\ ready' = ready \ {o} /\ sent' = [sent EXCEPT ![o] = 0]
    /\ UNCHANGED <<objVars, atomic, aborted>>

\* The page is unmapped if there is one; the pointer to it stays.
Destroy(t, o) ==
    /\ Idle(t) /\ o \in ready /\ Users(o) = {}
    /\ IF is_mapped(o) THEN Unmap(o) ELSE UNCHANGED <<mapped, page>>
    /\ ready' = ready \ {o} /\ sent' = [sent EXCEPT ![o] = 0]
    /\ UNCHANGED <<word, atomic, aborted>>

SemDestroy(t, o) == Kind[o] = "sem" /\ Destroy(t, o)
RwlockDestroy(t, o) == Kind[o] = "rwlock" /\ Destroy(t, o)
AttrDestroy(t, o) == Kind[o] = "attr" /\ Destroy(t, o)
MutexattrDestroy(t, o) == Kind[o] = "mutexattr" /\ Destroy(t, o)
MutexDestroy(t, o) == IsMutex(o) /\ Destroy(t, o)
CondattrDestroy(t, o) == Kind[o] = "condattr" /\ Destroy(t, o)
CondDestroy(t, o) == Kind[o] = "cond" /\ Destroy(t, o)

Initialized(t, o, content) ==
    /\ Idle(t) /\ o \in program \ ready
    /\ MapAt(o, content)
    /\ ready' = ready \cup {o} /\ sent' = [sent EXCEPT ![o] = content.count]
    /\ UNCHANGED <<atomic, aborted>>

\* Without an attribute a mutex is normal; with one, that must be mapped,
\* the mutex has its kind.
MutexInit(t, m) ==
    /\ IsMutex(m)
    /\ \/ Kind[m] = "normal" /\ Initialized(t, m, Zero)
       \/ \E a \in Of("mutexattr") \cap ready :
            is_mapped(a) /\ page[word[a]].kind = Kind[m] /\ Initialized(t, m, Initializer(page[word[a]].kind))

CondInit(t, c) ==
    /\ Kind[c] = "cond"
    /\ \/ Initialized(t, c, Zero)
       \/ \E a \in Of("condattr") \cap ready : Initialized(t, c, [Zero EXCEPT !.clock = page[word[a]].clock])

SemInit(t, s) == Kind[s] = "sem" /\ \E v \in 0 .. 1 : Initialized(t, s, [Zero EXCEPT !.count = v])

RwlockInit(t, r) == Kind[r] = "rwlock" /\ Initialized(t, r, Zero)

\* Attributes (also from pthread_getattr_np) and cleanup records.
AttrInit(t, a) == Kind[a] = "attr" /\ Initialized(t, a, Zero)
MutexattrInit(t, a) == Kind[a] = "mutexattr" /\ Initialized(t, a, Zero)
CondattrInit(t, a) == Kind[a] = "condattr" /\ Initialized(t, a, Zero)
CleanupPush(t, c) == Kind[c] = "cleanup" /\ Initialized(t, c, Zero)

\* The getters and setters of an attribute, and pthread_create with one,
\* assert that it is mapped.
Use(t, a, contents) ==
    /\ Idle(t) /\ a \in ready
    /\ IF is_mapped(a)
       THEN (\E g \in contents : page' = [page EXCEPT ![word[a]] = g]) /\ UNCHANGED aborted
       ELSE aborted' = TRUE /\ UNCHANGED page
    /\ UNCHANGED <<word, mapped, ready, sent, atomic>>

AttrUse(t, a) == Kind[a] = "attr" /\ Use(t, a, {[Zero EXCEPT !.count = v] : v \in 0 .. 1})
MutexattrSettype(t, a) == Kind[a] = "mutexattr" /\ Use(t, a, {[Zero EXCEPT !.kind = k] : k \in MutexKinds})
CondattrSetclock(t, a) == Kind[a] = "condattr" /\ Use(t, a, {[Zero EXCEPT !.clock = c] : c \in Clocks})

CleanupPop(t, c) ==
    /\ Idle(t) /\ c \in ready /\ Kind[c] = "cleanup"
    /\ IF is_mapped(c) THEN Unmap(c) /\ ready' = ready \ {c} /\ UNCHANGED aborted
       ELSE aborted' = TRUE /\ UNCHANGED <<mapped, page, ready>>
    /\ UNCHANGED <<word, sent, atomic>>

\* The application stores the static initializer again.
AssignStatic(t, o) ==
    /\ Idle(t) /\ o \in program \ ready /\ IsLazy(o)
    /\ word' = [word EXCEPT ![o] = Static]
    /\ ready' = ready \cup {o}
    /\ UNCHANGED <<mapped, page, sent, atomic, aborted>>

Next ==
    \/ Tick
    \/ \E t \in Threads :
         \/ Check(t) \/ Match(t) \/ Map(t) \/ Copy(t)
         \/ Lock(t) \/ Busy(t) \/ RdLock(t) \/ WrLock(t) \/ SemPost(t) \/ SemWait(t) \/ SemNone(t)
         \/ Sleep(t) \/ CondSignal(t) \/ CondBroadcast(t) \/ Timeout(t) \/ Rewake(t)
         \/ \E o \in program :
              \/ \E c \in Calls : Call(t, o, c)
              \/ \E m \in program : CondWait(t, o, m)
              \/ MutexUnlock(t, o) \/ RwlockUnlock(t, o) \/ AssignStatic(t, o)
              \/ SemDestroy(t, o) \/ RwlockDestroy(t, o) \/ MutexDestroy(t, o) \/ CondDestroy(t, o)
              \/ AttrDestroy(t, o) \/ MutexattrDestroy(t, o) \/ CondattrDestroy(t, o)
              \/ MutexInit(t, o) \/ CondInit(t, o) \/ SemInit(t, o) \/ RwlockInit(t, o)
              \/ AttrInit(t, o) \/ MutexattrInit(t, o) \/ CondattrInit(t, o)
              \/ AttrUse(t, o) \/ MutexattrSettype(t, o) \/ CondattrSetclock(t, o)
              \/ CleanupPush(t, o) \/ CleanupPop(t, o)

Spec == Init /\ [][Next]_vars

(***************************************************************************)
(* Properties.                                                             *)
(***************************************************************************)
\* Mutexes and rwlocks of the application exclude, also around a condition
\* wait: the glibc object they stand for does not change, and is not
\* reinitialized, between lock and unlock.
MutualExclusion ==
    \A h, k \in held : h[2] = k[2] /\ h[1] # k[1] => h[3] = "r" /\ k[3] = "r"

\* Live objects have pages of their own and no page outlives its object, also
\* when mmap hands out again a page a destroyed object still points to.
PagesOwned ==
    LET Owned == {o \in ready : word[o] # Static}
    IN /\ mapped = {word[o] : o \in Owned}
       /\ \A o, q \in Owned : word[o] = word[q] => o = q

\* Once past its first use, a mutex has the kind it was declared with, by its
\* initializer or by the attribute it was initialized with.
KindKept ==
    \A m \in ready :
        IsMutex(m) /\ is_mapped(m) /\ ~(\E t \in Threads : obj[t] = m /\ pc[t] = "copy")
        => page[word[m]].kind = Kind[m]

\* No wake-up is lost to another page: a thread that sleeps in
\* pthread_cond_wait sleeps at the page later signals go to, and the value of
\* a semaphore counts every post and every wait since it was initialized,
\* whichever of them came first and mapped it.
NothingLost ==
    /\ \A t \in Threads : pc[t] = "waiting" => wait[t].at = word[obj[t]] /\ wait[t].at \in mapped
    /\ \A s \in Of("sem") \cap ready : sent[s] = IF is_mapped(s) THEN page[word[s]].count ELSE 0

\* The deadline that bionic_pthread_cond_timedwait_relative_np computes is a
\* valid timespec for every valid time and clock reading, and a wait that
\* reports a timeout has lasted as long as it was asked to; glibc refuses no
\* timed wait of the wrapper.
TimeoutNotEarly ==
    \A t \in Threads : /\ pc[t] # "einval"
                       /\ wait[t].out => now >= wait[t].due

\* The assertion "no such default initializer???" of
\* default_pthread_mutex_init never fails.
InitializerKnown == ~aborted
=============================================================================
