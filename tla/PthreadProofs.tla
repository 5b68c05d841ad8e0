---------------------------- MODULE PthreadProofs ----------------------------
(***************************************************************************)
(* Pthread for any threads, objects, pages and clocks, as long as no two   *)
(* threads are in the first use of an object at once: type correctness,    *)
(* ownership of the pages, the kinds of mutexes, mutual exclusion, no lost *)
(* wake-ups, no early timeouts, and no failed assertion.                   *)
(***************************************************************************)
EXTENDS Pthread, FiniteSetTheorems, TLAPS

-----------------------------------------------------------------------------
(* The inductive invariant.                                                *)

FirstUse == {"match", "map", "copy"}
Asleep == {"waiting", "woken"}

\* Where a thread is in a call says whether its object has a page.
CallsOK ==
    \A t \in Threads :
        /\ pc[t] = "out" <=> obj[t] = None
        /\ pc[t] = "out" <=> op[t] = "none"
        /\ pc[t] # "out" => obj[t] \in ready /\ IsLazy(obj[t])
        /\ pc[t] = "match" => IsMutex(obj[t])
        /\ pc[t] \in {"match", "map"} => word[obj[t]] = Static
        /\ pc[t] = "copy" => is_mapped(obj[t]) /\ page[word[obj[t]]] = Zero
        /\ pc[t] \in {"call", "waiting", "woken"} => is_mapped(obj[t])
        /\ pc[t] \in Asleep => op[t] = "cond_wait"
        /\ pc[t] = "waiting" => wait[t].at = word[obj[t]]
        /\ pc[t] # "einval"

\* A call is on an object of its kind.
OpsOK ==
    \A t \in Threads :
        /\ op[t] \in {"mutex_lock", "mutex_trylock"} => IsMutex(obj[t])
        /\ op[t] \in {"rdlock", "wrlock"} => Kind[obj[t]] = "rwlock" /\ HeldBy(t) = {}
        /\ op[t] \in {"sem_post", "sem_trywait", "sem_wait"} => Kind[obj[t]] = "sem"
        /\ op[t] \in {"cond_signal", "cond_broadcast", "cond_wait"} => Kind[obj[t]] = "cond"

\* A thread in the first use of an object is the only one in a call on it.
Alone ==
    \A t, u \in Threads :
        /\ pc[t] # "out" /\ obj[t] = obj[u]
        /\ pc[t] \in FirstUse \/ ~is_mapped(obj[t])
        => t = u

\* What is held, or will be taken again after a wait, is past its first use.
Settled(o) == o \in ready /\ is_mapped(o) /\ \A t \in Threads : ~(obj[t] = o /\ pc[t] \in FirstUse)

HeldOK ==
    \A h \in held : /\ Settled(h[2])
                    /\ Kind[h[2]] = "rwlock" \/ (IsMutex(h[2]) /\ h[3] = "x")

WaitsOK ==
    \A t \in Threads :
        /\ op[t] = "cond_wait" <=> wait[t].mutex # None
        /\ wait[t].mutex # None => IsMutex(wait[t].mutex) /\ Settled(wait[t].mutex)
        /\ wait[t].mutex # None /\ pc[t] \notin Asleep => <<t, wait[t].mutex, "x">> \in held

\* The deadline of a wait is a timespec, and that of a relative wait is as
\* far away on the wall clock as it was asked to be.
DeadlinesOK ==
    \A t \in Threads :
        /\ wait[t].deadline[2] < BILLION
        /\ wait[t].due > 0 => wait[t].due + Epoch <= Ticks(wait[t].deadline)
        /\ wait[t].out => now >= wait[t].due

\* Live objects and mapped pages.
PagesOK ==
    /\ \A o \in ready : word[o] = Static \/ is_mapped(o)
    /\ \A o \in ready : ~IsLazy(o) => is_mapped(o)
    /\ \A p \in mapped : \E o \in ready : word[o] = p
    /\ \A o, q \in ready : word[o] = word[q] /\ word[o] # Static => o = q

\* A glibc lock agrees with who holds it.
Readers(o) == {t \in Threads : <<t, o, "r">> \in held}

LocksOK ==
    \A o \in ready : is_mapped(o) =>
        LET g == page[word[o]]
        IN  /\ IsMutex(o) \/ Kind[o] = "rwlock" =>
                  \A t \in Threads : g.owner = t <=> <<t, o, "x">> \in held
            /\ IsMutex(o) => (g.owner = None <=> g.count = 0)
            /\ Kind[o] = "rwlock" =>
                  g.count = Cardinality(Readers(o)) /\ (g.owner # None => g.count = 0)

\* A semaphore counts; one that is not initialized has no history.
SemsOK ==
    \A s \in program : Kind[s] = "sem" =>
        sent[s] = IF s \in ready /\ is_mapped(s) THEN page[word[s]].count ELSE 0

IInv ==
    /\ ~RacyFirstUse /\ ~aborted /\ TypeOK
    /\ CallsOK /\ OpsOK /\ Alone /\ HeldOK /\ WaitsOK /\ DeadlinesOK
    /\ PagesOK /\ LocksOK /\ KindKept /\ SemsOK

-----------------------------------------------------------------------------
\* What the type invariant says of the domains.
LEMMA Types ==
    ASSUME TypeOK
    PROVE  /\ program \subseteq Objects /\ ready \subseteq program
           /\ word \in [Objects -> {Static} \cup Pages] /\ mapped \subseteq Pages
           /\ page \in [Pages -> Glibc]
           /\ DOMAIN pc = Threads /\ DOMAIN obj = Threads /\ DOMAIN op = Threads /\ DOMAIN wait = Threads
           /\ DOMAIN sent = Objects
           /\ None \notin Objects /\ None \notin Threads /\ Static \notin Pages
           /\ \A h \in held : h[1] \in Threads /\ h[2] \in Objects /\ h = <<h[1], h[2], h[3]>>
  BY PthreadAssumption DEF TypeOK

\* Steps that only move threads keep what is said of objects and pages.
LEMMA ObjectsKept ==
    ASSUME IInv, UNCHANGED <<word, mapped, page, ready, program, held, sent>>
    PROVE  PagesOK' /\ LocksOK' /\ SemsOK'
<1>1. \A o \in Objects : Readers(o)' = Readers(o)
  BY DEF Readers
<1>2. LocksOK'
  BY <1>1, Types DEF IInv, LocksOK, is_mapped
<1>3. QED
  BY <1>2 DEF IInv, PagesOK, SemsOK, is_mapped

\* A call begins.
LEMMA CallStep ==
    ASSUME IInv, NEW t \in Threads, NEW o \in program, NEW c \in Calls, Call(t, o, c)
    PROVE  IInv'
<1> USE DEF IInv
<1>1. /\ \A u \in Threads : /\ pc'[u] = IF u = t THEN "check" ELSE pc[u]
                            /\ obj'[u] = IF u = t THEN o ELSE obj[u]
                            /\ op'[u] = IF u = t THEN c ELSE op[u]
      /\ UNCHANGED <<word, mapped, page, wait, now, ready, program, held, sent, aborted>>
  BY Types DEF Call, Enter, Goto, objVars, histVars
<1>2. /\ pc[t] = "out" /\ o \in ready /\ o # None /\ o \in Objects
      /\ ~InFirstUse(o) /\ May(t, o, c)
  BY Types DEF Call, Enter, Idle
<1>3. TypeOK'
  BY PthreadAssumption, <1>2 DEF TypeOK, Call, Enter, Goto, objVars, histVars
<1>4. CallsOK'
  BY <1>1, <1>2, Types DEF CallsOK, is_mapped, May, IsMutex, IsLazy, LazyKinds, Asleep, Calls
<1>5. OpsOK'
  BY <1>1, <1>2 DEF OpsOK, May, HeldBy
<1>6. Alone'
  BY <1>1, <1>2, Types DEF Alone, InFirstUse, is_mapped, FirstUse, CallsOK
<1>7. HeldOK'
  BY <1>1, <1>2 DEF HeldOK, Settled, is_mapped, FirstUse
<1>8. WaitsOK'
  BY <1>1, <1>2 DEF WaitsOK, Settled, is_mapped, FirstUse, Asleep, Calls, CallsOK
<1>9. DeadlinesOK'
  BY <1>1 DEF DeadlinesOK
<1>10. PagesOK' /\ LocksOK' /\ SemsOK'
  BY <1>1, ObjectsKept
<1>11. KindKept'
  BY <1>1, <1>2 DEF KindKept, is_mapped
<1>12. QED
  BY <1>1, <1>3, <1>4, <1>5, <1>6, <1>7, <1>8, <1>9, <1>10, <1>11

\* INIT_IF_NOT_MAPPED tests.
LEMMA CheckStep ==
    ASSUME IInv, NEW t \in Threads, Check(t)
    PROVE  IInv'
<1> USE DEF IInv
<1> DEFINE to == IF is_mapped(obj[t]) THEN "call" ELSE IF IsMutex(obj[t]) THEN "match" ELSE "map"
<1>1. /\ \A u \in Threads : pc'[u] = IF u = t THEN to ELSE pc[u]
      /\ pc[t] = "check"
      /\ UNCHANGED <<word, mapped, page, obj, op, wait, now, ready, program, held, sent, aborted>>
  BY Types DEF Check, Goto, objVars, inCall
<1>2. TypeOK'
  BY PthreadAssumption DEF TypeOK, Check, Goto, objVars, inCall
<1>3. CallsOK'
  BY <1>1, Types DEF CallsOK, is_mapped, Asleep, PagesOK
<1>4. OpsOK'
  BY <1>1 DEF OpsOK, HeldBy
<1>5. Alone'
  BY <1>1 DEF Alone, is_mapped, FirstUse, CallsOK
<1>6. HeldOK'
  BY <1>1 DEF HeldOK, Settled, is_mapped, FirstUse
<1>7. WaitsOK'
  BY <1>1 DEF WaitsOK, Settled, is_mapped, FirstUse, Asleep
<1>8. DeadlinesOK'
  BY <1>1 DEF DeadlinesOK
<1>9. PagesOK' /\ LocksOK' /\ SemsOK'
  BY <1>1, ObjectsKept
<1>10. KindKept'
  BY <1>1 DEF KindKept, is_mapped
<1>11. QED
  BY <1>1, <1>2, <1>3, <1>4, <1>5, <1>6, <1>7, <1>8, <1>9, <1>10

\* The initializer is one of the known ones: the assertion does not fail.
LEMMA MatchStep ==
    ASSUME IInv, NEW t \in Threads, Match(t)
    PROVE  IInv'
<1> USE DEF IInv
<1>0. pc[t] = "match" /\ word[obj[t]] = Static
  BY DEF Match, CallsOK
<1>1. /\ \A u \in Threads : pc'[u] = IF u = t THEN "map" ELSE pc[u]
      /\ UNCHANGED <<word, mapped, page, obj, op, wait, now, ready, program, held, sent, aborted>>
  BY <1>0, Types DEF Match, Goto, objVars, inCall
<1>2. TypeOK'
  BY <1>0, PthreadAssumption DEF TypeOK, Match, Goto, objVars, inCall
<1>3. CallsOK'
  BY <1>0, <1>1 DEF CallsOK, is_mapped, Asleep
<1>4. OpsOK'
  BY <1>1 DEF OpsOK, HeldBy
<1>5. Alone'
  BY <1>0, <1>1 DEF Alone, is_mapped, FirstUse
<1>6. HeldOK'
  BY <1>0, <1>1 DEF HeldOK, Settled, is_mapped, FirstUse
<1>7. WaitsOK'
  BY <1>0, <1>1 DEF WaitsOK, Settled, is_mapped, FirstUse, Asleep
<1>8. DeadlinesOK'
  BY <1>1 DEF DeadlinesOK
<1>9. PagesOK' /\ LocksOK' /\ SemsOK'
  BY <1>1, ObjectsKept
<1>10. KindKept'
  BY <1>0, <1>1 DEF KindKept, is_mapped
<1>11. QED
  BY <1>1, <1>2, <1>3, <1>4, <1>5, <1>6, <1>7, <1>8, <1>9, <1>10

\* mmap: the object gets a page nobody has.
LEMMA MapStep ==
    ASSUME IInv, NEW t \in Threads, Map(t)
    PROVE  IInv'
<1> USE DEF IInv
<1>0. PICK o \in Objects : o = obj[t] /\ pc[t] = "map" /\ o \in ready /\ word[o] = Static
  BY Types DEF Map, CallsOK
<1>1. PICK p \in Pages \ mapped : /\ mapped' = mapped \cup {p}
                                  /\ page' = [page EXCEPT ![p] = Zero]
                                  /\ word' = [word EXCEPT ![o] = p]
  BY <1>0 DEF Map, MapAt
<1>2. /\ \A u \in Threads : pc'[u] = IF u = t THEN "copy" ELSE pc[u]
      /\ \A q \in Objects : word'[q] = IF q = o THEN p ELSE word[q]
      /\ \A q \in Pages : page'[q] = IF q = p THEN Zero ELSE page[q]
      /\ mapped' = mapped \cup {p} /\ p \notin mapped /\ p # Static
      /\ UNCHANGED <<obj, op, wait, now, ready, program, held, sent, aborted>>
  BY <1>0, <1>1, Types DEF Map, Goto, inCall
<1>3. TypeOK'
  <2>1. Zero \in Glibc
    BY PthreadAssumption DEF Zero, Initializer, Glibc, MutexKinds, Clocks
  <2>2. QED
    BY <1>0, <1>1, <2>1 DEF TypeOK, Map, Goto, inCall
<1>4. /\ \A u \in Threads : obj[u] = o => u = t
      /\ \A u \in Threads : wait[u].mutex # o
      /\ \A h \in held : h[2] # o
  BY <1>0, Types DEF Alone, FirstUse, WaitsOK, HeldOK, Settled, is_mapped
<1>5. \A q \in ready : q # o => (q \in Objects /\ word[q] # p
                                 /\ (word[q] \in mapped' <=> word[q] \in mapped)
                                 /\ (word[q] \in mapped => page'[word[q]] = page[word[q]]))
  BY <1>2, Types DEF PagesOK, is_mapped
<1>6. \A u \in Threads : pc[u] # "out" => obj[u] \in ready
  BY DEF CallsOK
<1>7. CallsOK'
  BY <1>0, <1>2, <1>4, <1>5, <1>6 DEF CallsOK, is_mapped, Asleep
<1>8. OpsOK'
  BY <1>2 DEF OpsOK, HeldBy
<1>9. Alone'
  BY <1>0, <1>2, <1>4, <1>5, <1>6 DEF Alone, is_mapped, FirstUse
<1>10. HeldOK'
  BY <1>0, <1>2, <1>4, <1>5 DEF HeldOK, Settled, is_mapped, FirstUse
<1>11. WaitsOK'
  BY <1>0, <1>2, <1>4, <1>5 DEF WaitsOK, Settled, is_mapped, FirstUse, Asleep
<1>12. DeadlinesOK'
  BY <1>2 DEF DeadlinesOK
<1>13. PagesOK'
  BY <1>0, <1>2, <1>5, Types DEF PagesOK, is_mapped
<1>14. LocksOK'
  <2>1. Readers(o) = {} /\ Readers(o)' = {} /\ Cardinality({}) = 0
    BY <1>2, <1>4, FS_EmptySet DEF Readers
  <2>2. \A q \in ready : Readers(q)' = Readers(q)
    BY <1>2 DEF Readers
  <2>3. Zero.owner = None /\ Zero.count = 0 /\ None \notin Threads
    BY PthreadAssumption DEF Zero, Initializer
  <2>4. \A u \in Threads : <<u, o, "x">> \notin held
    BY <1>4
  <2>5. QED
    BY <1>0, <1>2, <1>5, <2>1, <2>2, <2>3, <2>4 DEF LocksOK, is_mapped
<1>15. KindKept'
  BY <1>0, <1>2, <1>4, <1>5 DEF KindKept, is_mapped
<1>16. SemsOK'
  <2>1. Zero.count = 0
    BY DEF Zero, Initializer
  <2>2. QED
    BY <1>0, <1>2, <1>5, <2>1, Types DEF SemsOK, is_mapped
<1>17. QED
  BY <1>2, <1>3, <1>7, <1>8, <1>9, <1>10, <1>11, <1>12, <1>13, <1>14, <1>15, <1>16

\* A store into the page of an object is seen by no other object.
LEMMA WriteOthers ==
    ASSUME IInv, NEW o \in ready, is_mapped(o), NEW g,
           page' = [page EXCEPT ![word[o]] = g], UNCHANGED <<word, mapped, ready>>
    PROVE  /\ page'[word[o]] = g
           /\ \A q \in ready : q # o /\ word[q] \in mapped => page'[word[q]] = page[word[q]]
  BY Types DEF IInv, PagesOK, is_mapped

\* There are finitely many readers.
LEMMA ReadersFinite ==
    \A o : IsFiniteSet(Readers(o)) /\ Cardinality(Readers(o)) \in Nat
<1> SUFFICES ASSUME NEW o PROVE IsFiniteSet(Readers(o))
  BY FS_CardinalityType
<1>1. Readers(o) \in SUBSET Threads /\ IsFiniteSet(Threads)
  BY PthreadAssumption DEF Readers
<1>2. QED
  BY <1>1, FS_Subset

\* The fields of an object after it was zeroed or filled in.
LEMMA FilledFields ==
    ASSUME NEW o \in Objects, IsLazy(o)
    PROVE  /\ Filled(o) \in Glibc /\ Filled(o).owner = None /\ Filled(o).count = 0
           /\ IsMutex(o) => Filled(o).kind = Kind[o]
           /\ Zero \in Glibc /\ Zero.owner = None /\ Zero.count = 0
  BY PthreadAssumption DEF Filled, Zero, Initializer, IsMutex, Glibc, MutexKinds, Clocks

\* The page is filled in.
LEMMA CopyStep ==
    ASSUME IInv, NEW t \in Threads, Copy(t)
    PROVE  IInv'
<1> USE DEF IInv
<1>0. PICK o \in Objects : /\ o = obj[t] /\ pc[t] = "copy" /\ o \in ready /\ is_mapped(o)
                           /\ IsLazy(o) /\ page[word[o]] = Zero
  BY Types DEF Copy, CallsOK
<1>1. /\ \A u \in Threads : pc'[u] = IF u = t THEN "call" ELSE pc[u]
      /\ page' = [page EXCEPT ![word[o]] = Filled(o)]
      /\ UNCHANGED <<word, mapped, obj, op, wait, now, ready, program, held, sent, aborted>>
  BY <1>0, Types DEF Copy, Goto, inCall
<1>2. /\ page'[word[o]] = Filled(o)
      /\ \A q \in ready : q # o /\ word[q] \in mapped => page'[word[q]] = page[word[q]]
  BY <1>0, <1>1, WriteOthers
<1>3. TypeOK'
  <2>1. page' \in [Pages -> Glibc]
    BY <1>0, <1>1, FilledFields, Types DEF is_mapped
  <2>2. QED
    BY <1>0, <1>1, <2>1 DEF TypeOK, Copy, Goto, inCall
<1>4. /\ \A u \in Threads : obj[u] = o => u = t
      /\ \A u \in Threads : wait[u].mutex # o
      /\ \A h \in held : h[2] # o
  <2>1. ~Settled(o) /\ o # None
    BY <1>0, Types DEF Settled, FirstUse
  <2>2. \A u \in Threads : obj[u] = o => u = t
    BY <1>0 DEF Alone, FirstUse
  <2>3. \A u \in Threads : wait[u].mutex # o
    BY <2>1 DEF WaitsOK
  <2>4. \A h \in held : h[2] # o
    BY <2>1 DEF HeldOK
  <2>5. QED
    BY <2>2, <2>3, <2>4
<1>5. CallsOK'
  BY <1>0, <1>1, <1>2, <1>4 DEF CallsOK, is_mapped, Asleep
<1>6. OpsOK'
  BY <1>1 DEF OpsOK, HeldBy
<1>7. Alone'
  BY <1>0, <1>1, <1>4 DEF Alone, is_mapped, FirstUse
<1>8. HeldOK'
  BY <1>0, <1>1, <1>4 DEF HeldOK, Settled, is_mapped, FirstUse
<1>9. WaitsOK'
  BY <1>0, <1>1, <1>4 DEF WaitsOK, Settled, is_mapped, FirstUse, Asleep
<1>10. DeadlinesOK'
  BY <1>1 DEF DeadlinesOK
<1>11. PagesOK'
  BY <1>1 DEF PagesOK, is_mapped
<1>12. LocksOK'
  <2>1. \A q \in Objects : Readers(q)' = Readers(q)
    BY <1>1 DEF Readers
  <2>2. QED
    BY <1>0, <1>1, <1>2, <2>1, FilledFields, Types DEF LocksOK, is_mapped
<1>13. KindKept'
  BY <1>0, <1>1, <1>2, <1>4, FilledFields DEF KindKept, is_mapped
<1>14. SemsOK'
  BY <1>0, <1>1, <1>2, FilledFields, Types DEF SemsOK, is_mapped
<1>15. QED
  BY <1>1, <1>3, <1>5, <1>6, <1>7, <1>8, <1>9, <1>10, <1>11, <1>12, <1>13, <1>14

\* A glibc call on object o that returns at once, with g in its page.
Returned(t, o, g) ==
    /\ o = obj[t] /\ pc[t] = "call" /\ o \in ready /\ is_mapped(o)
    /\ g \in Glibc /\ g.kind = page[word[o]].kind
    /\ page' = [page EXCEPT ![word[o]] = g]
    /\ Return(t)

\* Such a call keeps everything but what is said of locks and semaphores.
LEMMA ReturnedStep ==
    ASSUME IInv, NEW t \in Threads, NEW o \in Objects, NEW g, Returned(t, o, g), op[t] # "cond_wait",
           held \subseteq held', held' \subseteq held \cup {<<t, o, "x">>, <<t, o, "r">>},
           <<t, o, "x">> \in held' \ held => IsMutex(o) \/ Kind[o] = "rwlock",
           <<t, o, "r">> \in held' \ held => Kind[o] = "rwlock",
           sent' \in [Objects -> Nat]
    PROVE  /\ TypeOK' /\ CallsOK' /\ OpsOK' /\ Alone' /\ HeldOK' /\ WaitsOK' /\ DeadlinesOK'
           /\ PagesOK' /\ KindKept' /\ ~aborted'
           /\ page'[word[o]] = g
           /\ \A q \in ready : q # o /\ word[q] \in mapped => page'[word[q]] = page[word[q]]
           /\ UNCHANGED <<word, mapped, wait, now, ready, program, aborted>>
<1> USE DEF IInv
<1>1. /\ \A u \in Threads : /\ pc'[u] = IF u = t THEN "out" ELSE pc[u]
                            /\ obj'[u] = IF u = t THEN None ELSE obj[u]
                            /\ op'[u] = IF u = t THEN "none" ELSE op[u]
      /\ UNCHANGED <<word, mapped, wait, now, ready, program, aborted>>
  BY Types DEF Returned, Return, Goto
<1>2. /\ page'[word[o]] = g
      /\ \A q \in ready : q # o /\ word[q] \in mapped => page'[word[q]] = page[word[q]]
  BY <1>1, WriteOthers DEF Returned
<1>3. TypeOK'
  <2>1. held' \subseteq Threads \X program \X {"x", "r"}
    BY Types DEF TypeOK, Returned
  <2>2. page' \in [Pages -> Glibc]
    BY Types DEF Returned
  <2>3. QED
    BY <2>1, <2>2, <1>1 DEF TypeOK, Returned, Return, Goto
<1>4. \A u \in Threads : obj[u] = o => pc[u] \notin FirstUse
  BY DEF Returned, Alone, FirstUse
<1>5. CallsOK'
  BY <1>1, <1>2, <1>4 DEF CallsOK, is_mapped, Asleep, Returned, FirstUse
<1>6. OpsOK'
  <2>1. \A u \in Threads : u # t => HeldBy(u)' = HeldBy(u)
    BY DEF HeldBy
  <2>2. QED
    BY <1>1, <2>1 DEF OpsOK
<1>7. Alone'
  BY <1>1, Types DEF Alone, is_mapped, FirstUse, CallsOK
<1>8. HeldOK'
  <2>1. \A q \in Objects : Settled(q) => Settled(q)'
    BY <1>1 DEF Settled, is_mapped, FirstUse
  <2>2. Settled(o)
    BY <1>4 DEF Settled, Returned
  <2>3. QED
    BY <2>1, <2>2, Types DEF HeldOK
<1>9. WaitsOK'
  BY <1>1, Types DEF WaitsOK, Settled, is_mapped, FirstUse, Asleep
<1>10. DeadlinesOK'
  BY <1>1 DEF DeadlinesOK
<1>11. PagesOK'
  BY <1>1 DEF PagesOK, is_mapped
<1>12. KindKept'
  BY <1>1, <1>2, Types DEF KindKept, is_mapped, Returned
<1>13. QED
  BY <1>1, <1>2, <1>3, <1>5, <1>6, <1>7, <1>8, <1>9, <1>10, <1>11, <1>12


\* A glibc object with another owner and another count.
LEMMA TwoFields ==
    ASSUME NEW g \in Glibc, NEW a \in Threads \cup {None}, NEW n \in Nat
    PROVE  LET r == OwnedBy(g, a, n)
           IN  r \in Glibc /\ r.owner = a /\ r.count = n /\ r.kind = g.kind
<1> DEFINE r == OwnedBy(g, a, n)
<1>1. PICK h : h = [g EXCEPT !.owner = a]
  OBVIOUS
<1>2. r = [h EXCEPT !.count = n]
  BY <1>1, Zenon DEF OwnedBy
<1> HIDE DEF r
<1>3. h \in Glibc /\ h.owner = a /\ h.kind = g.kind
  BY ONLY g \in Glibc, a \in Threads \cup {None}, <1>1 DEF Glibc
<1>4. r \in Glibc /\ r.owner = a /\ r.count = n /\ r.kind = g.kind
  BY ONLY <1>2, <1>3, n \in Nat DEF Glibc
<1>5. QED
  BY <1>4 DEF r

\* The object of a thread in a glibc call.
LEMMA AtCall ==
    ASSUME IInv, NEW t \in Threads, pc[t] = "call"
    PROVE  \E o \in Objects : /\ o = obj[t] /\ o \in ready /\ is_mapped(o) /\ IsLazy(o) /\ Target(t) = page[word[o]]
                              /\ page[word[o]] \in Glibc
  BY Types DEF IInv, CallsOK, Target, is_mapped

\* A lock or unlock of o that leaves the others alone.
LEMMA OtherLocks ==
    ASSUME IInv, NEW o \in ready, UNCHANGED <<word, mapped, ready>>,
           \A q \in ready : q # o /\ word[q] \in mapped => page'[word[q]] = page[word[q]],
           \A u \in Threads, q \in ready, m \in {"x", "r"} : q # o => (<<u, q, m>> \in held' <=> <<u, q, m>> \in held),
           LET g == page'[word[o]]
           IN  /\ IsMutex(o) \/ Kind[o] = "rwlock" =>
                     \A u \in Threads : g.owner = u <=> <<u, o, "x">> \in held'
               /\ IsMutex(o) => (g.owner = None <=> g.count = 0)
               /\ Kind[o] = "rwlock" =>
                     g.count = Cardinality(Readers(o)') /\ (g.owner # None => g.count = 0)
    PROVE  LocksOK'
<1>1. \A q \in ready : q # o => Readers(q)' = Readers(q)
  BY DEF Readers
<1>2. \A q \in ready : q # o /\ word[q] \in mapped =>
        LET g == page[word[q]]
        IN  /\ IsMutex(q) \/ Kind[q] = "rwlock" =>
                  \A t \in Threads : g.owner = t <=> <<t, q, "x">> \in held'
            /\ IsMutex(q) => (g.owner = None <=> g.count = 0)
            /\ Kind[q] = "rwlock" =>
                  g.count = Cardinality(Readers(q)') /\ (g.owner # None => g.count = 0)
  BY <1>1 DEF IInv, LocksOK, is_mapped
<1>3. QED
  BY <1>2 DEF LocksOK, is_mapped

\* Of the semaphores, only o has changed.
LEMMA OtherSems ==
    ASSUME IInv, NEW o \in ready, UNCHANGED <<word, mapped, ready, program>>, is_mapped(o),
           \A q \in ready : q # o /\ word[q] \in mapped => page'[word[q]] = page[word[q]],
           \A q \in program : q # o => sent'[q] = sent[q],
           Kind[o] = "sem" => sent'[o] = page'[word[o]].count
    PROVE  SemsOK'
  BY DEF IInv, SemsOK, is_mapped

\* A mutex is nothing else.
LEMMA MutexNoSem ==
    ASSUME NEW o, IsMutex(o)
    PROVE  Kind[o] # "rwlock" /\ Kind[o] # "sem" /\ Kind[o] # "cond"
  BY DEF IsMutex, MutexKinds

\* pthread_mutex_lock and trylock take the mutex.
LEMMA LockStep ==
    ASSUME IInv, NEW t \in Threads, Lock(t)
    PROVE  IInv'
<1> USE DEF IInv
<1>0. PICK o \in Objects : /\ o = obj[t] /\ o \in ready /\ is_mapped(o) /\ Target(t) = page[word[o]]
                           /\ page[word[o]] \in Glibc
  BY AtCall DEF Lock, At
<1>1. IsMutex(o) /\ op[t] # "cond_wait" /\ pc[t] = "call"
  BY <1>0 DEF Lock, At, OpsOK
<1>2. PICK g : g = OwnedBy(Target(t), t, Target(t).count + 1) /\ Put(t, g)
  BY DEF Lock
<1>3. g \in Glibc /\ g.kind = page[word[o]].kind /\ g.owner = t /\ g.count # 0 /\ g.count \in Nat
  <2>1. Target(t) \in Glibc /\ t \in Threads \cup {None} /\ Target(t).count + 1 \in Nat
    BY <1>0 DEF Glibc
  <2>2. g \in Glibc /\ g.owner = t /\ g.count = Target(t).count + 1 /\ g.kind = Target(t).kind
    BY <1>2, <2>1, TwoFields
  <2>3. QED
    BY <1>0, <2>2 DEF Glibc
<1>4. held' = held \cup {<<t, o, "x">>} /\ sent' = sent
  BY <1>0 DEF Lock, Locked
<1>5. Returned(t, o, g)
  BY <1>0, <1>1, <1>2, <1>3 DEF Returned, Lock, Put
<1>6. /\ TypeOK' /\ CallsOK' /\ OpsOK' /\ Alone' /\ HeldOK' /\ WaitsOK' /\ DeadlinesOK'
      /\ PagesOK' /\ KindKept' /\ ~aborted'
      /\ page'[word[o]] = g
      /\ \A q \in ready : q # o /\ word[q] \in mapped => page'[word[q]] = page[word[q]]
      /\ UNCHANGED <<word, mapped, wait, now, ready, program, aborted>>
  <2>1. sent' \in [Objects -> Nat]
    BY <1>4 DEF TypeOK
  <2>2. QED
    BY <1>1, <1>4, <1>5, <2>1, ReturnedStep
<1>7. LocksOK'
  <2>1. page[word[o]].owner = None \/ page[word[o]].owner = t
    BY <1>0 DEF Lock, Available
  <2>2. \A u \in Threads : page[word[o]].owner = u <=> <<u, o, "x">> \in held
    BY <1>0, <1>1 DEF LocksOK
  <2>3. \A u \in Threads : g.owner = u <=> <<u, o, "x">> \in held'
    BY <1>3, <1>4, <2>1, <2>2, Types
  <2>4. g.owner = None <=> g.count = 0
    BY <1>3, Types
  <2>5. QED
    BY <1>0, <1>1, <1>4, <1>6, <2>3, <2>4, OtherLocks, MutexNoSem
<1>8. SemsOK'
  BY <1>0, <1>1, <1>4, <1>6, OtherSems, MutexNoSem
<1>9. QED
  BY <1>6, <1>7, <1>8

\* A call that changes nothing: EBUSY, EAGAIN.
LEMMA NothingStep ==
    ASSUME IInv, NEW t \in Threads, Busy(t) \/ SemNone(t)
    PROVE  IInv'
<1> USE DEF IInv
<1>0. PICK o \in Objects : /\ o = obj[t] /\ o \in ready /\ is_mapped(o) /\ Target(t) = page[word[o]]
                           /\ page[word[o]] \in Glibc
  BY AtCall DEF Busy, SemNone, At
<1>1. /\ op[t] # "cond_wait" /\ pc[t] = "call" /\ Return(t)
      /\ UNCHANGED <<page, held, sent>>
  BY DEF Busy, SemNone, At, Nothing
<1>2. page' = [page EXCEPT ![word[o]] = page[word[o]]]
  BY <1>0, <1>1, Types DEF is_mapped
<1>3. Returned(t, o, page[word[o]])
  BY <1>0, <1>1, <1>2 DEF Returned
<1>4. sent' \in [Objects -> Nat]
  BY <1>1 DEF TypeOK
<1>5. /\ TypeOK' /\ CallsOK' /\ OpsOK' /\ Alone' /\ HeldOK' /\ WaitsOK' /\ DeadlinesOK'
      /\ PagesOK' /\ KindKept' /\ ~aborted'
      /\ UNCHANGED <<word, mapped, wait, now, ready, program, aborted>>
  BY <1>1, <1>3, <1>4, ReturnedStep
<1>6. QED
  BY <1>1, <1>5, ObjectsKept

\* A reader takes the rwlock.
LEMMA RdLockStep ==
    ASSUME IInv, NEW t \in Threads, RdLock(t)
    PROVE  IInv'
<1> USE DEF IInv
<1>0. PICK o \in Objects : /\ o = obj[t] /\ o \in ready /\ is_mapped(o) /\ Target(t) = page[word[o]]
                           /\ page[word[o]] \in Glibc
  BY AtCall DEF RdLock, At
<1>1. /\ Kind[o] = "rwlock" /\ op[t] # "cond_wait" /\ pc[t] = "call" /\ HeldBy(t) = {}
  BY <1>0 DEF RdLock, At, OpsOK
<1>2. PICK g : g = [Target(t) EXCEPT !.count = @ + 1] /\ Put(t, g)
  BY DEF RdLock
<1>3. /\ g \in Glibc /\ g.kind = page[word[o]].kind
      /\ g.owner = None /\ page[word[o]].owner = None /\ g.count = page[word[o]].count + 1
  BY <1>0, <1>2 DEF Glibc, RdLock
<1>4. held' = held \cup {<<t, o, "r">>} /\ sent' = sent
  BY <1>0, Types DEF RdLock, Locked
<1>5. Returned(t, o, g)
  BY <1>0, <1>1, <1>2, <1>3 DEF Returned, RdLock, Put
<1>6. /\ TypeOK' /\ CallsOK' /\ OpsOK' /\ Alone' /\ HeldOK' /\ WaitsOK' /\ DeadlinesOK'
      /\ PagesOK' /\ KindKept' /\ ~aborted'
      /\ page'[word[o]] = g
      /\ \A q \in ready : q # o /\ word[q] \in mapped => page'[word[q]] = page[word[q]]
      /\ UNCHANGED <<word, mapped, wait, now, ready, program, aborted>>
  <2>1. sent' \in [Objects -> Nat]
    BY <1>4 DEF TypeOK
  <2>2. QED
    BY <1>1, <1>4, <1>5, <2>1, ReturnedStep
<1>7. LocksOK'
  <2>1. \A u \in Threads : g.owner = u <=> <<u, o, "x">> \in held'
    BY <1>0, <1>1, <1>3, <1>4 DEF LocksOK
  <2>2. t \notin Readers(o) /\ Readers(o)' = Readers(o) \cup {t}
    BY <1>1, <1>4 DEF Readers, HeldBy
  <2>3. Cardinality(Readers(o)') = Cardinality(Readers(o)) + 1
    BY <2>2, ReadersFinite, FS_AddElement
  <2>4. g.count = Cardinality(Readers(o)')
    BY <1>0, <1>1, <1>3, <2>3 DEF LocksOK
  <2>5. ~IsMutex(o)
    BY <1>1, MutexNoSem
  <2>6. QED
    BY <1>0, <1>1, <1>3, <1>4, <1>6, <2>1, <2>4, <2>5, OtherLocks
<1>8. SemsOK'
  BY <1>0, <1>1, <1>4, <1>6, OtherSems
<1>9. QED
  BY <1>6, <1>7, <1>8

\* A writer takes the rwlock.
LEMMA WrLockStep ==
    ASSUME IInv, NEW t \in Threads, WrLock(t)
    PROVE  IInv'
<1> USE DEF IInv
<1>0. PICK o \in Objects : /\ o = obj[t] /\ o \in ready /\ is_mapped(o) /\ Target(t) = page[word[o]]
                           /\ page[word[o]] \in Glibc
  BY AtCall DEF WrLock, At
<1>1. /\ Kind[o] = "rwlock" /\ op[t] # "cond_wait" /\ pc[t] = "call"
  BY <1>0 DEF WrLock, At, OpsOK
<1>2. PICK g : g = [Target(t) EXCEPT !.owner = t] /\ Put(t, g)
  BY DEF WrLock
<1>3. /\ g \in Glibc /\ g.kind = page[word[o]].kind
      /\ g.owner = t /\ page[word[o]].owner = None /\ g.count = 0 /\ page[word[o]].count = 0
  BY <1>0, <1>2 DEF Glibc, WrLock
<1>4. held' = held \cup {<<t, o, "x">>} /\ sent' = sent
  BY <1>0, Types DEF WrLock, Locked
<1>5. Returned(t, o, g)
  BY <1>0, <1>1, <1>2, <1>3 DEF Returned, WrLock, Put
<1>6. /\ TypeOK' /\ CallsOK' /\ OpsOK' /\ Alone' /\ HeldOK' /\ WaitsOK' /\ DeadlinesOK'
      /\ PagesOK' /\ KindKept' /\ ~aborted'
      /\ page'[word[o]] = g
      /\ \A q \in ready : q # o /\ word[q] \in mapped => page'[word[q]] = page[word[q]]
      /\ UNCHANGED <<word, mapped, wait, now, ready, program, aborted>>
  <2>1. sent' \in [Objects -> Nat]
    BY <1>4 DEF TypeOK
  <2>2. QED
    BY <1>1, <1>4, <1>5, <2>1, ReturnedStep
<1>7. LocksOK'
  <2>1. \A u \in Threads : <<u, o, "x">> \notin held
    BY <1>0, <1>1, <1>3, Types DEF LocksOK
  <2>2. \A u \in Threads : g.owner = u <=> <<u, o, "x">> \in held'
    BY <1>3, <1>4, <2>1
  <2>3. Readers(o)' = Readers(o)
    BY <1>4 DEF Readers
  <2>4. g.count = Cardinality(Readers(o)')
    BY <1>0, <1>1, <1>3, <2>3 DEF LocksOK
  <2>5. ~IsMutex(o)
    BY <1>1, MutexNoSem
  <2>6. QED
    BY <1>0, <1>1, <1>3, <1>4, <1>6, <2>2, <2>4, <2>5, OtherLocks
<1>8. SemsOK'
  BY <1>0, <1>1, <1>4, <1>6, OtherSems
<1>9. QED
  BY <1>6, <1>7, <1>8

\* sem_post counts up.
LEMMA SemPostStep ==
    ASSUME IInv, NEW t \in Threads, SemPost(t)
    PROVE  IInv'
<1> USE DEF IInv
<1>0. PICK o \in Objects : /\ o = obj[t] /\ o \in ready /\ is_mapped(o) /\ Target(t) = page[word[o]]
                           /\ page[word[o]] \in Glibc
  BY AtCall DEF SemPost, At
<1>1. /\ Kind[o] = "sem" /\ op[t] # "cond_wait" /\ pc[t] = "call"
  BY <1>0 DEF SemPost, At, OpsOK
<1>2. PICK g : g = [Target(t) EXCEPT !.count = @ + 1] /\ Put(t, g)
  BY DEF SemPost
<1>3. /\ g \in Glibc /\ g.kind = page[word[o]].kind
      /\ g.count = page[word[o]].count + 1 /\ g.count \in Nat
  BY <1>0, <1>2 DEF Glibc, SemPost
<1>4. /\ held' = held /\ sent' = [sent EXCEPT ![o] = sent[o] + 1]
      /\ sent'[o] = sent[o] + 1 /\ \A q \in Objects : q # o => sent'[q] = sent[q]
  BY <1>0, Types DEF SemPost
<1>5. Returned(t, o, g)
  BY <1>0, <1>1, <1>2, <1>3 DEF Returned, SemPost, Put
<1>6. /\ TypeOK' /\ CallsOK' /\ OpsOK' /\ Alone' /\ HeldOK' /\ WaitsOK' /\ DeadlinesOK'
      /\ PagesOK' /\ KindKept' /\ ~aborted'
      /\ page'[word[o]] = g
      /\ \A q \in ready : q # o /\ word[q] \in mapped => page'[word[q]] = page[word[q]]
      /\ UNCHANGED <<word, mapped, wait, now, ready, program, aborted>>
  <2>1. sent' \in [Objects -> Nat]
    BY <1>0, <1>1, <1>3, <1>4, Types DEF TypeOK, SemsOK
  <2>2. QED
    BY <1>1, <1>4, <1>5, <2>1, ReturnedStep
<1>7. LocksOK'
  <2>1. ~IsMutex(o)
    BY <1>1, MutexNoSem
  <2>2. QED
    BY <1>0, <1>1, <1>4, <1>6, <2>1, OtherLocks
<1>8. SemsOK'
  <2>1. sent[o] = page[word[o]].count
    BY <1>0, <1>1, Types DEF SemsOK
  <2>2. QED
    BY <1>0, <1>1, <1>3, <1>4, <1>6, <2>1, OtherSems, Types
<1>9. QED
  BY <1>6, <1>7, <1>8

\* sem_wait counts down.
LEMMA SemWaitStep ==
    ASSUME IInv, NEW t \in Threads, SemWait(t)
    PROVE  IInv'
<1> USE DEF IInv
<1>0. PICK o \in Objects : /\ o = obj[t] /\ o \in ready /\ is_mapped(o) /\ Target(t) = page[word[o]]
                           /\ page[word[o]] \in Glibc
  BY AtCall DEF SemWait, At
<1>1. /\ Kind[o] = "sem" /\ op[t] # "cond_wait" /\ pc[t] = "call"
  BY <1>0 DEF SemWait, At, OpsOK
<1>2. PICK g : g = [Target(t) EXCEPT !.count = @ - 1] /\ Put(t, g)
  BY DEF SemWait
<1>3. /\ g \in Glibc /\ g.kind = page[word[o]].kind
      /\ g.count = page[word[o]].count - 1 /\ g.count \in Nat
  BY <1>0, <1>2 DEF Glibc, SemWait
<1>4. /\ held' = held /\ sent' = [sent EXCEPT ![o] = sent[o] - 1]
      /\ sent'[o] = sent[o] - 1 /\ \A q \in Objects : q # o => sent'[q] = sent[q]
  BY <1>0, Types DEF SemWait
<1>5. Returned(t, o, g)
  BY <1>0, <1>1, <1>2, <1>3 DEF Returned, SemWait, Put
<1>6. /\ TypeOK' /\ CallsOK' /\ OpsOK' /\ Alone' /\ HeldOK' /\ WaitsOK' /\ DeadlinesOK'
      /\ PagesOK' /\ KindKept' /\ ~aborted'
      /\ page'[word[o]] = g
      /\ \A q \in ready : q # o /\ word[q] \in mapped => page'[word[q]] = page[word[q]]
      /\ UNCHANGED <<word, mapped, wait, now, ready, program, aborted>>
  <2>1. sent' \in [Objects -> Nat]
    BY <1>0, <1>1, <1>3, <1>4, Types DEF TypeOK, SemsOK
  <2>2. QED
    BY <1>1, <1>4, <1>5, <2>1, ReturnedStep
<1>7. LocksOK'
  <2>1. ~IsMutex(o)
    BY <1>1, MutexNoSem
  <2>2. QED
    BY <1>0, <1>1, <1>4, <1>6, <2>1, OtherLocks
<1>8. SemsOK'
  <2>1. sent[o] = page[word[o]].count
    BY <1>0, <1>1, Types DEF SemsOK
  <2>2. QED
    BY <1>0, <1>1, <1>3, <1>4, <1>6, <2>1, OtherSems, Types
<1>9. QED
  BY <1>6, <1>7, <1>8

\* A thread outside of any call stores g into the page of a lock o it holds.
Unlocked(t, o, g) ==
    /\ pc[t] = "out" /\ Settled(o)
    /\ g \in Glibc /\ g.kind = page[word[o]].kind
    /\ page' = [page EXCEPT ![word[o]] = g]
    /\ UNCHANGED <<word, mapped, pc, obj, op, wait, now, ready, program, sent, aborted>>

\* Such a store keeps everything but what is said of locks.
LEMMA UnlockedStep ==
    ASSUME IInv, NEW t \in Threads, NEW o \in Objects, NEW g, Unlocked(t, o, g), Kind[o] # "sem",
           held' \subseteq held, \A h \in held : h[1] # t => h \in held'
    PROVE  /\ TypeOK' /\ CallsOK' /\ OpsOK' /\ Alone' /\ HeldOK' /\ WaitsOK' /\ DeadlinesOK'
           /\ PagesOK' /\ KindKept' /\ SemsOK' /\ ~aborted'
           /\ page'[word[o]] = g
           /\ \A q \in ready : q # o /\ word[q] \in mapped => page'[word[q]] = page[word[q]]
           /\ UNCHANGED <<word, mapped, ready>>
<1> USE DEF IInv
<1>1. UNCHANGED <<word, mapped, pc, obj, op, wait, now, ready, program, sent, aborted>>
  BY DEF Unlocked
<1>2. /\ page'[word[o]] = g
      /\ \A q \in ready : q # o /\ word[q] \in mapped => page'[word[q]] = page[word[q]]
  BY <1>1, WriteOthers DEF Unlocked, Settled
<1>3. TypeOK'
  <2>1. page' \in [Pages -> Glibc]
    BY Types DEF Unlocked, Settled, is_mapped
  <2>2. QED
    BY <2>1, <1>1 DEF TypeOK
<1>4. o \in ready /\ is_mapped(o) /\ \A u \in Threads : obj[u] = o => pc[u] # "copy"
  BY DEF Unlocked, Settled, FirstUse
<1>5. CallsOK'
  <2>1. \A u \in Threads : pc[u] = "copy" => obj[u] \in ready /\ word[obj[u]] \in mapped /\ page[word[obj[u]]] = Zero
    BY DEF CallsOK, is_mapped
  <2>2. \A u \in Threads : pc[u] = "copy" => page'[word[obj[u]]] = Zero
    BY <1>2, <1>4, <2>1
  <2>3. QED
    BY <1>1, <2>2 DEF CallsOK, is_mapped
<1>6. OpsOK'
  BY <1>1 DEF OpsOK, HeldBy
<1>7. Alone'
  BY <1>1 DEF Alone, is_mapped
<1>8. HeldOK'
  BY <1>1 DEF HeldOK, Settled, is_mapped
<1>9. WaitsOK'
  BY <1>1 DEF WaitsOK, Settled, is_mapped, CallsOK, Unlocked
<1>10. DeadlinesOK'
  BY <1>1 DEF DeadlinesOK
<1>11. PagesOK'
  BY <1>1 DEF PagesOK, is_mapped
<1>12. KindKept'
  BY <1>1, <1>2, Types DEF KindKept, is_mapped, Unlocked
<1>13. SemsOK'
  BY <1>1, <1>2, <1>4, OtherSems
<1>14. QED
  BY <1>1, <1>2, <1>3, <1>5, <1>6, <1>7, <1>8, <1>9, <1>10, <1>11, <1>12, <1>13

\* pthread_mutex_unlock, of any depth.
LEMMA MutexUnlockStep ==
    ASSUME IInv, NEW t \in Threads, NEW o \in program, MutexUnlock(t, o)
    PROVE  IInv'
<1> USE DEF IInv
<1> DEFINE h == <<t, o, "x">>
<1>0. /\ o \in Objects /\ IsMutex(o) /\ h \in held /\ pc[t] = "out" /\ Settled(o)
      /\ o \in ready /\ word[o] \in mapped /\ page[word[o]] \in Glibc
  BY Types DEF MutexUnlock, Release, Idle, HeldOK, Settled, is_mapped
<1>1. PICK g : /\ g = OwnedBy(page[word[o]], IF page[word[o]].count = 1 THEN None ELSE t, page[word[o]].count - 1)
               /\ page' = [page EXCEPT ![word[o]] = g]
               /\ held' = IF g.owner = None THEN held \ {h} ELSE held
               /\ UNCHANGED <<word, mapped, pc, obj, op, wait, now, ready, program, sent, aborted>>
  BY DEF MutexUnlock, Release
<1>2. /\ \A u \in Threads : page[word[o]].owner = u <=> <<u, o, "x">> \in held
      /\ page[word[o]].owner = t /\ page[word[o]].count \in Nat /\ page[word[o]].count # 0
  BY <1>0, Types DEF LocksOK, is_mapped, Glibc
<1>3. /\ g \in Glibc /\ g.owner = (IF page[word[o]].count = 1 THEN None ELSE t)
      /\ g.count = page[word[o]].count - 1 /\ g.kind = page[word[o]].kind
  <2>1. PICK a \in Threads \cup {None} : a = IF page[word[o]].count = 1 THEN None ELSE t
    OBVIOUS
  <2>2. PICK n \in Nat : n = page[word[o]].count - 1
    BY <1>2
  <2>3. g = OwnedBy(page[word[o]], a, n)
    BY <1>1, <2>1, <2>2
  <2>4. g \in Glibc /\ g.owner = a /\ g.count = n /\ g.kind = page[word[o]].kind
    BY <1>0, <2>3, TwoFields
  <2>5. QED
    BY <2>1, <2>2, <2>4
<1>4. Unlocked(t, o, g)
  BY <1>0, <1>1, <1>3 DEF Unlocked
<1>5. Kind[o] # "sem" /\ Kind[o] # "rwlock"
  BY <1>0, MutexNoSem
<1>6. held' \subseteq held /\ \A k \in held : k[1] # t => k \in held'
  BY <1>1
<1>7. /\ TypeOK' /\ CallsOK' /\ OpsOK' /\ Alone' /\ HeldOK' /\ WaitsOK' /\ DeadlinesOK'
      /\ PagesOK' /\ KindKept' /\ SemsOK' /\ ~aborted'
      /\ page'[word[o]] = g
      /\ \A q \in ready : q # o /\ word[q] \in mapped => page'[word[q]] = page[word[q]]
      /\ UNCHANGED <<word, mapped, ready>>
  BY <1>0, <1>4, <1>5, <1>6, UnlockedStep
<1>8. LocksOK'
  <2>1. \A u \in Threads : g.owner = u <=> <<u, o, "x">> \in held'
    BY <1>1, <1>2, <1>3, Types
  <2>2. g.owner = None <=> g.count = 0
    BY <1>2, <1>3, Types
  <2>3. \A u \in Threads, q \in ready, m \in {"x", "r"} : q # o => (<<u, q, m>> \in held' <=> <<u, q, m>> \in held)
    BY <1>1
  <2>4. QED
    BY <1>0, <1>5, <1>7, <2>1, <2>2, <2>3, OtherLocks
<1>9. QED
  BY <1>7, <1>8

\* pthread_rwlock_unlock of a reader or of the writer.
LEMMA RwlockUnlockStep ==
    ASSUME IInv, NEW t \in Threads, NEW o \in program, RwlockUnlock(t, o)
    PROVE  IInv'
<1> USE DEF IInv
<1>0. PICK m \in {"x", "r"} :
        \E g : /\ g = IF m = "r" THEN [page[word[o]] EXCEPT !.count = @ - 1] ELSE [page[word[o]] EXCEPT !.owner = None]
               /\ Release(t, <<t, o, m>>, g)
  BY DEF RwlockUnlock
<1>1. PICK g :
        /\ g = IF m = "r" THEN [page[word[o]] EXCEPT !.count = @ - 1] ELSE [page[word[o]] EXCEPT !.owner = None]
        /\ Release(t, <<t, o, m>>, g)
  BY <1>0
<1>2. /\ o \in Objects /\ Kind[o] = "rwlock" /\ <<t, o, m>> \in held /\ pc[t] = "out" /\ Settled(o)
      /\ o \in ready /\ word[o] \in mapped /\ page[word[o]] \in Glibc
  BY <1>1, Types DEF RwlockUnlock, Release, Idle, HeldOK, Settled, is_mapped
<1>3. /\ page' = [page EXCEPT ![word[o]] = g]
      /\ held' = IF g.owner = None THEN held \ {<<t, o, m>>} ELSE held
      /\ UNCHANGED <<word, mapped, pc, obj, op, wait, now, ready, program, sent, aborted>>
  BY <1>1 DEF Release
<1>4. /\ \A u \in Threads : page[word[o]].owner = u <=> <<u, o, "x">> \in held
      /\ page[word[o]].count \in Nat /\ page[word[o]].count = Cardinality(Readers(o))
      /\ page[word[o]].owner # None => page[word[o]].count = 0
  BY <1>2 DEF LocksOK, is_mapped, Glibc
<1>5. /\ m = "r" => t \in Readers(o) /\ page[word[o]].count > 0 /\ page[word[o]].owner = None
      /\ m = "x" => page[word[o]].owner = t /\ page[word[o]].count = 0
  <2>1. CASE m = "r"
    <3>1. t \in Readers(o)
      BY <1>2, <2>1 DEF Readers
    <3>2. Cardinality(Readers(o)) # 0
      BY <3>1, ReadersFinite, FS_EmptySet
    <3>3. QED
      BY <1>4, <2>1, <3>1, <3>2
  <2>2. CASE m = "x"
    BY <1>2, <1>4, <2>2, Types
  <2>3. QED
    BY <2>1, <2>2
<1>6. /\ g \in Glibc /\ g.owner = None /\ g.kind = page[word[o]].kind
      /\ g.count = IF m = "r" THEN page[word[o]].count - 1 ELSE 0
  BY <1>1, <1>2, <1>4, <1>5 DEF Glibc
<1>7. held' = held \ {<<t, o, m>>}
  BY <1>3, <1>6
<1>8. /\ TypeOK' /\ CallsOK' /\ OpsOK' /\ Alone' /\ HeldOK' /\ WaitsOK' /\ DeadlinesOK'
      /\ PagesOK' /\ KindKept' /\ SemsOK' /\ ~aborted'
      /\ page'[word[o]] = g
      /\ \A q \in ready : q # o /\ word[q] \in mapped => page'[word[q]] = page[word[q]]
      /\ UNCHANGED <<word, mapped, ready>>
  <2>1. Unlocked(t, o, g)
    BY <1>2, <1>3, <1>6 DEF Unlocked
  <2>2. held' \subseteq held /\ \A k \in held : k[1] # t => k \in held'
    BY <1>7
  <2>3. QED
    BY <1>2, <2>1, <2>2, UnlockedStep
<1>9. LocksOK'
  <2>1. \A u \in Threads : g.owner = u <=> <<u, o, "x">> \in held'
    BY <1>4, <1>5, <1>6, <1>7, Types
  <2>2. g.count = Cardinality(Readers(o)')
    <3>1. CASE m = "r"
      <4>1. Readers(o)' = Readers(o) \ {t}
        BY <1>7, <3>1 DEF Readers
      <4>2. Cardinality(Readers(o)') = Cardinality(Readers(o)) - 1
        BY <1>5, <3>1, <4>1, ReadersFinite, FS_RemoveElement
      <4>3. QED
        BY <1>4, <1>6, <3>1, <4>2
    <3>2. CASE m = "x"
      <4>1. Readers(o)' = Readers(o)
        BY <1>7, <3>2 DEF Readers
      <4>2. QED
        BY <1>4, <1>5, <1>6, <3>2, <4>1
    <3>3. QED
      BY <3>1, <3>2
  <2>3. ~IsMutex(o)
    BY <1>2, MutexNoSem
  <2>4. \A u \in Threads, q \in ready, n \in {"x", "r"} : q # o => (<<u, q, n>> \in held' <=> <<u, q, n>> \in held)
    BY <1>7
  <2>5. QED
    BY <1>2, <1>6, <1>8, <2>1, <2>2, <2>3, <2>4, OtherLocks
<1>10. QED
  BY <1>8, <1>9

\* The types of the waits.
LEMMA WaitMutexes ==
    ASSUME TypeOK
    PROVE  \A u \in Threads : wait[u] \in Waits /\ wait[u].mutex \in Objects \cup {None}
  BY DEF TypeOK, Waits

\* The mutex of a thread in a condition wait.
LEMMA WaitMutex ==
    ASSUME IInv, NEW t \in Threads, op[t] = "cond_wait"
    PROVE  \E m \in Objects : /\ m = wait[t].mutex /\ m # None /\ IsMutex(m) /\ Settled(m)
                              /\ m \in ready /\ is_mapped(m) /\ word[m] \in mapped /\ page[word[m]] \in Glibc
                              /\ Kind[m] # "sem" /\ Kind[m] # "rwlock" /\ Kind[m] # "cond"
                              /\ \A u \in Threads : obj[u] = m => pc[u] # "copy"
<1> USE DEF IInv
<1>1. PICK m \in Objects : m = wait[t].mutex /\ m # None /\ IsMutex(m) /\ Settled(m)
  BY WaitMutexes, Types DEF WaitsOK
<1>2. m \in ready /\ word[m] \in mapped /\ \A u \in Threads : obj[u] = m => pc[u] # "copy"
  BY <1>1 DEF Settled, is_mapped, FirstUse
<1>3. page[word[m]] \in Glibc
  BY <1>2, Types
<1>4. QED
  BY <1>1, <1>2, <1>3, MutexNoSem DEF is_mapped

\* pthread_cond_wait gives the mutex up.
LEMMA SleepStep ==
    ASSUME IInv, NEW t \in Threads, Sleep(t)
    PROVE  IInv'
<1> USE DEF IInv
<1>0. PICK o \in Objects : o = obj[t] /\ o \in ready /\ is_mapped(o) /\ word[o] \in Pages
  BY AtCall, Types DEF Sleep, At, is_mapped
<1>1. op[t] = "cond_wait" /\ pc[t] = "call" /\ wait[t].deadline[2] \in Nat
  BY WaitMutexes DEF Sleep, At, Waits
<1>2. PICK m \in Objects : /\ m = wait[t].mutex /\ m # None /\ IsMutex(m) /\ Settled(m)
                           /\ m \in ready /\ is_mapped(m) /\ word[m] \in mapped /\ page[word[m]] \in Glibc
                           /\ Kind[m] # "sem" /\ Kind[m] # "rwlock" /\ Kind[m] # "cond"
                           /\ \A u \in Threads : obj[u] = m => pc[u] # "copy"
  BY <1>1, WaitMutex
<1>3. <<t, m, "x">> \in held
  BY <1>1, <1>2 DEF WaitsOK, Asleep
<1>4. ~(wait[t].deadline[2] >= BILLION)
  BY <1>1, PthreadAssumption DEF DeadlinesOK
<1>5. PICK g : g = OwnedBy(page[word[m]], None, 0) /\ page' = [page EXCEPT ![word[m]] = g]
  BY <1>2, <1>4 DEF Sleep
<1>6. g \in Glibc /\ g.owner = None /\ g.count = 0 /\ g.kind = page[word[m]].kind
  <2>1. None \in Threads \cup {None} /\ 0 \in Nat
    OBVIOUS
  <2>3. page[word[m]] \in Glibc
    BY <1>2
  <2>4. g = OwnedBy(page[word[m]], None, 0)
    BY <1>5
  <2>5. QED
    BY <2>1, <2>3, <2>4, TwoFields
<1>7. /\ \A u \in Threads : /\ pc'[u] = IF u = t THEN "waiting" ELSE pc[u]
                            /\ wait'[u] = IF u = t THEN [wait[t] EXCEPT !.at = word[o]] ELSE wait[u]
      /\ held' = held \ {<<t, m, "x">>}
      /\ UNCHANGED <<word, mapped, obj, op, now, ready, program, sent, aborted>>
  BY <1>0, <1>2, <1>4, Types DEF Sleep, Goto
<1>8. /\ wait'[t].at = word[o] /\ wait'[t].mutex = m /\ wait'[t].deadline = wait[t].deadline
      /\ wait'[t].due = wait[t].due /\ wait'[t].out = wait[t].out
  BY <1>2, <1>7, WaitMutexes DEF Waits
<1>9. /\ page'[word[m]] = g
      /\ \A q \in ready : q # m /\ word[q] \in mapped => page'[word[q]] = page[word[q]]
  <2>1. m \in ready /\ is_mapped(m)
    BY <1>2
  <2>2. page' = [page EXCEPT ![word[m]] = g]
    BY <1>5
  <2>3. UNCHANGED <<word, mapped, ready>>
    BY <1>7
  <2>4. QED
    BY <2>1, <2>2, <2>3, WriteOthers
<1>10. TypeOK'
  <2>1. page' \in [Pages -> Glibc]
    BY <1>2, <1>5, <1>6, Types
  <2>2. wait' \in [Threads -> Waits]
    <3>1. [wait[t] EXCEPT !.at = word[o]] \in Waits
      BY <1>0, WaitMutexes DEF Waits
    <3>2. wait' = [wait EXCEPT ![t] = [wait[t] EXCEPT !.at = word[o]]]
      BY <1>0, <1>4 DEF Sleep
    <3>3. QED
      BY <3>1, <3>2 DEF TypeOK
  <2>3. pc' \in [Threads -> {"out", "check", "match", "map", "copy", "call", "waiting", "woken", "einval"}]
    BY <1>4 DEF TypeOK, Sleep, Goto
  <2>4. QED
    BY <1>7, <2>1, <2>2, <2>3 DEF TypeOK
<1>11. CallsOK'
  <2>1. \A u \in Threads : pc[u] = "copy" => obj[u] \in ready /\ word[obj[u]] \in mapped /\ page[word[obj[u]]] = Zero
    BY DEF CallsOK, is_mapped
  <2>2. \A u \in Threads : pc[u] = "copy" => page'[word[obj[u]]] = Zero
    BY <1>2, <1>9, <2>1
  <2>3. QED
    BY <1>0, <1>1, <1>7, <1>8, <2>2 DEF CallsOK, is_mapped, Asleep
<1>12. OpsOK'
  BY <1>7 DEF OpsOK, HeldBy
<1>13. Alone'
  BY <1>1, <1>7 DEF Alone, is_mapped, FirstUse
<1>14. HeldOK'
  BY <1>7 DEF HeldOK, Settled, is_mapped, FirstUse
<1>15. WaitsOK'
  <2>1. \A q \in Objects : Settled(q) => Settled(q)'
    BY <1>7 DEF Settled, is_mapped, FirstUse
  <2>2. \A u \in Threads : wait[u].mutex \in Objects \cup {None}
    BY WaitMutexes
  <2>3. QED
    BY <1>1, <1>2, <1>7, <1>8, <2>1, <2>2 DEF WaitsOK, Asleep
<1>16. DeadlinesOK'
  BY <1>7, <1>8 DEF DeadlinesOK, Ticks
<1>17. PagesOK'
  BY <1>7 DEF PagesOK, is_mapped
<1>18. LocksOK'
  <2>1. \A u \in Threads : page[word[m]].owner = u <=> <<u, m, "x">> \in held
    BY <1>2 DEF LocksOK, is_mapped
  <2>2. \A u \in Threads : g.owner = u <=> <<u, m, "x">> \in held'
    BY <1>3, <1>6, <1>7, <2>1, Types
  <2>3. \A u \in Threads, q \in ready, n \in {"x", "r"} : q # m => (<<u, q, n>> \in held' <=> <<u, q, n>> \in held)
    BY <1>7
  <2>4. QED
    BY <1>2, <1>6, <1>7, <1>9, <2>2, <2>3, OtherLocks
<1>19. KindKept'
  BY <1>1, <1>2, <1>6, <1>7, <1>9, Types DEF KindKept, is_mapped
<1>20. SemsOK'
  BY <1>2, <1>7, <1>9, OtherSems
<1>21. QED
  BY <1>7, <1>10, <1>11, <1>12, <1>13, <1>14, <1>15, <1>16, <1>17, <1>18, <1>19, <1>20

\* pthread_cond_signal and pthread_cond_broadcast return, and wake some of
\* the threads that wait.
LEMMA WakeStep ==
    ASSUME IInv, NEW t \in Threads, NEW us \in SUBSET Threads, \A u \in us : pc[u] = "waiting",
           pc[t] = "call", op[t] # "cond_wait", Wake(t, us)
    PROVE  IInv'
<1> USE DEF IInv
<1>1. /\ \A u \in Threads : /\ pc'[u] = IF u = t THEN "out" ELSE IF u \in us THEN "woken" ELSE pc[u]
                            /\ obj'[u] = IF u = t THEN None ELSE obj[u]
                            /\ op'[u] = IF u = t THEN "none" ELSE op[u]
      /\ UNCHANGED <<word, mapped, page, wait, now, ready, program, held, sent, aborted>>
  BY Types DEF Wake, objVars, histVars
<1>2. TypeOK'
  <2>1. pc' \in [Threads -> {"out", "check", "match", "map", "copy", "call", "waiting", "woken", "einval"}]
    BY DEF Wake, TypeOK
  <2>2. QED
    BY <1>1, <2>1 DEF TypeOK, Wake
<1>3. CallsOK'
  BY <1>1, Types DEF CallsOK, is_mapped, Asleep
<1>4. OpsOK'
  BY <1>1 DEF OpsOK, HeldBy
<1>5. Alone'
  BY <1>1, Types DEF Alone, is_mapped, FirstUse, CallsOK
<1>6. HeldOK'
  BY <1>1 DEF HeldOK, Settled, is_mapped, FirstUse
<1>7. WaitsOK'
  <2>1. \A q \in Objects : Settled(q) => Settled(q)'
    BY <1>1 DEF Settled, is_mapped, FirstUse
  <2>2. \A u \in Threads : wait[u].mutex \in Objects \cup {None}
    BY WaitMutexes
  <2>3. QED
    BY <1>1, <2>1, <2>2 DEF WaitsOK, Asleep
<1>8. DeadlinesOK'
  BY <1>1 DEF DeadlinesOK
<1>9. PagesOK' /\ LocksOK' /\ SemsOK'
  BY <1>1, ObjectsKept
<1>10. KindKept'
  BY <1>1 DEF KindKept, is_mapped
<1>11. QED
  BY <1>1, <1>2, <1>3, <1>4, <1>5, <1>6, <1>7, <1>8, <1>9, <1>10

\* Either call wakes threads that sleep at its page.
LEMMA SignalStep ==
    ASSUME IInv, NEW t \in Threads, CondSignal(t) \/ CondBroadcast(t)
    PROVE  IInv'
<1>1. PICK us \in SUBSET Threads : (\A u \in us : pc[u] = "waiting") /\ Wake(t, us)
  BY DEF CondSignal, CondBroadcast, Sleepers
<1>2. pc[t] = "call" /\ op[t] # "cond_wait"
  BY DEF CondSignal, CondBroadcast, At
<1>3. QED
  BY <1>1, <1>2, WakeStep

\* The deadline has passed on the clock of the condition.
LEMMA TimeoutStep ==
    ASSUME IInv, NEW t \in Threads, Timeout(t)
    PROVE  IInv'
<1> USE DEF IInv
<1>1. /\ \A u \in Threads : /\ pc'[u] = IF u = t THEN "woken" ELSE pc[u]
                            /\ wait'[u] = IF u = t THEN [wait[t] EXCEPT !.out = TRUE] ELSE wait[u]
      /\ UNCHANGED <<word, mapped, page, obj, op, now, ready, program, held, sent, aborted>>
      /\ pc[t] = "waiting"
  BY Types DEF Timeout, Goto, objVars, histVars
<1>2. \A u \in Threads : /\ wait'[u].at = wait[u].at /\ wait'[u].mutex = wait[u].mutex
                         /\ wait'[u].deadline = wait[u].deadline /\ wait'[u].due = wait[u].due
                         /\ u # t => wait'[u].out = wait[u].out
  BY <1>1, WaitMutexes DEF Waits
<1>3. TypeOK'
  <2>1. [wait[t] EXCEPT !.out = TRUE] \in Waits
    BY WaitMutexes DEF Waits
  <2>2. wait' = [wait EXCEPT ![t] = [wait[t] EXCEPT !.out = TRUE]]
    BY DEF Timeout
  <2>3. wait' \in [Threads -> Waits]
    BY <2>1, <2>2 DEF TypeOK
  <2>4. pc' \in [Threads -> {"out", "check", "match", "map", "copy", "call", "waiting", "woken", "einval"}]
    BY DEF TypeOK, Timeout, Goto
  <2>5. QED
    BY <1>1, <2>3, <2>4 DEF TypeOK
<1>4. CallsOK'
  BY <1>1, <1>2 DEF CallsOK, is_mapped, Asleep
<1>5. OpsOK'
  BY <1>1 DEF OpsOK, HeldBy
<1>6. Alone'
  BY <1>1 DEF Alone, is_mapped, FirstUse
<1>7. HeldOK'
  BY <1>1 DEF HeldOK, Settled, is_mapped, FirstUse
<1>8. WaitsOK'
  <2>1. \A q \in Objects : Settled(q) => Settled(q)'
    BY <1>1 DEF Settled, is_mapped, FirstUse
  <2>2. \A u \in Threads : wait[u].mutex \in Objects \cup {None}
    BY WaitMutexes
  <2>3. QED
    BY <1>1, <1>2, <2>1, <2>2 DEF WaitsOK, Asleep
<1>9. DeadlinesOK'
  <2>1. PICK d \in Nat \X Nat, x \in Nat : d = wait[t].deadline /\ x = wait[t].due
    BY WaitMutexes DEF Waits
  <2>2. PICK k \in Nat : k = Ticks(d)
    BY <2>1, PthreadAssumption DEF Ticks
  <2>3. now + Epoch >= k /\ now \in Nat /\ Epoch \in Nat
    BY <2>1, <2>2, PthreadAssumption DEF Timeout, Time, TypeOK
  <2>4. x > 0 => x + Epoch <= k
    BY <2>1, <2>2 DEF DeadlinesOK
  <2>5. now >= x
    BY <2>3, <2>4
  <2>6. \A u \in Threads : Ticks(wait[u].deadline)' = Ticks(wait[u].deadline)
    BY <1>2 DEF Ticks
  <2>7. QED
    BY <1>1, <1>2, <2>1, <2>5, <2>6 DEF DeadlinesOK
<1>10. PagesOK' /\ LocksOK' /\ SemsOK'
  BY <1>1, ObjectsKept
<1>11. KindKept'
  BY <1>1 DEF KindKept, is_mapped
<1>12. QED
  BY <1>1, <1>3, <1>4, <1>5, <1>6, <1>7, <1>8, <1>9, <1>10, <1>11

\* A thread that waited takes its mutex again.
LEMMA RewakeStep ==
    ASSUME IInv, NEW t \in Threads, Rewake(t)
    PROVE  IInv'
<1> USE DEF IInv
<1>1. pc[t] = "woken" /\ op[t] = "cond_wait"
  BY DEF Rewake, CallsOK, Asleep
<1>2. PICK m \in Objects : /\ m = wait[t].mutex /\ m # None /\ IsMutex(m) /\ Settled(m)
                           /\ m \in ready /\ is_mapped(m) /\ word[m] \in mapped /\ page[word[m]] \in Glibc
                           /\ Kind[m] # "sem" /\ Kind[m] # "rwlock" /\ Kind[m] # "cond"
                           /\ \A u \in Threads : obj[u] = m => pc[u] # "copy"
  BY <1>1, WaitMutex
<1>3. PICK g : g = OwnedBy(page[word[m]], t, 1) /\ page' = [page EXCEPT ![word[m]] = g]
  BY <1>2 DEF Rewake
<1>4. g \in Glibc /\ g.owner = t /\ g.count = 1 /\ g.kind = page[word[m]].kind
  BY <1>2, <1>3, TwoFields
<1>5. /\ \A u \in Threads : /\ pc'[u] = IF u = t THEN "out" ELSE pc[u]
                            /\ obj'[u] = IF u = t THEN None ELSE obj[u]
                            /\ op'[u] = IF u = t THEN "none" ELSE op[u]
                            /\ wait'[u] = IF u = t THEN NoWait ELSE wait[u]
      /\ held' = held \cup {<<t, m, "x">>} /\ page[word[m]].owner = None
      /\ UNCHANGED <<word, mapped, now, ready, program, sent, aborted>>
  BY <1>2, Types DEF Rewake, Goto
<1>6. /\ page'[word[m]] = g
      /\ \A q \in ready : q # m /\ word[q] \in mapped => page'[word[q]] = page[word[q]]
  <2>1. m \in ready /\ is_mapped(m)
    BY <1>2
  <2>2. page' = [page EXCEPT ![word[m]] = g]
    BY <1>3
  <2>3. UNCHANGED <<word, mapped, ready>>
    BY <1>5
  <2>4. QED
    BY <2>1, <2>2, <2>3, WriteOthers
<1>7. NoWait.mutex = None /\ NoWait.deadline = <<0, 0>> /\ NoWait.due = 0 /\ ~NoWait.out
  BY DEF NoWait
<1>8. TypeOK'
  <2>1. page' \in [Pages -> Glibc]
    BY <1>2, <1>3, <1>4, Types
  <2>2. NoWait \in Waits
    BY DEF NoWait, Waits
  <2>3. wait' \in [Threads -> Waits]
    BY <2>2 DEF TypeOK, Rewake
  <2>4. held' \subseteq Threads \X program \X {"x", "r"}
    BY <1>2, <1>5, Types DEF TypeOK
  <2>5. QED
    BY <1>5, <2>1, <2>3, <2>4 DEF TypeOK, Rewake, Goto
<1>9. CallsOK'
  <2>1. \A u \in Threads : pc[u] = "copy" => obj[u] \in ready /\ word[obj[u]] \in mapped /\ page[word[obj[u]]] = Zero
    BY DEF CallsOK, is_mapped
  <2>2. \A u \in Threads : pc[u] = "copy" => page'[word[obj[u]]] = Zero
    BY <1>2, <1>6, <2>1
  <2>3. QED
    BY <1>1, <1>5, <2>2, Types DEF CallsOK, is_mapped, Asleep
<1>10. OpsOK'
  <2>1. \A u \in Threads : u # t => HeldBy(u)' = HeldBy(u)
    BY <1>5 DEF HeldBy
  <2>2. QED
    BY <1>5, <2>1 DEF OpsOK
<1>11. Alone'
  BY <1>5, Types DEF Alone, is_mapped, FirstUse, CallsOK
<1>12. \A q \in Objects : Settled(q) => Settled(q)'
  BY <1>5 DEF Settled, is_mapped, FirstUse
<1>13. HeldOK'
  BY <1>2, <1>5, <1>12, Types DEF HeldOK
<1>14. WaitsOK'
  <2>1. \A u \in Threads : wait[u].mutex \in Objects \cup {None}
    BY WaitMutexes
  <2>2. QED
    BY <1>5, <1>7, <1>12, <2>1 DEF WaitsOK, Asleep
<1>15. DeadlinesOK'
  <2>1. /\ \A u \in Threads : u # t => Ticks(wait[u].deadline)' = Ticks(wait[u].deadline)
        /\ now \in Nat /\ 0 < BILLION
    BY <1>5, PthreadAssumption DEF Ticks, TypeOK
  <2>2. QED
    BY <1>5, <1>7, <2>1 DEF DeadlinesOK
<1>16. PagesOK'
  BY <1>5 DEF PagesOK, is_mapped
<1>17. LocksOK'
  <2>1. \A u \in Threads : page[word[m]].owner = u <=> <<u, m, "x">> \in held
    BY <1>2 DEF LocksOK, is_mapped
  <2>2. \A u \in Threads : g.owner = u <=> <<u, m, "x">> \in held'
    BY <1>4, <1>5, <2>1, Types
  <2>3. \A u \in Threads, q \in ready, n \in {"x", "r"} : q # m => (<<u, q, n>> \in held' <=> <<u, q, n>> \in held)
    BY <1>5
  <2>4. g.owner = None <=> g.count = 0
    BY <1>4, Types
  <2>5. QED
    BY <1>2, <1>5, <1>6, <2>2, <2>3, <2>4, OtherLocks
<1>18. KindKept'
  BY <1>1, <1>2, <1>4, <1>5, <1>6, Types DEF KindKept, is_mapped
<1>19. SemsOK'
  BY <1>2, <1>5, <1>6, OtherSems
<1>20. QED
  BY <1>5, <1>8, <1>9, <1>10, <1>11, <1>13, <1>14, <1>15, <1>16, <1>17, <1>18, <1>19

-----------------------------------------------------------------------------
(* Times.                                                                  *)

\* A time in ticks and its timespec.
LEMMA TimespecOK ==
    ASSUME NEW x \in Nat
    PROVE  /\ Timespec(x) \in Nat \X Nat /\ Timespec(x)[2] < BILLION /\ Ticks(Timespec(x)) = x
<1>1. PICK b \in Nat \ {0} : b = BILLION
  BY PthreadAssumption
<1>2. x \div b \in Nat /\ x % b \in Nat /\ x % b < b /\ ((x \div b) * b) + (x % b) = x
  BY <1>1, Z3
<1>3. QED
  BY <1>1, <1>2 DEF Timespec, Ticks

\* The sum of two timespecs is a timespec, and as long as both together.
LEMMA SumOK ==
    ASSUME NEW a \in Nat \X Nat, NEW b \in Nat \X Nat, a[2] < BILLION, b[2] < BILLION
    PROVE  /\ Sum(a, b) \in Nat \X Nat /\ Sum(a, b)[2] < BILLION
           /\ Ticks(Sum(a, b)) = Ticks(a) + Ticks(b)
<1>1. PICK B \in Nat \ {0} : B = BILLION
  BY PthreadAssumption
<1>2. PICK a1 \in Nat, a2 \in Nat, b1 \in Nat, b2 \in Nat : a = <<a1, a2>> /\ b = <<b1, b2>>
  OBVIOUS
<1>3. /\ (a1 + b1 + 1) * B = (a1 * B) + (b1 * B) + B /\ (a1 + b1) * B = (a1 * B) + (b1 * B)
      /\ a1 * B \in Nat /\ b1 * B \in Nat
  BY <1>1, Z3
<1>4. Ticks(a) = (a1 * B) + a2 /\ Ticks(b) = (b1 * B) + b2
  BY <1>1, <1>2 DEF Ticks
<1>5. CASE a2 + b2 >= B
  <2>1. Sum(a, b) = <<a1 + b1 + 1, a2 + b2 - B>>
    BY <1>1, <1>2, <1>5 DEF Sum
  <2>2. Ticks(Sum(a, b)) = ((a1 + b1 + 1) * B) + (a2 + b2 - B)
    BY <1>1, <2>1 DEF Ticks
  <2>3. a2 + b2 - B \in Nat /\ a2 + b2 - B < B
    BY <1>1, <1>2, <1>5
  <2>4. QED
    BY <1>1, <1>3, <1>4, <2>1, <2>2, <2>3
<1>6. CASE ~(a2 + b2 >= B)
  <2>1. Sum(a, b) = <<a1 + b1, a2 + b2>>
    BY <1>1, <1>2, <1>6 DEF Sum
  <2>2. Ticks(Sum(a, b)) = ((a1 + b1) * B) + (a2 + b2)
    BY <1>1, <2>1 DEF Ticks
  <2>3. QED
    BY <1>1, <1>3, <1>4, <1>6, <2>1, <2>2
<1>7. QED
  BY <1>5, <1>6

\* The deadlines the wrappers pass to glibc are timespecs.
LEMMA DeadlineOK ==
    ASSUME NEW how, NEW x \in Nat, now \in Nat
    PROVE  /\ Deadline(how, x) \in Nat \X Nat /\ Deadline(how, x)[2] < BILLION
           /\ how = "relative" => Ticks(Deadline(how, x)) = now + Epoch + x
<1>1. now + Epoch \in Nat /\ Epoch \in Nat
  BY PthreadAssumption
<1>2. CASE how = "relative"
  BY <1>1, <1>2, TimespecOK, SumOK DEF Deadline, Time
<1>3. CASE how # "relative"
  BY <1>1, <1>3, TimespecOK, SumOK DEF Deadline, Time
<1>4. QED
  BY <1>2, <1>3

\* A condition wait begins.
LEMMA CondWaitStep ==
    ASSUME IInv, NEW t \in Threads, NEW o \in program, NEW m \in program, CondWait(t, o, m)
    PROVE  IInv'
<1> USE DEF IInv
<1>1. PICK how \in {"untimed", "abs", "relative", "monotonic"}, x \in Nat :
          wait' = [wait EXCEPT ![t] =
                     [mutex |-> m, at |-> None, how |-> how, deadline |-> Deadline(how, x),
                      due |-> IF how = "relative" THEN now + x ELSE 0, out |-> FALSE]]
  BY PthreadAssumption DEF CondWait
<1>2. PICK w : /\ w = [mutex |-> m, at |-> None, how |-> how, deadline |-> Deadline(how, x),
                       due |-> IF how = "relative" THEN now + x ELSE 0, out |-> FALSE]
               /\ wait' = [wait EXCEPT ![t] = w]
  BY <1>1
<1>3. now \in Nat /\ m \in Objects /\ o \in Objects
  BY Types DEF TypeOK
<1>4. /\ w \in Waits /\ w.mutex = m /\ w.deadline = Deadline(how, x) /\ ~w.out
      /\ w.due = IF how = "relative" THEN now + x ELSE 0
  BY <1>2, <1>3, DeadlineOK DEF Waits
<1>5. w.deadline[2] < BILLION /\ (w.due > 0 => w.due + Epoch <= Ticks(w.deadline))
  BY <1>3, <1>4, DeadlineOK, PthreadAssumption
<1>6. /\ \A u \in Threads : /\ pc'[u] = IF u = t THEN "check" ELSE pc[u]
                            /\ obj'[u] = IF u = t THEN o ELSE obj[u]
                            /\ op'[u] = IF u = t THEN "cond_wait" ELSE op[u]
                            /\ wait'[u] = IF u = t THEN w ELSE wait[u]
      /\ UNCHANGED <<word, mapped, page, now, ready, program, held, sent, aborted>>
  BY <1>2, Types DEF CondWait, Enter, Goto, objVars, histVars
<1>7. /\ pc[t] = "out" /\ o \in ready /\ o # None /\ Kind[o] = "cond" /\ ~InFirstUse(o)
      /\ IsMutex(m) /\ <<t, m, "x">> \in held /\ m # None
  BY <1>3, Types DEF CondWait, Enter, Idle
<1>8. TypeOK'
  <2>1. wait' \in [Threads -> Waits]
    BY <1>2, <1>4 DEF TypeOK
  <2>2. QED
    BY <1>3, <1>6, <1>7, <2>1 DEF TypeOK, CondWait, Enter, Goto
<1>9. CallsOK'
  BY <1>6, <1>7, Types DEF CallsOK, is_mapped, IsMutex, IsLazy, LazyKinds, Asleep
<1>10. OpsOK'
  BY <1>6, <1>7 DEF OpsOK, HeldBy
<1>11. Alone'
  BY <1>6, <1>7, Types DEF Alone, InFirstUse, is_mapped, FirstUse, CallsOK
<1>12. \A q \in Objects : Settled(q) => Settled(q)'
  BY <1>6, <1>7 DEF Settled, is_mapped, FirstUse
<1>13. HeldOK'
  BY <1>6, <1>12, Types DEF HeldOK
<1>14. WaitsOK'
  <2>1. Settled(m)'
    BY <1>3, <1>7, <1>12 DEF HeldOK
  <2>2. QED
    BY <1>4, <1>6, <1>7, <1>12, <2>1, WaitMutexes DEF WaitsOK, Asleep
<1>15. DeadlinesOK'
  <2>1. /\ \A u \in Threads : u # t => Ticks(wait[u].deadline)' = Ticks(wait[u].deadline)
        /\ Ticks(wait[t].deadline)' = Ticks(w.deadline)
    BY <1>6 DEF Ticks
  <2>2. QED
    BY <1>4, <1>5, <1>6, <2>1 DEF DeadlinesOK
<1>16. PagesOK' /\ LocksOK' /\ SemsOK'
  BY <1>6, ObjectsKept
<1>17. KindKept'
  BY <1>6, <1>7 DEF KindKept, is_mapped
<1>18. QED
  BY <1>6, <1>8, <1>9, <1>10, <1>11, <1>13, <1>14, <1>15, <1>16, <1>17

\* Time passes.
LEMMA TickStep ==
    ASSUME IInv, Tick
    PROVE  IInv'
<1> USE DEF IInv
<1>1. /\ now' = now + 1 /\ now < MaxNow
      /\ UNCHANGED <<word, mapped, page, pc, obj, op, wait, ready, program, held, sent, aborted>>
  BY DEF Tick, objVars, histVars
<1>2. TypeOK'
  BY <1>1, PthreadAssumption DEF TypeOK
<1>3. CallsOK' /\ OpsOK' /\ Alone' /\ HeldOK' /\ WaitsOK'
  BY <1>1 DEF CallsOK, OpsOK, Alone, HeldOK, WaitsOK, Settled, is_mapped, HeldBy
<1>4. DeadlinesOK'
  <2>1. now \in Nat /\ \A u \in Threads : wait[u].due \in Nat /\ Ticks(wait[u].deadline)' = Ticks(wait[u].deadline)
    BY <1>1, WaitMutexes DEF Waits, TypeOK, Ticks
  <2>2. QED
    BY <1>1, <2>1 DEF DeadlinesOK
<1>5. PagesOK' /\ LocksOK' /\ SemsOK'
  BY <1>1, ObjectsKept
<1>6. KindKept'
  BY <1>1 DEF KindKept, is_mapped
<1>7. QED
  BY <1>1, <1>2, <1>3, <1>4, <1>5, <1>6

-----------------------------------------------------------------------------
(* Initialization and destruction: o is in no call, wait or lock.          *)

Unused(o) == /\ \A t \in Threads : obj[t] # o /\ wait[t].mutex # o
             /\ \A h \in held : h[2] # o

\* What is not initialized is not in use.
LEMMA NotReadyUnused ==
    ASSUME IInv, NEW o \in program \ ready
    PROVE  Unused(o)
<1>1. o # None
  BY Types DEF IInv
<1>2. \A u \in Threads : obj[u] # o
  BY <1>1 DEF IInv, CallsOK
<1>3. \A u \in Threads : wait[u].mutex # o
  BY <1>1 DEF IInv, WaitsOK, Settled
<1>4. \A h \in held : h[2] # o
  BY DEF IInv, HeldOK, Settled
<1>5. QED
  BY <1>2, <1>3, <1>4 DEF Unused

\* The threads, their calls, waits and locks are as they were, and so are
\* the live objects but o.
OnlyObject(o) ==
    /\ UNCHANGED <<pc, obj, op, wait, now, program, held, aborted>>
    /\ \A q \in ready \ {o} : /\ q \in ready' /\ word'[q] = word[q]
                              /\ word[q] \in mapped' <=> word[q] \in mapped
                              /\ word[q] \in mapped => page'[word[q]] = page[word[q]]
    /\ ready' \subseteq ready \cup {o}

\* Such a step keeps what is said of threads.
LEMMA OnlyObjectStep ==
    ASSUME IInv, NEW o \in program, OnlyObject(o), Unused(o)
    PROVE  CallsOK' /\ OpsOK' /\ Alone' /\ HeldOK' /\ WaitsOK' /\ DeadlinesOK' /\ ~aborted'
<1> USE DEF IInv
<1>1. /\ UNCHANGED <<pc, obj, op, wait, now, program, held, aborted>>
      /\ \A q \in ready \ {o} : /\ q \in ready' /\ word'[q] = word[q]
                                /\ word[q] \in mapped' <=> word[q] \in mapped
                                /\ word[q] \in mapped => page'[word[q]] = page[word[q]]
  BY DEF OnlyObject
<1>2. \A u \in Threads : pc[u] # "out" => obj[u] \in ready \ {o}
  BY DEF CallsOK, Unused
<1>3. CallsOK'
  BY <1>1, <1>2 DEF CallsOK, is_mapped, Asleep
<1>4. OpsOK'
  BY <1>1 DEF OpsOK, HeldBy
<1>5. Alone'
  BY <1>1, <1>2 DEF Alone, is_mapped, FirstUse
<1>6. \A q \in Objects : q # o /\ Settled(q) => Settled(q)'
  BY <1>1 DEF Settled, is_mapped
<1>7. HeldOK'
  BY <1>1, <1>6, Types DEF HeldOK, Unused
<1>8. WaitsOK'
  BY <1>1, <1>6, WaitMutexes DEF WaitsOK, Unused, Asleep
<1>9. DeadlinesOK'
  BY <1>1 DEF DeadlinesOK
<1>10. QED
  BY <1>1, <1>3, <1>4, <1>5, <1>7, <1>8, <1>9

\* The same for what is said of each object.
LEMMA OtherObjects ==
    ASSUME IInv, NEW o \in program, OnlyObject(o), Unused(o),
           o \in ready' /\ is_mapped(o)' =>
                /\ page'[word'[o]].owner = None
                /\ IsMutex(o) => page'[word'[o]].count = 0 /\ page'[word'[o]].kind = Kind[o]
                /\ Kind[o] = "rwlock" => page'[word'[o]].count = 0,
           \A q \in program : q # o /\ Kind[q] = "sem" => sent'[q] = sent[q],
           Kind[o] = "sem" => sent'[o] = IF o \in ready' /\ is_mapped(o)' THEN page'[word'[o]].count ELSE 0
    PROVE  LocksOK' /\ KindKept' /\ SemsOK'
<1> USE DEF IInv
<1>1. /\ UNCHANGED <<pc, obj, program, held>>
      /\ \A q \in ready \ {o} : /\ q \in ready' /\ word'[q] = word[q]
                                /\ word[q] \in mapped' <=> word[q] \in mapped
                                /\ word[q] \in mapped => page'[word[q]] = page[word[q]]
      /\ ready' \subseteq ready \cup {o}
  BY DEF OnlyObject
<1>2. LocksOK'
  <2>1. \A q \in Objects : Readers(q)' = Readers(q)
    BY <1>1 DEF Readers
  <2>2. Readers(o) = {} /\ Cardinality({}) = 0
    BY FS_EmptySet DEF Readers, Unused
  <2>3. \A u \in Threads : <<u, o, "x">> \notin held /\ u # None
    BY Types DEF Unused
  <2>4. \A q \in ready \ {o} : word[q] \in mapped =>
          LET g == page[word[q]]
          IN  /\ IsMutex(q) \/ Kind[q] = "rwlock" =>
                    \A t \in Threads : g.owner = t <=> <<t, q, "x">> \in held
              /\ IsMutex(q) => (g.owner = None <=> g.count = 0)
              /\ Kind[q] = "rwlock" =>
                    g.count = Cardinality(Readers(q)) /\ (g.owner # None => g.count = 0)
    BY DEF LocksOK, is_mapped
  <2>5. o \in ready' /\ word'[o] \in mapped' =>
          LET g == page'[word'[o]]
          IN  /\ g.owner = None /\ \A t \in Threads : g.owner = t <=> <<t, o, "x">> \in held'
              /\ IsMutex(o) => (g.owner = None <=> g.count = 0)
              /\ Kind[o] = "rwlock" => g.count = Cardinality(Readers(o)')
    BY <1>1, <2>1, <2>2, <2>3, Types DEF is_mapped
  <2>6. \A q \in ready' \ {o} : q \in ready \ {o} /\ q \in Objects
    BY <1>1, Types
  <2>7. QED
    BY <1>1, <2>1, <2>4, <2>5, <2>6 DEF LocksOK, is_mapped
<1>3. KindKept'
  BY <1>1 DEF KindKept, is_mapped, Unused
<1>4. SemsOK'
  BY <1>1, Types DEF SemsOK, is_mapped
<1>5. QED
  BY <1>2, <1>3, <1>4

\* munmap, and the object is no longer initialized.
LEMMA RemovedStep ==
    ASSUME IInv, NEW o \in ready, Unused(o),
           IF is_mapped(o) THEN Unmap(o) ELSE UNCHANGED <<mapped, page>>,
           ready' = ready \ {o}, UNCHANGED <<word, atomic, aborted>>,
           sent' = [sent EXCEPT ![o] = 0] \/ (sent' = sent /\ Kind[o] # "sem")
    PROVE  IInv'
<1> USE DEF IInv
<1>0. o \in program /\ o \in Objects /\ Zero \in Glibc
  BY Types, PthreadAssumption DEF Zero, Initializer, Glibc, MutexKinds, Clocks
<1>1. UNCHANGED <<pc, obj, op, wait, now, program, held, aborted, word>>
  BY DEF atomic
<1>2. /\ mapped' = mapped \ {word[o]}
      /\ \A q \in Pages : q # word[o] => page'[q] = page[q]
      /\ page' \in [Pages -> Glibc]
  BY <1>0, Types DEF is_mapped, Unmap
<1>3. \A q \in Objects : q # o => sent'[q] = sent[q]
  BY Types
<1>4. Kind[o] = "sem" => sent'[o] = 0
  BY <1>0, Types
<1>5. \A q \in ready \ {o} : word[q] # word[o] \/ word[o] = Static
  BY DEF PagesOK
<1>6. OnlyObject(o)
  BY <1>1, <1>2, <1>5, Types DEF OnlyObject
<1>7. TypeOK'
  <2>1. sent' \in [Objects -> Nat]
    BY DEF TypeOK
  <2>2. QED
    BY <1>1, <1>2, <2>1 DEF TypeOK
<1>8. PagesOK'
  BY <1>1, <1>2, <1>5, Types DEF PagesOK, is_mapped
<1>9. LocksOK' /\ KindKept' /\ SemsOK'
  BY <1>0, <1>3, <1>4, <1>6, OtherObjects, Types
<1>10. QED
  BY <1>0, <1>6, <1>7, <1>8, <1>9, OnlyObjectStep

\* The *_destroy functions.
LEMMA DestroyStep ==
    ASSUME IInv, NEW t \in Threads, NEW o \in program, Destroy(t, o)
    PROVE  IInv'
<1>1. Unused(o)
  BY Types DEF IInv, Destroy, Users, Unused
<1>2. QED
  BY <1>1, RemovedStep DEF Destroy

\* The end of a cleanup record.
LEMMA CleanupPopStep ==
    ASSUME IInv, NEW t \in Threads, NEW o \in program, CleanupPop(t, o)
    PROVE  IInv'
<1>1. o \in ready /\ is_mapped(o) /\ Kind[o] = "cleanup" /\ ~IsLazy(o) /\ ~IsMutex(o) /\ o # None
  BY Types DEF IInv, CleanupPop, PagesOK, IsLazy, LazyKinds, MutexKinds, IsMutex
<1>2. Unused(o)
  <2>1. \A u \in Threads : obj[u] # o
    BY <1>1 DEF IInv, CallsOK
  <2>2. \A u \in Threads : wait[u].mutex # o
    BY <1>1 DEF IInv, WaitsOK
  <2>3. \A h \in held : h[2] # o
    BY <1>1 DEF IInv, HeldOK
  <2>4. QED
    BY <2>1, <2>2, <2>3 DEF Unused
<1>3. QED
  BY <1>1, <1>2, RemovedStep DEF CleanupPop

\* mmap, and the object is initialized.
LEMMA InitializedStep ==
    ASSUME IInv, NEW t \in Threads, NEW o \in program, NEW g \in Glibc, Initialized(t, o, g),
           g.owner = None, IsMutex(o) => g.kind = Kind[o] /\ g.count = 0,
           Kind[o] = "rwlock" => g.count = 0
    PROVE  IInv'
<1> USE DEF IInv
<1>0. o \in Objects /\ o \notin ready /\ Unused(o)
  BY Types, NotReadyUnused DEF Initialized
<1>1. PICK p \in Pages \ mapped : /\ mapped' = mapped \cup {p}
                                  /\ page' = [page EXCEPT ![p] = g]
                                  /\ word' = [word EXCEPT ![o] = p]
  BY DEF Initialized, MapAt
<1>2. /\ UNCHANGED <<pc, obj, op, wait, now, program, held, aborted>>
      /\ ready' = ready \cup {o}
      /\ \A q \in Objects : word'[q] = IF q = o THEN p ELSE word[q]
      /\ \A q \in Pages : page'[q] = IF q = p THEN g ELSE page[q]
      /\ \A q \in Objects : sent'[q] = IF q = o THEN g.count ELSE sent[q]
  BY <1>0, <1>1, Types DEF Initialized, atomic
<1>3. \A q \in ready : q \in Objects /\ q # o /\ word[q] # p
  BY <1>0, <1>1, Types DEF PagesOK, is_mapped
<1>4. OnlyObject(o)
  BY <1>1, <1>2, <1>3, Types DEF OnlyObject
<1>5. TypeOK'
  <2>1. sent' \in [Objects -> Nat]
    BY DEF TypeOK, Initialized, Glibc
  <2>2. word' \in [Objects -> {Static} \cup Pages] /\ page' \in [Pages -> Glibc] /\ mapped' \subseteq Pages
    BY <1>0, <1>1, Types
  <2>3. QED
    BY <1>2, <2>1, <2>2 DEF TypeOK
<1>6. PagesOK'
  BY <1>0, <1>1, <1>2, <1>3, Types DEF PagesOK, is_mapped
<1>7. LocksOK' /\ KindKept' /\ SemsOK'
  <2>1. word'[o] = p /\ page'[p] = g /\ is_mapped(o)' /\ o \in ready' /\ sent'[o] = g.count
    BY <1>0, <1>1, <1>2 DEF is_mapped
  <2>2. \A q \in program : q # o /\ Kind[q] = "sem" => sent'[q] = sent[q]
    BY <1>2, Types
  <2>3. QED
    BY <1>0, <1>4, <2>1, <2>2, OtherObjects
<1>8. QED
  BY <1>0, <1>4, <1>5, <1>6, <1>7, OnlyObjectStep

\* The application stores the static initializer.
LEMMA AssignStaticStep ==
    ASSUME IInv, NEW t \in Threads, NEW o \in program, AssignStatic(t, o)
    PROVE  IInv'
<1> USE DEF IInv
<1>0. o \in Objects /\ o \notin ready /\ Unused(o) /\ IsLazy(o) /\ Static \notin mapped
  BY Types, NotReadyUnused DEF AssignStatic
<1>1. /\ UNCHANGED <<pc, obj, op, wait, now, program, held, aborted, mapped, page, sent>>
      /\ ready' = ready \cup {o}
      /\ \A q \in Objects : word'[q] = IF q = o THEN Static ELSE word[q]
  BY <1>0, Types DEF AssignStatic, atomic
<1>2. \A q \in ready : q \in Objects /\ q # o
  BY <1>0, Types
<1>3. OnlyObject(o)
  BY <1>1, <1>2 DEF OnlyObject
<1>4. TypeOK'
  BY <1>1 DEF TypeOK, AssignStatic
<1>5. PagesOK'
  BY <1>0, <1>1, <1>2 DEF PagesOK, is_mapped
<1>6. LocksOK' /\ KindKept' /\ SemsOK'
  <2>1. ~is_mapped(o)'
    BY <1>0, <1>1 DEF is_mapped
  <2>2. Kind[o] = "sem" => sent'[o] = 0
    BY <1>0, <1>1 DEF SemsOK
  <2>3. \A q \in program : q # o /\ Kind[q] = "sem" => sent'[q] = sent[q]
    BY <1>1
  <2>4. QED
    BY <1>0, <1>3, <2>1, <2>2, <2>3, OtherObjects
<1>7. QED
  BY <1>0, <1>3, <1>4, <1>5, <1>6, OnlyObjectStep

\* A setter stores into the page of an attribute.
LEMMA UseStep ==
    ASSUME IInv, NEW t \in Threads, NEW o \in program, NEW gs \in SUBSET Glibc, Use(t, o, gs),
           Kind[o] \in {"attr", "mutexattr", "condattr"}
    PROVE  IInv'
<1> USE DEF IInv
<1>0. o \in Objects /\ o \in ready /\ ~IsLazy(o) /\ ~IsMutex(o) /\ o # None /\ Kind[o] # "rwlock" /\ Kind[o] # "sem"
  BY Types DEF Use, IsLazy, LazyKinds, MutexKinds, IsMutex
<1>1. is_mapped(o)
  BY <1>0 DEF PagesOK
<1>2. PICK g \in Glibc : page' = [page EXCEPT ![word[o]] = g]
  BY <1>1 DEF Use
<1>3. UNCHANGED <<pc, obj, op, wait, now, program, held, aborted, word, mapped, ready, sent>>
  BY <1>1 DEF Use, atomic
<1>4. \A q \in ready : q # o /\ word[q] \in mapped => page'[word[q]] = page[word[q]]
  BY <1>0, <1>1, <1>2, <1>3, WriteOthers
<1>5. /\ \A u \in Threads : obj[u] # o /\ wait[u].mutex # o
      /\ \A h \in held : h[2] # o
  <2>1. \A u \in Threads : obj[u] # o
    BY <1>0 DEF CallsOK
  <2>2. \A u \in Threads : wait[u].mutex # o
    BY <1>0 DEF WaitsOK
  <2>3. \A h \in held : h[2] # o
    BY <1>0 DEF HeldOK
  <2>4. QED
    BY <2>1, <2>2, <2>3
<1>6. TypeOK'
  <2>1. page' \in [Pages -> Glibc]
    BY <1>0, <1>1, <1>2, Types DEF is_mapped
  <2>2. QED
    BY <1>3, <2>1 DEF TypeOK
<1>7. CallsOK'
  BY <1>3, <1>4, <1>5 DEF CallsOK, is_mapped
<1>8. OpsOK' /\ Alone' /\ HeldOK' /\ WaitsOK' /\ DeadlinesOK' /\ PagesOK'
  BY <1>3 DEF OpsOK, Alone, HeldOK, WaitsOK, Settled, is_mapped, HeldBy, DeadlinesOK, PagesOK
<1>9. LocksOK'
  <2>1. \A q \in Objects : Readers(q)' = Readers(q)
    BY <1>3 DEF Readers
  <2>2. QED
    BY <1>0, <1>3, <1>4, <2>1, Types DEF LocksOK, is_mapped
<1>10. KindKept'
  BY <1>0, <1>3, <1>4 DEF KindKept, is_mapped
<1>11. SemsOK'
  BY <1>0, <1>3, <1>4 DEF SemsOK, is_mapped
<1>12. QED
  BY <1>3, <1>6, <1>7, <1>8, <1>9, <1>10, <1>11

\* What the *_init functions store.
LEMMA InitSteps ==
    ASSUME IInv, NEW t \in Threads, NEW o \in program,
           \/ MutexInit(t, o) \/ CondInit(t, o) \/ SemInit(t, o) \/ RwlockInit(t, o)
           \/ AttrInit(t, o) \/ MutexattrInit(t, o) \/ CondattrInit(t, o) \/ CleanupPush(t, o)
    PROVE  IInv'
<1>1. Zero \in Glibc /\ Zero.owner = None /\ Zero.count = 0 /\ Zero.kind = "normal"
  BY PthreadAssumption DEF Zero, Initializer, Glibc, MutexKinds, Clocks
<1>2. \A k \in MutexKinds : LET z == Initializer(k)
                            IN  z \in Glibc /\ z.owner = None /\ z.count = 0 /\ z.kind = k
  BY PthreadAssumption DEF Initializer, Glibc, MutexKinds, Clocks
<1>3. /\ \A c \in Clocks : [Zero EXCEPT !.clock = c] \in Glibc /\ [Zero EXCEPT !.clock = c].owner = None
      /\ \A n \in Nat : [Zero EXCEPT !.count = n] \in Glibc /\ [Zero EXCEPT !.count = n].owner = None
  BY <1>1 DEF Glibc
<1>4. \A a \in ready : is_mapped(a) => page[word[a]] \in Glibc
  BY Types DEF IInv, is_mapped
<1>5. CASE MutexInit(t, o)
  <2>1. CASE Kind[o] = "normal" /\ Initialized(t, o, Zero)
    BY <1>1, <2>1, InitializedStep
  <2>2. ASSUME NEW a \in Of("mutexattr") \cap ready,
               is_mapped(a), page[word[a]].kind = Kind[o], Initialized(t, o, Initializer(page[word[a]].kind))
        PROVE  IInv'
    <3>1. Kind[o] \in MutexKinds /\ Initialized(t, o, Initializer(Kind[o]))
      BY <1>5, <2>2 DEF MutexInit, IsMutex
    <3>2. QED
      BY <1>2, <3>1, InitializedStep
  <2>3. QED
    BY <1>5, <2>1, <2>2 DEF MutexInit
<1>6. CASE CondInit(t, o)
  <2>1. ~IsMutex(o) /\ Kind[o] # "rwlock"
    BY <1>6, MutexNoSem DEF CondInit
  <2>2. CASE Initialized(t, o, Zero)
    BY <1>1, <2>1, <2>2, InitializedStep
  <2>3. ASSUME NEW a \in Of("condattr") \cap ready, Initialized(t, o, [Zero EXCEPT !.clock = page[word[a]].clock])
        PROVE  IInv'
    <3>1. Kind[a] = "condattr" /\ ~IsLazy(a) /\ is_mapped(a)
      BY <2>3 DEF Of, IsLazy, LazyKinds, MutexKinds, IInv, PagesOK
    <3>2. page[word[a]].clock \in Clocks
      BY <1>4, <2>3, <3>1 DEF Glibc
    <3>3. PICK g \in Glibc : g = [Zero EXCEPT !.clock = page[word[a]].clock] /\ g.owner = None
      BY <1>3, <3>2
    <3>4. QED
      BY <2>1, <2>3, <3>3, InitializedStep
  <2>4. QED
    BY <1>6, <2>2, <2>3 DEF CondInit
<1>7. CASE SemInit(t, o)
  <2>1. ~IsMutex(o) /\ Kind[o] # "rwlock"
    BY <1>7, MutexNoSem DEF SemInit
  <2>2. PICK n \in Nat : Initialized(t, o, [Zero EXCEPT !.count = n])
    BY <1>7 DEF SemInit
  <2>3. PICK g \in Glibc : g = [Zero EXCEPT !.count = n] /\ g.owner = None
    BY <1>3
  <2>4. QED
    BY <2>1, <2>2, <2>3, InitializedStep
<1>8. CASE RwlockInit(t, o) \/ AttrInit(t, o) \/ MutexattrInit(t, o) \/ CondattrInit(t, o) \/ CleanupPush(t, o)
  <2>1. ~IsMutex(o) /\ Initialized(t, o, Zero)
    BY <1>8 DEF RwlockInit, AttrInit, MutexattrInit, CondattrInit, CleanupPush, IsMutex, MutexKinds
  <2>2. QED
    BY <1>1, <2>1, InitializedStep
<1>9. QED
  BY <1>5, <1>6, <1>7, <1>8

\* What the setters store.
LEMMA UseSteps ==
    ASSUME IInv, NEW t \in Threads, NEW o \in program,
           AttrUse(t, o) \/ MutexattrSettype(t, o) \/ CondattrSetclock(t, o)
    PROVE  IInv'
<1>1. Zero \in Glibc
  BY PthreadAssumption DEF Zero, Initializer, Glibc, MutexKinds, Clocks
<1>2. /\ {[Zero EXCEPT !.count = v] : v \in 0 .. 1} \subseteq Glibc
      /\ {[Zero EXCEPT !.kind = k] : k \in MutexKinds} \subseteq Glibc
      /\ {[Zero EXCEPT !.clock = c] : c \in Clocks} \subseteq Glibc
  BY <1>1 DEF Glibc
<1>3. PICK gs \in SUBSET Glibc : Use(t, o, gs) /\ Kind[o] \in {"attr", "mutexattr", "condattr"}
  BY <1>2 DEF AttrUse, MutexattrSettype, CondattrSetclock
<1>4. QED
  BY <1>3, UseStep

\* The invariant holds at the start.
LEMMA InvInit ==
    ASSUME Init, ~RacyFirstUse
    PROVE  IInv
<1>1. Zero \in Glibc /\ Zero.owner = None /\ Zero.count = 0
  BY PthreadAssumption DEF Zero, Initializer, Glibc, MutexKinds, Clocks
<1>2. NoWait \in Waits /\ NoWait.mutex = None /\ NoWait.deadline = <<0, 0>> /\ NoWait.due = 0 /\ ~NoWait.out
  BY DEF NoWait, Waits
<1>3. TypeOK
  <2>1. /\ word \in [Objects -> {Static} \cup Pages] /\ mapped \subseteq Pages
        /\ page \in [Pages -> Glibc] /\ wait \in [Threads -> Waits]
    BY <1>1, <1>2 DEF Init
  <2>2. /\ pc \in [Threads -> {"out", "check", "match", "map", "copy", "call", "waiting", "woken", "einval"}]
        /\ obj \in [Threads -> Objects \cup {None}]
        /\ op \in [Threads -> Calls \cup {"cond_wait", "none"}]
    BY DEF Init
  <2>3. now \in 0 .. MaxNow /\ sent \in [Objects -> Nat]
    BY PthreadAssumption DEF Init
  <2>4. /\ program \in Programs /\ aborted \in BOOLEAN
        /\ ready \subseteq program /\ held \subseteq Threads \X program \X {"x", "r"}
    BY DEF Init
  <2>5. QED
    BY <2>1, <2>2, <2>3, <2>4 DEF TypeOK
<1>4. CallsOK
  BY DEF Init, CallsOK, Asleep
<1>5. OpsOK /\ Alone /\ HeldOK
  BY DEF Init, OpsOK, Alone, HeldOK
<1>6. WaitsOK
  BY <1>2 DEF Init, WaitsOK
<1>7. DeadlinesOK
  BY <1>2, PthreadAssumption DEF Init, DeadlinesOK
<1>8. PagesOK
  BY <1>3, Types DEF Init, PagesOK, is_mapped
<1>9. LocksOK /\ KindKept /\ SemsOK
  BY <1>3, Types DEF Init, LocksOK, KindKept, SemsOK, is_mapped
<1>10. QED
  BY <1>3, <1>4, <1>5, <1>6, <1>7, <1>8, <1>9 DEF IInv, Init

\* A step that changes nothing.
LEMMA InvStutter ==
    ASSUME IInv, UNCHANGED vars
    PROVE  IInv'
<1> USE DEF IInv
<1>1. UNCHANGED <<program, word, mapped, page, pc, obj, op, wait, now, ready, held, sent, aborted>>
  BY DEF vars, objVars, histVars
<1>2. TypeOK' /\ CallsOK' /\ OpsOK' /\ Alone' /\ HeldOK' /\ WaitsOK' /\ DeadlinesOK' /\ KindKept'
  BY <1>1 DEF TypeOK, CallsOK, OpsOK, Alone, HeldOK, WaitsOK, DeadlinesOK, KindKept, Settled, is_mapped, HeldBy
<1>3. PagesOK' /\ LocksOK' /\ SemsOK'
  BY <1>1, ObjectsKept
<1>4. QED
  BY <1>1, <1>2, <1>3

\* Every step keeps the invariant.
LEMMA InvStep ==
    ASSUME IInv, [Next]_vars
    PROVE  IInv'
<1>1. CASE Tick
  BY <1>1, TickStep
<1>2. ASSUME NEW t \in Threads,
             \/ Check(t) \/ Match(t) \/ Map(t) \/ Copy(t)
             \/ Lock(t) \/ Busy(t) \/ RdLock(t) \/ WrLock(t) \/ SemPost(t) \/ SemWait(t) \/ SemNone(t)
             \/ Sleep(t) \/ CondSignal(t) \/ CondBroadcast(t) \/ Timeout(t) \/ Rewake(t)
      PROVE  IInv'
  BY <1>2, CheckStep, MatchStep, MapStep, CopyStep, LockStep, NothingStep, RdLockStep, WrLockStep,
     SemPostStep, SemWaitStep, SleepStep, SignalStep, TimeoutStep, RewakeStep
<1>3. ASSUME NEW t \in Threads, NEW o \in program,
             \/ \E c \in Calls : Call(t, o, c)
             \/ \E m \in program : CondWait(t, o, m)
             \/ MutexUnlock(t, o) \/ RwlockUnlock(t, o) \/ AssignStatic(t, o)
             \/ SemDestroy(t, o) \/ RwlockDestroy(t, o) \/ MutexDestroy(t, o) \/ CondDestroy(t, o)
             \/ AttrDestroy(t, o) \/ MutexattrDestroy(t, o) \/ CondattrDestroy(t, o)
             \/ MutexInit(t, o) \/ CondInit(t, o) \/ SemInit(t, o) \/ RwlockInit(t, o)
             \/ AttrInit(t, o) \/ MutexattrInit(t, o) \/ CondattrInit(t, o)
             \/ AttrUse(t, o) \/ MutexattrSettype(t, o) \/ CondattrSetclock(t, o)
             \/ CleanupPush(t, o) \/ CleanupPop(t, o)
      PROVE  IInv'
  <2>1. CASE (\E c \in Calls : Call(t, o, c)) \/ (\E m \in program : CondWait(t, o, m))
    BY <2>1, CallStep, CondWaitStep
  <2>2. CASE MutexUnlock(t, o) \/ RwlockUnlock(t, o) \/ AssignStatic(t, o) \/ CleanupPop(t, o)
    BY <2>2, MutexUnlockStep, RwlockUnlockStep, AssignStaticStep, CleanupPopStep
  <2>3. CASE Destroy(t, o)
    BY <2>3, DestroyStep
  <2>4. CASE \/ MutexInit(t, o) \/ CondInit(t, o) \/ SemInit(t, o) \/ RwlockInit(t, o)
             \/ AttrInit(t, o) \/ MutexattrInit(t, o) \/ CondattrInit(t, o) \/ CleanupPush(t, o)
    BY <2>4, InitSteps
  <2>5. CASE AttrUse(t, o) \/ MutexattrSettype(t, o) \/ CondattrSetclock(t, o)
    BY <2>5, UseSteps
  <2>6. QED
    BY <1>3, <2>1, <2>2, <2>3, <2>4, <2>5
       DEF SemDestroy, RwlockDestroy, AttrDestroy, MutexattrDestroy, MutexDestroy, CondattrDestroy, CondDestroy
<1>4. CASE UNCHANGED vars
  BY <1>4, InvStutter
<1>5. QED
  BY <1>1, <1>2, <1>3, <1>4 DEF Next

\* The inductive invariant, when first uses do not overlap.
LEMMA InvAlways == Spec /\ ~RacyFirstUse => []IInv
<1>1. Init /\ ~RacyFirstUse => IInv
  BY InvInit
<1>2. IInv /\ [Next]_vars => IInv'
  BY InvStep
<1>3. QED
  BY <1>1, <1>2, PTL DEF Spec

-----------------------------------------------------------------------------
\* Every variable of the wrapper keeps its type: a word is the initializer or
\* the address of a page, a page holds a glibc object.
THEOREM TypeCorrect == Spec /\ ~RacyFirstUse => []TypeOK
<1>1. IInv => TypeOK
  BY DEF IInv
<1>2. QED
  BY <1>1, InvAlways, PTL

\* Mutexes and rwlocks of the application exclude, whatever threads there
\* are: from lock to unlock, and around a condition wait, each stands for one
\* glibc object that INIT_IF_NOT_MAPPED does not fill in again.
THEOREM Exclusion == Spec /\ ~RacyFirstUse => []MutualExclusion
<1>1. IInv => MutualExclusion
  <2> SUFFICES ASSUME IInv, NEW h \in held, NEW k \in held, h[2] = k[2], h[1] # k[1]
               PROVE  h[3] = "r" /\ k[3] = "r"
    BY DEF MutualExclusion
  <2> USE DEF IInv
  <2>1. PICK o \in Objects : /\ o = h[2] /\ o = k[2] /\ o \in ready /\ is_mapped(o)
                             /\ Kind[o] = "rwlock" \/ (IsMutex(o) /\ h[3] = "x" /\ k[3] = "x")
    BY Types DEF HeldOK, Settled
  <2>2. PICK g : g = page[word[o]]
    OBVIOUS
  <2>3. \A t \in Threads : g.owner = t <=> <<t, o, "x">> \in held
    BY <2>1, <2>2 DEF LocksOK
  <2>4. /\ h[1] \in Threads /\ k[1] \in Threads /\ h = <<h[1], o, h[3]>> /\ k = <<k[1], o, k[3]>>
        /\ h[3] \in {"x", "r"} /\ k[3] \in {"x", "r"}
    BY <2>1, Types DEF TypeOK
  <2>5. ~(h[3] = "x" /\ k[3] = "x")
    BY <2>3, <2>4
  <2>6. ASSUME NEW a \in held, NEW b \in held, a = <<a[1], o, "x">>, b = <<b[1], o, "r">>,
               a[1] \in Threads, b[1] \in Threads, Kind[o] = "rwlock"
        PROVE  FALSE
    <3>1. g.owner # None /\ Cardinality(Readers(o)) = 0
      BY <2>1, <2>2, <2>3, <2>6, Types DEF LocksOK
    <3>2. b[1] \in Readers(o)
      BY <2>6 DEF Readers
    <3>3. QED
      BY <3>1, <3>2, ReadersFinite, FS_EmptySet
  <2>7. QED
    BY <2>1, <2>4, <2>5, <2>6
<1>2. QED
  BY <1>1, InvAlways, PTL

\* Every mapped page belongs to exactly one live object, also when mmap hands
\* out again the page a destroyed object still points to: no *_destroy
\* leaks, and none unmaps the page of another object.
THEOREM PageOwnership == Spec /\ ~RacyFirstUse => []PagesOwned
<1>1. IInv => PagesOwned
  <2> SUFFICES ASSUME IInv PROVE PagesOwned
    OBVIOUS
  <2>1. mapped = {word[o] : o \in {o \in ready : word[o] # Static}}
    BY Types DEF IInv, PagesOK, is_mapped
  <2>2. QED
    BY <2>1 DEF IInv, PagesOK, PagesOwned
<1>2. QED
  BY <1>1, InvAlways, PTL

\* Past its first use a mutex has the kind its initializer or its attribute
\* said, the row of bionic_mutex_init_map that matched.
THEOREM KindIsKept == Spec /\ ~RacyFirstUse => []KindKept
<1>1. IInv => KindKept
  BY DEF IInv
<1>2. QED
  BY <1>1, InvAlways, PTL

\* A sleeper waits at the page that signals go to, and a semaphore counts
\* every post and wait since it was initialized, for any number of threads.
THEOREM NoLostWakeup == Spec /\ ~RacyFirstUse => []NothingLost
<1>1. IInv => NothingLost
  BY DEF IInv, NothingLost, CallsOK, SemsOK, Of, is_mapped
<1>2. QED
  BY <1>1, InvAlways, PTL

\* For any clock readings, epoch and times, the carry of tv_nsec in
\* bionic_pthread_cond_timedwait_relative_np gives glibc a valid deadline
\* that is not before the time asked for.
THEOREM NoEarlyTimeout == Spec /\ ~RacyFirstUse => []TimeoutNotEarly
<1>1. IInv => TimeoutNotEarly
  BY DEF IInv, TimeoutNotEarly, CallsOK, DeadlinesOK
<1>2. QED
  BY <1>1, InvAlways, PTL

\* While no two threads are in the first use of one object, the assertion of
\* default_pthread_mutex_init and those of the attribute and cleanup calls
\* do not fail.
THEOREM AssertionsHold == Spec /\ ~RacyFirstUse => []InitializerKnown
<1>1. IInv => InitializerKnown
  BY DEF IInv, InitializerKnown
<1>2. QED
  BY <1>1, InvAlways, PTL
==============================================================================
