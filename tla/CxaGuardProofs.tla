--------------------------- MODULE CxaGuardProofs ---------------------------
(***************************************************************************)
(* CxaGuard for any set of threads: the type invariant, one constructor at *)
(* a time, no lost wake-up, and the refinement of OnceInit.                *)
(***************************************************************************)
EXTENDS CxaGuard, TLAPS

\* A thread that has seen COMPLETE, or is past the guard, finds it COMPLETE.
SeenComplete ==
    \A t \in Threads :
        \/ pc[t] = "loop" /\ old_value[t] = COMPLETE
        \/ pc[t] \in {"use", "release_wake"}
        => state = COMPLETE

IInv == TypeOK /\ OneConstructor /\ NoLostWakeup /\ SeenComplete

\* The four states of __cxa_guard.cpp are different integers, and only
\* COMPLETE shows in the byte the compiler tests.
LEMMA StateValues ==
    /\ COMPLETE # NOT_YET_STARTED
    /\ UNDERWAY_WITHOUT_WAITER \notin {NOT_YET_STARTED, COMPLETE}
    /\ UNDERWAY_WITH_WAITER \notin {NOT_YET_STARTED, COMPLETE, UNDERWAY_WITHOUT_WAITER}
    /\ \A v \in States : first_byte(v) # 0 <=> v = COMPLETE
  BY DEF COMPLETE, NOT_YET_STARTED, UNDERWAY_WITHOUT_WAITER, UNDERWAY_WITH_WAITER,
         States, first_byte

\* Type correctness of the guard, the locals and the locations.
LEMMA TypeStep == TypeOK /\ [Next]_vars => TypeOK'
<1> SUFFICES ASSUME TypeOK, [Next]_vars PROVE TypeOK'
  OBVIOUS
<1> USE DEF TypeOK, States, Locations, Goto
<1>1. CASE UNCHANGED vars
  BY <1>1 DEF vars
<1>2. ASSUME NEW t \in Threads, Declaration(t) PROVE TypeOK'
  BY <1>2 DEF Declaration
<1>3. ASSUME NEW t \in Threads, Load(t) PROVE TypeOK'
  BY <1>3 DEF Load
<1>4. ASSUME NEW t \in Threads, Acquire(t) PROVE TypeOK'
  BY <1>4 DEF Acquire, AcquireComplete, AcquireFirst, AcquireWaiter,
              AcquireAlreadyMarked, Cas
<1>5. ASSUME NEW t \in Threads, FutexWait(t) \/ FutexInterrupted(t) \/ Leave(t)
      PROVE TypeOK'
  BY <1>5 DEF FutexWait, FutexInterrupted, Leave
<1>6. ASSUME NEW t \in Threads, Release(t) \/ Abort(t) PROVE TypeOK'
  BY <1>6, MaxAbortsAssumption DEF Release, Abort, Exchange
<1>7. ASSUME NEW t \in Threads, Wake(t) PROVE TypeOK'
  BY <1>7 DEF Wake
<1>8. QED
  BY <1>1, <1>2, <1>3, <1>4, <1>5, <1>6, <1>7 DEF Next, Progress

\* The invariants that relate the guard to where the threads are.
LEMMA InvStep == IInv /\ [Next]_vars => IInv'
<1> SUFFICES ASSUME IInv, [Next]_vars PROVE IInv'
  OBVIOUS
<1>0. TypeOK /\ TypeOK'
  BY TypeStep DEF IInv
<1> USE <1>0, StateValues DEF IInv, OneConstructor, NoLostWakeup, SeenComplete,
                              Constructing, Underway, TypeOK, Goto
<1> DEFINE Rest == OneConstructor /\ NoLostWakeup /\ SeenComplete
<1>1. CASE UNCHANGED vars
  BY <1>1 DEF vars
<1>2. ASSUME NEW t \in Threads, Declaration(t) PROVE Rest'
  BY <1>2 DEF Declaration
<1>3. ASSUME NEW t \in Threads, Load(t) PROVE Rest'
  BY <1>3 DEF Load
<1>4. ASSUME NEW t \in Threads, Acquire(t) PROVE Rest'
  <2>1. CASE AcquireComplete(t)
    BY <2>1 DEF AcquireComplete
  <2>2. CASE AcquireFirst(t)
    BY <2>2 DEF AcquireFirst, Cas
  <2>3. CASE AcquireWaiter(t)
    BY <2>3 DEF AcquireWaiter, Cas
  <2>4. CASE AcquireAlreadyMarked(t)
    BY <2>4 DEF AcquireAlreadyMarked
  <2>5. QED
    BY <1>4, <2>1, <2>2, <2>3, <2>4 DEF Acquire
<1>5. ASSUME NEW t \in Threads, FutexWait(t) \/ FutexInterrupted(t) \/ Leave(t)
      PROVE Rest'
  BY <1>5 DEF FutexWait, FutexInterrupted, Leave
<1>6. ASSUME NEW t \in Threads, Release(t) \/ Abort(t) PROVE Rest'
  BY <1>6 DEF Release, Abort, Exchange
<1>7. ASSUME NEW t \in Threads, Wake(t) PROVE Rest'
  BY <1>7 DEF Wake
<1>8. QED
  BY <1>1, <1>2, <1>3, <1>4, <1>5, <1>6, <1>7 DEF Next, Progress

LEMMA InvInit == Init => IInv
  BY StateValues, MaxAbortsAssumption
  DEF Init, IInv, TypeOK, OneConstructor, NoLostWakeup, SeenComplete,
      Constructing, Underway, States, Locations

LEMMA InvAlways == Spec => []IInv
  BY InvInit, InvStep, PTL DEF Spec

\* For any number of threads, the guard takes only its four states and the
\* threads stay in the code.
THEOREM TypeCorrect == Spec => []TypeOK
  BY InvAlways, PTL DEF IInv

\* __cxa_guard_acquire tells one thread at a time to construct.
THEOREM ConstructorsExclude == Spec => []OneConstructor
  BY InvAlways, PTL DEF IInv

\* No wake-up of __cxa_guard_release or __cxa_guard_abort is lost.
THEOREM WakeupsKept == Spec => []NoLostWakeup
  BY InvAlways, PTL DEF IInv

\* Every step of the guard is a step of one-time construction, or none.
LEMMA OnceStep == IInv /\ [Next]_vars => [Once!Next]_(Once!vars)
<1> SUFFICES ASSUME IInv, [Next]_vars PROVE [Once!Next]_(Once!vars)
  OBVIOUS
<1> USE StateValues DEF IInv, TypeOK, Locations, Goto, Underway, Status, PhaseAt, Once!vars
<1>1. CASE UNCHANGED vars
  BY <1>1 DEF vars
<1>2. ASSUME NEW t \in Threads, Declaration(t)
      PROVE Once!Enter(t) \/ Once!Pass(t)
  BY <1>2 DEF Declaration, Once!Enter, Once!Pass
<1>3. ASSUME NEW t \in Threads, Load(t) \/ FutexWait(t) \/ FutexInterrupted(t) \/ Wake(t)
      PROVE UNCHANGED Once!vars
  BY <1>3 DEF Load, FutexWait, FutexInterrupted, Wake
<1>4. ASSUME NEW t \in Threads, Acquire(t)
      PROVE Once!Begin(t) \/ Once!Pass(t) \/ UNCHANGED Once!vars
  <2>1. CASE AcquireComplete(t)
    BY <2>1 DEF AcquireComplete, SeenComplete, Once!Pass
  <2>2. CASE AcquireFirst(t)
    BY <2>2 DEF AcquireFirst, Cas, Once!Begin
  <2>3. CASE AcquireWaiter(t) \/ AcquireAlreadyMarked(t)
    BY <2>3 DEF AcquireWaiter, AcquireAlreadyMarked, Cas
  <2>4. QED
    BY <1>4, <2>1, <2>2, <2>3 DEF Acquire
<1>5. ASSUME NEW t \in Threads, Release(t) PROVE Once!Finish(t)
  BY <1>5 DEF Release, Exchange, Once!Finish
<1>6. ASSUME NEW t \in Threads, Abort(t) PROVE Once!Throw(t)
  BY <1>6 DEF Abort, Exchange, Once!Throw
<1>7. ASSUME NEW t \in Threads, Leave(t) PROVE Once!Leave(t)
  BY <1>7 DEF Leave, Once!Leave
<1>8. QED
  BY <1>1, <1>2, <1>3, <1>4, <1>5, <1>6, <1>7 DEF Next, Progress, Once!Next

LEMMA OnceInitially == Init => Once!Init
  BY StateValues DEF Init, Once!Init, Underway, Status, PhaseAt

\* The guard implements one-time construction for any number of threads.
THEOREM GuardImplementsOnce == Spec => ImplementsOnce
  BY InvAlways, OnceInitially, OnceStep, PTL DEF Spec, ImplementsOnce, Once!Spec
=============================================================================
