------------------------------ MODULE CxaGuard ------------------------------
(***************************************************************************)
(* One-time construction: __cxa_guard_acquire, __cxa_guard_release and     *)
(* __cxa_guard_abort of libstdc++_standalone/__cxa_guard.cpp over one      *)
(* guard variable and the futex of bionic_futex.h.                         *)
(*                                                                         *)
(* Each atomic access is one step.  The comparisons with old_value are     *)
(* local, so the loop's test and the compare-and-swap it selects form one  *)
(* step; a spurious failure of the weak compare-and-swap leaves old_value  *)
(* and the guard as they are and is a stuttering step.                     *)
(***************************************************************************)
EXTENDS Integers, FiniteSets

CONSTANTS
    Threads,    \* threads that reach the declaration of the static object
    MaxAborts   \* bound: constructions that end in an exception

ASSUME MaxAbortsAssumption == MaxAborts \in Nat

NOT_YET_STARTED         == 0
COMPLETE                == 1
\* Mutant of UNDERWAY_WITHOUT_WAITER: the state shows in the first byte.
UNDERWAY_IN_FIRST_BYTE  == 257
UNDERWAY_WITHOUT_WAITER == 256
UNDERWAY_WITH_WAITER    == 512

VARIABLES
    state,      \* gv->state
    old_value,  \* thread -> its local old_value
    pc,         \* thread -> where it is
    aborts      \* constructions that have thrown so far

vars == <<state, old_value, pc, aborts>>

States == {NOT_YET_STARTED, COMPLETE, UNDERWAY_WITHOUT_WAITER, UNDERWAY_WITH_WAITER}

Locations ==
    {"out",        \* not at the guard
     "load",       \* about to load the guard
     "loop",       \* old_value is loaded, top of the while loop
     "wait",       \* about to call __futex_wait_ex
     "asleep",     \* in the futex's queue
     "construct",  \* acquire has returned 1, the constructor runs
     "release_wake",  \* release has exchanged the guard and is to wake
     "abort_wake",    \* abort has exchanged the guard and is to wake
     "use"}        \* past the guard, using the object

TypeOK ==
    /\ state \in States
    /\ old_value \in [Threads -> States]
    /\ pc \in [Threads -> Locations]
    /\ aborts \in 0..MaxAborts

Init ==
    /\ state = NOT_YET_STARTED
    /\ old_value = [t \in Threads |-> NOT_YET_STARTED]
    /\ pc = [t \in Threads |-> "out"]
    /\ aborts = 0

Goto(t, l) == pc' = [pc EXCEPT ![t] = l]

\* The compiler's own test at the declaration: acquire is called when the
\* first byte of the guard is zero, otherwise the object is used at once.
first_byte(v) == v % 256

Declaration(t) ==
    /\ pc[t] = "out"
    /\ Goto(t, IF first_byte(state) = 0 THEN "load" ELSE "use")
    /\ UNCHANGED <<state, old_value, aborts>>

Load(t) ==
    /\ pc[t] = "load"
    /\ old_value' = [old_value EXCEPT ![t] = state]
    /\ Goto(t, "loop")
    /\ UNCHANGED <<state, aborts>>

\* Mutant of Cas: a store without the comparison.
StoreUnchecked(t, new, success) ==
    state' = new /\ Goto(t, success) /\ UNCHANGED old_value

\* atomic_compare_exchange_weak_explicit with old_value as the expected value.
Cas(t, new, success) ==
    IF state = old_value[t]
    THEN state' = new /\ Goto(t, success) /\ UNCHANGED old_value
    ELSE old_value' = [old_value EXCEPT ![t] = state] /\ UNCHANGED <<state, pc>>

AcquireComplete(t) ==
    /\ pc[t] = "loop" /\ old_value[t] = COMPLETE
    /\ Goto(t, "use")
    /\ UNCHANGED <<state, old_value, aborts>>

AcquireFirst(t) ==
    /\ pc[t] = "loop" /\ old_value[t] = NOT_YET_STARTED
    /\ Cas(t, UNDERWAY_WITHOUT_WAITER, "construct")
    /\ UNCHANGED aborts

\* Mutant of AcquireWaiter: the guard is not marked before waiting.
AcquireUnmarked(t) ==
    /\ pc[t] = "loop" /\ old_value[t] = UNDERWAY_WITHOUT_WAITER
    /\ Goto(t, "asleep")
    /\ UNCHANGED <<state, old_value, aborts>>

\* Mutant of AcquireWaiter: the waiter's bit is added to the state.
AcquireOrsWaiter(t) ==
    /\ pc[t] = "loop" /\ old_value[t] = UNDERWAY_WITHOUT_WAITER
    /\ Cas(t, UNDERWAY_WITHOUT_WAITER + UNDERWAY_WITH_WAITER, "wait")
    /\ UNCHANGED aborts

AcquireWaiter(t) ==
    /\ pc[t] = "loop" /\ old_value[t] = UNDERWAY_WITHOUT_WAITER
    /\ Cas(t, UNDERWAY_WITH_WAITER, "wait")
    /\ UNCHANGED aborts

AcquireAlreadyMarked(t) ==
    /\ pc[t] = "loop" /\ old_value[t] = UNDERWAY_WITH_WAITER
    /\ Goto(t, "wait")
    /\ UNCHANGED <<state, old_value, aborts>>

\* Mutant of FutexWait: the wait does not compare the guard before sleeping.
FutexWaitBlind(t) ==
    /\ pc[t] = "wait"
    /\ Goto(t, "asleep")
    /\ UNCHANGED <<state, old_value, aborts>>

\* __futex_wait_ex: the kernel compares and enqueues in one step.
FutexWait(t) ==
    /\ pc[t] = "wait"
    /\ Goto(t, IF state = UNDERWAY_WITH_WAITER THEN "asleep" ELSE "load")
    /\ UNCHANGED <<state, old_value, aborts>>

\* A signal ends the wait; acquire ignores the error and loads again.
FutexInterrupted(t) ==
    /\ pc[t] = "asleep"
    /\ Goto(t, "load")
    /\ UNCHANGED <<state, old_value, aborts>>

\* Mutant of Exchange: the other underway state is tested for waiters.
ExchangeWrongTest(t, new, wake, next) ==
    /\ pc[t] = "construct"
    /\ state' = new
    /\ Goto(t, IF state = UNDERWAY_WITHOUT_WAITER THEN wake ELSE next)
    /\ UNCHANGED old_value

\* atomic_exchange_explicit, and the test of the value it returned.
Exchange(t, new, wake, next) ==
    /\ pc[t] = "construct"
    /\ state' = new
    /\ Goto(t, IF state = UNDERWAY_WITH_WAITER THEN wake ELSE next)
    /\ UNCHANGED old_value

Release(t) ==
    /\ Exchange(t, COMPLETE, "release_wake", "use")
    /\ UNCHANGED aborts

Abort(t) ==
    /\ aborts < MaxAborts
    /\ Exchange(t, NOT_YET_STARTED, "abort_wake", "out")
    /\ aborts' = aborts + 1

\* __futex_wake_ex(.., INT_MAX): all that sleep now.
Wake(t) ==
    /\ pc[t] \in {"release_wake", "abort_wake"}
    /\ pc' = [u \in Threads |->
                IF u = t THEN IF pc[t] = "release_wake" THEN "use" ELSE "out"
                ELSE IF pc[u] = "asleep" THEN "load" ELSE pc[u]]
    /\ UNCHANGED <<state, old_value, aborts>>

\* Control leaves the function and may come back to the declaration.
Leave(t) ==
    /\ pc[t] = "use"
    /\ Goto(t, "out")
    /\ UNCHANGED <<state, old_value, aborts>>

Acquire(t) == AcquireComplete(t) \/ AcquireFirst(t) \/ AcquireWaiter(t) \/ AcquireAlreadyMarked(t)

\* Steps a thread takes by itself once it is at the guard.
Progress(t) == Load(t) \/ Acquire(t) \/ FutexWait(t) \/ Wake(t) \/ Release(t)

Next == \E t \in Threads : Declaration(t) \/ Progress(t) \/ Abort(t)
                        \/ FutexInterrupted(t) \/ Leave(t)

Spec == Init /\ [][Next]_vars

\* Threads are scheduled and constructors end.
FairSpec == Spec /\ \A t \in Threads : WF_vars(Progress(t))

(***************************************************************************)
(* Properties.                                                             *)
(***************************************************************************)
Constructing == {t \in Threads : pc[t] = "construct"}
Underway     == state \in {UNDERWAY_WITHOUT_WAITER, UNDERWAY_WITH_WAITER}

\* A sleeping thread will be woken: the guard still says there is a waiter,
\* so release or abort will see it, or one that saw it has yet to wake.  No
\* interleaving of the compare-and-swap, the futex call and the exchange of
\* __cxa_guard_release or __cxa_guard_abort loses the wake-up.
NoLostWakeup ==
    (\E t \in Threads : pc[t] = "asleep") =>
        \/ state = UNDERWAY_WITH_WAITER
        \/ \E u \in Threads : pc[u] \in {"release_wake", "abort_wake"}

\* One constructor at a time, and one exactly while the guard is underway.
OneConstructor ==
    /\ \A t, u \in Constructing : t = u
    /\ Underway <=> Constructing # {}

\* What a thread at location l does, and the guard means, in OnceInit.
PhaseAt(l) == IF l \in {"out", "abort_wake"} THEN "out"
              ELSE IF l \in {"use", "release_wake"} THEN "using"
              ELSE IF l = "construct" THEN "constructing" ELSE "entering"
Status == IF state = COMPLETE THEN "complete" ELSE IF Underway THEN "running" ELSE "none"

Once == INSTANCE OnceInit WITH status <- Status,
                               phase  <- [t \in Threads |-> PhaseAt(pc[t])]

\* The three functions and the compiler's test together implement one-time
\* construction: a thread is let past, by either, only when a constructor
\* has completed, and a constructor starts only when none runs or has run.
ImplementsOnce == Once!Spec

\* A call of __cxa_guard_acquire returns.
AcquireReturns ==
    \A t \in Threads : pc[t] = "load" ~> pc[t] \in {"construct", "use"}
=============================================================================
