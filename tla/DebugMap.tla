------------------------------ MODULE DebugMap ------------------------------
(***************************************************************************)
(* The link maps the linker shows to gdb (linker/linker.c).  Libraries     *)
(* loaded by the shim linker form a doubly linked list of their own, from  *)
(* apkenv_r_debug_head to apkenv_r_debug_tail.  After each change it is    *)
(* hung on the end of glibc's list, gdb's breakpoint is hit, and glibc's   *)
(* list is cut off again.                                                  *)
(*                                                                         *)
(* apkenv__r_debug_lock makes one notification exclude another; `pc' says  *)
(* how far the one that holds it has come.  glibc's own dlopen does not    *)
(* take that lock.                                                         *)
(***************************************************************************)
EXTENDS Naturals, Sequences

CONSTANTS
    Glibc,           \* link maps of libraries loaded by glibc
    Android,         \* link maps inside the soinfos of the pool
    r_map,           \* the first link map of glibc's list, the executable's
    NULL,
    MayUnloadFirst   \* may the library at apkenv_r_debug_head be unloaded?

ASSUME DebugMapAssumption ==
    /\ r_map \in Glibc /\ NULL \notin Glibc \cup Android
    /\ Glibc \cap Android = {}
    /\ MayUnloadFirst \in BOOLEAN

Maps == Glibc \cup Android

VARIABLES
    l_next, l_prev,  \* the links of every link map
    head, tail,      \* apkenv_r_debug_head, apkenv_r_debug_tail
    pc,              \* "idle", "edited" or "spliced"
    tmap,            \* local of apkenv_notify_gdb_of_libraries
    fault,           \* a null pointer has been dereferenced
    glibc,           \* history: the link maps glibc has in its list, in order
    loaded,          \* history: the libraries announced to gdb, in order
    silent           \* history: libraries opened without being announced

links == <<l_next, l_prev>>
vars  == <<links, head, tail, pc, tmap, fault, glibc, loaded, silent>>

Elems(s) == {s[k] : k \in DOMAIN s}
Position(s, x) == CHOOSE k \in DOMAIN s : s[k] = x
Without(s, x) ==
    IF x \in Elems(s)
    THEN [k \in 1..(Len(s) - 1) |-> IF k < Position(s, x) THEN s[k] ELSE s[k + 1]] ELSE s
Final(s) == s[Len(s)]

TypeOK ==
    /\ l_next \in [Maps -> Maps \cup {NULL}] /\ l_prev \in [Maps -> Maps \cup {NULL}]
    /\ head \in Android \cup {NULL} /\ tail \in Maps \cup {NULL}
    /\ pc \in {"idle", "edited", "spliced"} /\ tmap \in Maps \cup {NULL}
    /\ fault \in BOOLEAN
    /\ glibc \in Seq(Glibc) /\ loaded \in Seq(Android) /\ silent \subseteq Android

\* The executable alone; nothing loaded by the shim linker yet.
Init ==
    /\ l_next = [m \in Maps |-> NULL] /\ l_prev = [m \in Maps |-> NULL]
    /\ head = NULL /\ tail = NULL
    /\ pc = "idle" /\ tmap = NULL /\ fault = FALSE
    /\ glibc = <<r_map>> /\ loaded = << >> /\ silent = {}

\* The list from r_map as a debugger, glibc or the linker walks it, up to as
\* many entries as there are link maps.
Steps == Len(glibc) + Len(loaded) + 1
Walk[n \in 0..Steps] ==
    IF n = 0 THEN <<r_map>>
    ELSE IF l_next[Final(Walk[n - 1])] = NULL THEN Walk[n - 1]
    ELSE Append(Walk[n - 1], l_next[Final(Walk[n - 1])])
Chain == Walk[Steps]

Idle == pc = "idle" /\ ~fault

(***************************************************************************)
(* apkenv_notify_gdb_of_load: lock, apkenv_insert_soinfo_into_debug_map.   *)
(***************************************************************************)
\* Mutant of Insert: the tail is not moved to the new library.
InsertKeepsTail(a) ==
    /\ Idle /\ a \notin Elems(loaded) \cup silent
    /\ IF tail # NULL
       THEN /\ l_next' = [l_next EXCEPT ![tail] = a, ![a] = NULL]
            /\ l_prev' = [l_prev EXCEPT ![a] = tail]
            /\ UNCHANGED <<head, tail>>
       ELSE /\ head' = a /\ tail' = a
            /\ l_next' = [l_next EXCEPT ![a] = NULL]
            /\ l_prev' = [l_prev EXCEPT ![a] = NULL]
    /\ loaded' = Append(loaded, a)
    /\ pc' = "edited"
    /\ UNCHANGED <<tmap, fault, glibc, silent>>

Insert(a) ==
    /\ Idle /\ a \notin Elems(loaded) \cup silent
    /\ IF tail # NULL
       THEN /\ l_next' = [l_next EXCEPT ![tail] = a, ![a] = NULL]
            /\ l_prev' = [l_prev EXCEPT ![a] = tail]
            /\ UNCHANGED head
       ELSE /\ head' = a
            /\ l_next' = [l_next EXCEPT ![a] = NULL]
            /\ l_prev' = [l_prev EXCEPT ![a] = NULL]
    /\ tail' = a
    /\ loaded' = Append(loaded, a)
    /\ pc' = "edited"
    /\ UNCHANGED <<tmap, fault, glibc, silent>>

\* apkenv_link_image returns early and apkenv_init_library goes on as if it
\* had succeeded: a library is open, its zeroed link map is in no list.
OpenSilently(a) ==
    /\ Idle /\ a \notin Elems(loaded) \cup silent
    /\ l_next' = [l_next EXCEPT ![a] = NULL] /\ l_prev' = [l_prev EXCEPT ![a] = NULL]
    /\ silent' = silent \cup {a}
    /\ UNCHANGED <<head, tail, pc, tmap, fault, glibc, loaded>>

(***************************************************************************)
(* apkenv_notify_gdb_of_unload: lock, apkenv_remove_soinfo_from_debug_map. *)
(* The removal never changes apkenv_r_debug_head.                          *)
(***************************************************************************)
\* Mutant of Remove: the successor keeps its back link.
RemoveOneSided(a) ==
    /\ Idle /\ a \in Elems(loaded) \cup silent
    /\ a = head => MayUnloadFirst
    /\ tail' = IF tail = a THEN l_prev[a] ELSE tail
    /\ l_next' = IF l_prev[a] = NULL THEN l_next ELSE [l_next EXCEPT ![l_prev[a]] = l_next[a]]
    /\ loaded' = Without(loaded, a) /\ silent' = silent \ {a}
    /\ pc' = "edited"
    /\ UNCHANGED <<l_prev, head, tmap, fault, glibc>>

Remove(a) ==
    /\ Idle /\ a \in Elems(loaded) \cup silent
    /\ a = head => MayUnloadFirst
    /\ tail' = IF tail = a THEN l_prev[a] ELSE tail
    /\ l_next' = IF l_prev[a] = NULL THEN l_next ELSE [l_next EXCEPT ![l_prev[a]] = l_next[a]]
    /\ l_prev' = IF l_next[a] = NULL THEN l_prev ELSE [l_prev EXCEPT ![l_next[a]] = l_prev[a]]
    /\ loaded' = Without(loaded, a) /\ silent' = silent \ {a}
    /\ pc' = "edited"
    /\ UNCHANGED <<head, tmap, fault, glibc>>

(***************************************************************************)
(* apkenv_notify_gdb_of_libraries: append, breakpoint, restore, unlock.    *)
(***************************************************************************)
\* Mutant of Splice: the head of the list is set, not its back link.
SpliceMovesHead ==
    /\ pc = "edited" /\ ~fault
    /\ tmap' = Final(Chain)
    /\ l_next' = [l_next EXCEPT ![Final(Chain)] = head]
    /\ head' = Final(Chain) /\ pc' = "spliced"
    /\ UNCHANGED <<l_prev, fault, tail, glibc, loaded, silent>>

Splice ==
    /\ pc = "edited" /\ ~fault
    /\ tmap' = Final(Chain)
    /\ l_next' = [l_next EXCEPT ![Final(Chain)] = head]
    /\ IF head = NULL
       THEN fault' = TRUE /\ UNCHANGED <<l_prev, pc>>
       ELSE /\ l_prev' = [l_prev EXCEPT ![head] = Final(Chain)]
            /\ pc' = "spliced" /\ UNCHANGED fault
    /\ UNCHANGED <<head, tail, glibc, loaded, silent>>

\* Mutant of Restore: glibc's list keeps the android libraries.
RestoreNothing ==
    /\ pc = "spliced"
    /\ pc' = "idle" /\ tmap' = NULL
    /\ UNCHANGED <<links, head, tail, fault, glibc, loaded, silent>>

Restore ==
    /\ pc = "spliced"
    /\ l_next' = [l_next EXCEPT ![tmap] = NULL]
    /\ pc' = "idle" /\ tmap' = NULL
    /\ UNCHANGED <<l_prev, head, tail, fault, glibc, loaded, silent>>

(***************************************************************************)
(* glibc's dlopen appends to the list it finds at r_map, its dlclose       *)
(* unlinks; here only while no notification is under way.                  *)
(***************************************************************************)
GlibcOpen(g) ==
    /\ Idle /\ g \notin Elems(glibc)
    /\ l_next' = [l_next EXCEPT ![Final(Chain)] = g, ![g] = NULL]
    /\ l_prev' = [l_prev EXCEPT ![g] = Final(Chain)]
    /\ glibc' = Append(glibc, g)
    /\ UNCHANGED <<head, tail, pc, tmap, fault, loaded, silent>>

GlibcClose(g) ==
    /\ Idle /\ g \in Elems(glibc) \ {r_map}
    /\ l_next' = [l_next EXCEPT ![l_prev[g]] = l_next[g]]
    /\ l_prev' = IF l_next[g] = NULL THEN l_prev ELSE [l_prev EXCEPT ![l_next[g]] = l_prev[g]]
    /\ glibc' = Without(glibc, g)
    /\ UNCHANGED <<head, tail, pc, tmap, fault, loaded, silent>>

Next ==
    \/ \E a \in Android : Insert(a) \/ OpenSilently(a) \/ Remove(a)
    \/ Splice \/ Restore
    \/ \E g \in Glibc : GlibcOpen(g) \/ GlibcClose(g)

Spec == Init /\ [][Next]_vars

(***************************************************************************)
(* Properties.                                                             *)
(***************************************************************************)
\* At the breakpoint of apkenv_notify_gdb_of_libraries the debugger finds
\* glibc's libraries and then exactly the shim linker's, in load order.
DebuggerView == pc = "spliced" => Chain = glibc \o loaded

\* "Restore so that ld-linux doesn't freak out": between notifications
\* glibc's list holds what glibc put there.
RestoredForGlibc == Idle => Chain = glibc

\* The shim linker's own list can be walked both ways and ends at the tail
\* (the first library's back link is lent to glibc's list).
OwnListLinked ==
    Idle /\ loaded # << >> =>
        /\ head = loaded[1] /\ tail = Final(loaded) /\ l_next[tail] = NULL
        /\ \A k \in 1..(Len(loaded) - 1) : /\ l_next[loaded[k]] = loaded[k + 1]
                                           /\ l_prev[loaded[k + 1]] = loaded[k]
=============================================================================
