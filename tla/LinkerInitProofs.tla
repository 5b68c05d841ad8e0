-------------------------- MODULE LinkerInitProofs --------------------------
(***************************************************************************)
(* Constructors and destructors in Linker, for any libraries, threads and  *)
(* pool size: the bound DT_NEEDED entries have no cycle, what the          *)
(* application holds is initialized with everything it needs, constructors *)
(* run once per load, and destructors only where they ran.                 *)
(***************************************************************************)
EXTENDS LinkerRefProofs

-----------------------------------------------------------------------------
(* The inductive invariant, on top of RefInv.                              *)

\* The entries that apkenv_call_constructors_recursive and
\* apkenv_unload_library follow.
BoundEntry(s, j) == j \in DOMAIN so[s].needed /\ so[s].needed[j] \in Slots

\* An activation that has set constructors_called, or runs destructors.
Entered(s) ==
    \E k \in 1..Len(stack) : /\ stack[k].fn \in {"ctor", "selfwait", "unload"}
                             /\ stack[k].i > 0 /\ stack[k].si = s

\* A listed library that is marked is initialized or under way; an
\* initialized one has initialized libraries in its entries.
MarksOK ==
    /\ \A s \in inited : s \in Elems(solist) /\ so[s].constructors_called
    /\ \A s \in Elems(solist) : so[s].constructors_called => s \in inited \/ Entered(s)
DepsOK == \A s \in inited : \A j \in Nat : BoundEntry(s, j) => so[s].needed[j] \in inited
HeldOK == \A s \in Slots : Holds(s) \/ Closing(s) # {} => s \in inited

LinkMarks == \A k \in 1..Len(stack) : Linking(k) => ~so[stack[k].si].constructors_called

\* A constructor activation has called those of its entries below i; the
\* activation above it is on entry i - 1.
CtorOK(k, s, i) ==
    /\ i > 0 => so[s].constructors_called /\ s \notin inited
    /\ \A j \in Nat : BoundEntry(s, j) /\ j < i => so[s].needed[j] \in inited \/ (k < Len(stack) /\ j = i - 1)
    /\ k < Len(stack) => BoundEntry(s, i - 1) /\ i > 0 /\ stack[k + 1].si = so[s].needed[i - 1]
    /\ stack[k].fn = "selfwait" => k = Len(stack) /\ i > 0
Constructing(k) == stack[k].fn \in {"ctor", "selfwait"}
CtorsOK == \A k \in 1..Len(stack) : Constructing(k) => CtorOK(k, stack[k].si, stack[k].i)

\* A dlopen waits for the constructors of the library it returns.
OpenedOK ==
    stack # << >> /\ stack[1].fn = "dlopen" /\ stack[1].si # NULL =>
        /\ Len(stack) = 1 => stack[1].si \in inited
        /\ Len(stack) > 1 => stack[2].si = stack[1].si

\* Destructors have run in a library whose entries are being released, and
\* not yet in those it still has an entry for.
FiniOK(s, i) ==
    /\ i = 0 => s \in inited
    /\ i > 0 => s \notin inited /\ \A j \in Nat : BoundEntry(s, j) => so[s].needed[j] \in inited
FinisOK == \A k \in 1..Len(stack) : stack[k].fn = "unload" => FiniOK(stack[k].si, stack[k].i)

InitInv ==
    /\ NeededAcyclic
    /\ MarksOK /\ DepsOK /\ HeldOK /\ LinkMarks /\ CtorsOK /\ OpenedOK /\ FinisOK

-----------------------------------------------------------------------------
(* The bound DT_NEEDED entries.                                            *)

\* The list and every soinfo's entries and constructors_called are as before.
SameDeps ==
    /\ solist' = solist
    /\ \A u \in Slots : /\ so'[u].needed = so[u].needed
                        /\ so'[u].constructors_called = so[u].constructors_called

\* A soinfo with other flags or another refcount has the same entries.
LEMMA FieldSet ==
    ASSUME NEW r \in Soinfo
    PROVE  /\ LET w == [r EXCEPT !.linked = TRUE]
              IN  w \in Soinfo /\ w.needed = r.needed /\ w.constructors_called = r.constructors_called
           /\ LET w == [r EXCEPT !.error = TRUE]
              IN  w \in Soinfo /\ w.needed = r.needed /\ w.constructors_called = r.constructors_called
           /\ LET w == [r EXCEPT !.mapped = FALSE]
              IN  w \in Soinfo /\ w.needed = r.needed /\ w.constructors_called = r.constructors_called
           /\ \A c \in Int :
                 LET w == [r EXCEPT !.refcount = c]
                 IN  w \in Soinfo /\ w.needed = r.needed /\ w.constructors_called = r.constructors_called
           /\ LET w == [r EXCEPT !.constructors_called = TRUE]
              IN  w \in Soinfo /\ w.needed = r.needed /\ w.constructors_called
  BY DEF Soinfo

\* One soinfo replaced by one with the same entries and mark.
LEMMA OneInfo ==
    ASSUME TypeInv, NEW s \in Slots, NEW r, r.needed = so[s].needed,
           r.constructors_called = so[s].constructors_called,
           so' = [so EXCEPT ![s] = r], solist' = solist
    PROVE  SameDeps
<1>1. so'[s] = r /\ \A u \in Slots : u # s => so'[u] = so[u]
  BY DEF TypeInv, TypeOK
<1>2. QED
  BY <1>1 DEF SameDeps

\* The end of apkenv_link_image, a new handle and the release of a shared
\* reference leave the entries and marks alone.
LEMMA InfoSteps ==
    ASSUME RefInv, \/ LinkFailEarly \/ LinkFailReloc \/ LinkFailRelro \/ LinkFinish
                   \/ DlopenReturn \/ UnloadShared
    PROVE  SameDeps
<1>1. TypeInv /\ so \in [Slots -> Soinfo] /\ solist' = solist
  BY DEF RefInv, TypeInv, TypeOK, LinkFailEarly, LinkFailReloc, LinkFailRelro, LinkFinish, LinkFails,
         DlopenReturn, UnloadShared, hist
<1>2. PICK s \in Slots : s = Top.si
  <2>1. CASE LinkFailEarly \/ LinkFailReloc \/ LinkFailRelro \/ LinkFinish
    BY <1>1, <2>1, TopFrame DEF LinkFailEarly, LinkFailReloc, LinkFailRelro, LinkFinish, LinkStart, LinkBound
  <2>2. CASE UnloadShared
    BY <1>1, <2>2, TopFrame DEF UnloadShared
  <2>3. CASE DlopenReturn
    <3>1. Top \in Frame /\ Top.fn = "dlopen" /\ Top.si # NULL
      BY <1>1, <2>3, TopFrame DEF DlopenReturn
    <3>2. QED
      BY <3>1 DEF Frame
  <2>4. QED
    BY <2>1, <2>2, <2>3
<1>3. so[s] \in Soinfo /\ so[s].refcount \in Int
  BY <1>1, <1>2 DEF Soinfo
<1>4. PICK x : x = [so[s] EXCEPT !.error = TRUE]
  OBVIOUS
<1>5. x \in Soinfo /\ x.needed = so[s].needed /\ x.constructors_called = so[s].constructors_called
  BY <1>3, <1>4, FieldSet
<1>6. PICK v : v = [so[s] EXCEPT !.linked = TRUE]
  OBVIOUS
<1>7. v \in Soinfo /\ v.needed = so[s].needed /\ v.constructors_called = so[s].constructors_called
  BY <1>3, <1>6, FieldSet
<1>8. CASE LinkFailEarly \/ LinkFailReloc
  <2>1. so' = [so EXCEPT ![s].error = TRUE, ![s].mapped = FALSE]
    BY <1>2, <1>8 DEF LinkFailEarly, LinkFailReloc
  <2>2. PICK w : w = [x EXCEPT !.mapped = FALSE]
    OBVIOUS
  <2>3. so' = [so EXCEPT ![s] = w]
    BY <1>1, <1>4, <2>1, <2>2
  <2>4. w.needed = so[s].needed /\ w.constructors_called = so[s].constructors_called
    BY <1>5, <2>2, FieldSet
  <2>5. QED
    BY <1>1, <2>3, <2>4, OneInfo
<1>9. CASE LinkFailRelro
  <2>1. so' = [so EXCEPT ![s].linked = TRUE, ![s].error = TRUE, ![s].mapped = FALSE]
    BY <1>2, <1>9 DEF LinkFailRelro
  <2>2. PICK y : y = [v EXCEPT !.error = TRUE]
    OBVIOUS
  <2>3. y \in Soinfo /\ y.needed = so[s].needed /\ y.constructors_called = so[s].constructors_called
    BY <1>7, <2>2, FieldSet
  <2>4. PICK w : w = [y EXCEPT !.mapped = FALSE]
    OBVIOUS
  <2>5. so' = [so EXCEPT ![s] = w]
    BY <1>1, <1>6, <2>1, <2>2, <2>4
  <2>6. w.needed = so[s].needed /\ w.constructors_called = so[s].constructors_called
    BY <2>3, <2>4, FieldSet
  <2>7. QED
    BY <1>1, <2>5, <2>6, OneInfo
<1>10. CASE LinkFinish
  <2>1. so' = [so EXCEPT ![s] = v]
    BY <1>1, <1>2, <1>6, <1>10 DEF LinkFinish
  <2>2. QED
    BY <1>1, <1>7, <2>1, OneInfo
<1>11. ASSUME NEW c \in Int, so' = [so EXCEPT ![s].refcount = c]
       PROVE  SameDeps
  <2>1. PICK w : w = [so[s] EXCEPT !.refcount = c]
    OBVIOUS
  <2>2. so' = [so EXCEPT ![s] = w]
    BY <1>1, <1>11, <2>1
  <2>3. w.needed = so[s].needed /\ w.constructors_called = so[s].constructors_called
    BY <1>3, <2>1, FieldSet
  <2>4. QED
    BY <1>1, <2>2, <2>3, OneInfo
<1>12. CASE DlopenReturn
  <2>1. so' = [so EXCEPT ![s].refcount = so[s].refcount + 1]
    BY <1>1, <1>2, <1>12 DEF DlopenReturn
  <2>2. so[s].refcount + 1 \in Int
    BY <1>3
  <2>3. QED
    BY <1>11, <2>1, <2>2
<1>13. CASE UnloadShared
  <2>1. so' = [so EXCEPT ![s].refcount = so[s].refcount - 1]
    BY <1>1, <1>2, <1>13 DEF UnloadShared
  <2>2. so[s].refcount - 1 \in Int
    BY <1>3
  <2>3. QED
    BY <1>11, <2>1, <2>2
<1>14. QED
  BY <1>8, <1>9, <1>10, <1>12, <1>13

\* apkenv_call_constructors_recursive marks its library.
LEMMA CtorEnterInfo ==
    ASSUME RefInv, CtorEnter
    PROVE  /\ solist' = solist /\ Top.si \in Slots /\ so'[Top.si].constructors_called
           /\ \A u \in Slots : /\ so'[u].needed = so[u].needed
                               /\ u # Top.si => so'[u].constructors_called = so[u].constructors_called
<1>1. so \in [Slots -> Soinfo] /\ solist' = solist /\ so' = [so EXCEPT ![Top.si].constructors_called = TRUE]
  BY DEF RefInv, TypeInv, TypeOK, CtorEnter
<1>2. PICK s \in Slots : s = Top.si
  BY TopFrame DEF RefInv, CtorEnter
<1>3. PICK w : w = [so[s] EXCEPT !.constructors_called = TRUE]
  OBVIOUS
<1>4. so' = [so EXCEPT ![s] = w] /\ so[s] \in Soinfo
  BY <1>1, <1>2, <1>3
<1>5. w.needed = so[s].needed /\ w.constructors_called
  BY <1>3, <1>4, FieldSet
<1>6. so'[s] = w /\ \A u \in Slots : u # s => so'[u] = so[u]
  BY <1>1, <1>4
<1>7. QED
  BY <1>1, <1>2, <1>5, <1>6

\* apkenv_unload_library clears one entry.
LEMMA UnloadNeededInfo ==
    ASSUME RefInv, UnloadNeeded
    PROVE  /\ solist' = solist /\ Top.si \in Slots /\ Top.i \in DOMAIN so[Top.si].needed
           /\ \A u \in Slots : /\ so'[u].constructors_called = so[u].constructors_called
                               /\ u # Top.si => so'[u].needed = so[u].needed
           /\ DOMAIN so'[Top.si].needed = DOMAIN so[Top.si].needed /\ so'[Top.si].needed[Top.i] = NULL
           /\ \A j \in DOMAIN so[Top.si].needed : j # Top.i => so'[Top.si].needed[j] = so[Top.si].needed[j]
<1>1. /\ so \in [Slots -> Soinfo] /\ solist' = solist /\ so' = [so EXCEPT ![Top.si].needed[Top.i] = NULL]
      /\ Top.i \in 1..Len(so[Top.si].needed)
  BY DEF RefInv, TypeInv, TypeOK, UnloadNeeded
<1>2. PICK s \in Slots : s = Top.si
  BY TopFrame DEF RefInv, UnloadNeeded
<1>3. so[s] \in Soinfo /\ so[s].needed \in Seq(Slots \cup {NULL, RAW})
  BY <1>1, <1>2 DEF Soinfo
<1>4. PICK i \in DOMAIN so[s].needed : i = Top.i
  BY <1>1, <1>2, <1>3
<1>5. PICK v : v = [so[s].needed EXCEPT ![i] = NULL]
  OBVIOUS
<1>6. /\ DOMAIN v = DOMAIN so[s].needed /\ v[i] = NULL
      /\ \A k \in DOMAIN so[s].needed : k # i => v[k] = so[s].needed[k]
  BY <1>3, <1>4, <1>5
<1>7. PICK w : w = [so[s] EXCEPT !.needed = v]
  OBVIOUS
<1>8. w.needed = v /\ w.constructors_called = so[s].constructors_called
  BY <1>3, <1>7 DEF Soinfo
<1>9. so' = [so EXCEPT ![s] = w]
  BY <1>1, <1>2, <1>3, <1>4, <1>5, <1>7
<1>10. so'[s] = w /\ \A u \in Slots : u # s => so'[u] = so[u]
  BY <1>1, <1>9
<1>11. QED
  BY <1>1, <1>2, <1>4, <1>6, <1>8, <1>10

\* The end of apkenv_unload_library takes the soinfo off the list.
LEMMA UnloadFinishInfo ==
    ASSUME RefInv, UnloadFinish
    PROVE  /\ Top.si \in Slots /\ Elems(solist)' = Elems(solist) \ {Top.si}
           /\ \A u \in Slots : /\ so'[u].needed = so[u].needed
                               /\ so'[u].constructors_called = so[u].constructors_called
<1>1. /\ so \in [Slots -> Soinfo] /\ so' = [so EXCEPT ![Top.si].mapped = FALSE, ![Top.si].refcount = 0]
      /\ free_info(Top.si) /\ solist \in Seq(Slots) /\ Injective(solist)
  BY DEF RefInv, TypeInv, TypeOK, UnloadFinish, PoolPartition
<1>2. PICK s \in Slots : s = Top.si
  BY TopFrame DEF RefInv, UnloadFinish
<1>3. PICK x : x = [so[s] EXCEPT !.mapped = FALSE]
  OBVIOUS
<1>4. x \in Soinfo /\ x.needed = so[s].needed /\ x.constructors_called = so[s].constructors_called
  BY <1>1, <1>3, FieldSet
<1>5. PICK w : w = [x EXCEPT !.refcount = 0]
  OBVIOUS
<1>6. w.needed = so[s].needed /\ w.constructors_called = so[s].constructors_called
  <2>1. 0 \in Int
    OBVIOUS
  <2>2. QED
    BY <1>4, <1>5, <2>1, FieldSet
<1>7. so' = [so EXCEPT ![s] = w]
  BY <1>1, <1>2, <1>3, <1>5
<1>8. so'[s] = w /\ \A u \in Slots : u # s => so'[u] = so[u]
  BY <1>1, <1>7
<1>9. Elems(solist)' = Elems(solist')
  BY DEF Elems
<1>10. Elems(solist)' = Elems(solist) \ {s}
  <2>1. CASE s \in Elems(solist)
    <3>1. solist' = Unlink(solist, s)
      BY <1>1, <1>2, <2>1 DEF free_info
    <3>2. Elems(Unlink(solist, s)) = Elems(solist) \ {s}
      BY <1>1, <2>1, UnlinkElems
    <3>3. QED
      BY <1>9, <3>1, <3>2
  <2>2. CASE s \notin Elems(solist)
    BY <1>1, <1>2, <1>9, <2>2 DEF free_info
  <2>3. QED
    BY <2>1, <2>2
<1>11. QED
  BY <1>2, <1>6, <1>8, <1>10

\* A load fills in a soinfo that was not in the list.
LEMMA LoadInfo ==
    ASSUME RefInv, LoadFailAllocated \/ LoadOk
    PROVE  \E a \in Slots :
              /\ a \notin Elems(solist) /\ ~so'[a].constructors_called
              /\ LoadFailAllocated => solist' = solist
              /\ LoadOk => Elems(solist)' = Elems(solist) \cup {a} /\ a = AllocSlot
              /\ \A u \in Slots : u # a => so'[u] = so[u]
              /\ \A k \in DOMAIN so'[a].needed : so'[a].needed[k] \notin Slots
<1>1. /\ so \in [Slots -> Soinfo] /\ alloc_info /\ Running("find")
      /\ solist \in Seq(Slots) /\ Injective(solist)
  BY DEF RefInv, TypeInv, TypeOK, LoadOk, LoadFailAllocated, Loading, PoolPartition
<1>2. PICK a \in Slots : a = AllocSlot /\ a \notin Elems(solist)
  BY <1>1, AllocFresh
<1>3. PICK p \in Paths : p = Target
  BY <1>1, TopFrame, ConstantsAssumption DEF RefInv, Target
<1>4. PICK r : /\ so' = [so EXCEPT ![a] = r] /\ ~r.constructors_called
               /\ \A k \in DOMAIN r.needed : r.needed[k] \notin Slots
  <2>1. CASE LoadOk
    <3>1. PICK r : r = [FreshInfo(p) EXCEPT !.mapped = TRUE]
      OBVIOUS
    <3>2. ~r.constructors_called /\ \A k \in DOMAIN r.needed : r.needed[k] \notin Slots
      BY <3>1, FreshFacts
    <3>3. so' = [so EXCEPT ![a] = r]
      BY <1>2, <1>3, <2>1, <3>1 DEF LoadOk
    <3>4. QED
      BY <3>2, <3>3
  <2>2. CASE LoadFailAllocated
    <3>1. PICK r : r = [FreshInfo(p) EXCEPT !.mapped = FALSE]
      OBVIOUS
    <3>2. ~r.constructors_called /\ \A k \in DOMAIN r.needed : r.needed[k] \notin Slots
      BY <3>1, FreshFacts
    <3>3. PICK f : f = FreshInfo(p)
      OBVIOUS
    <3>4. f \in Soinfo /\ f.mapped = FALSE
      <4>1. FreshInfo(p) \in Soinfo
        BY InfoTypes
      <4>2. FreshInfo(p).mapped = FALSE
        BY DEF FreshInfo, ZeroInfo, libdl_info
      <4>3. QED
        BY <3>3, <4>1, <4>2
    <3>5. [f EXCEPT !.mapped = FALSE] = f
      BY <3>4 DEF Soinfo
    <3>6. so' = [so EXCEPT ![a] = r]
      BY <1>2, <1>3, <2>2, <3>1, <3>3, <3>5 DEF LoadFailAllocated
    <3>7. QED
      BY <3>2, <3>6
  <2>3. QED
    BY <2>1, <2>2
<1>5. so'[a] = r /\ \A u \in Slots : u # a => so'[u] = so[u]
  BY <1>1, <1>4
<1>6. LoadFailAllocated => solist' = solist
  BY DEF LoadFailAllocated
<1>7. LoadOk => Elems(solist)' = Elems(solist) \cup {a}
  <2>1. Elems(Append(solist, a)) = Elems(solist) \cup {a}
    BY <1>1, <1>2, AppendElems
  <2>2. Elems(solist)' = Elems(solist')
    BY DEF Elems
  <2>3. QED
    BY <1>2, <2>1, <2>2 DEF LoadOk
<1>8. QED
  BY <1>2, <1>4, <1>5, <1>6, <1>7

\* apkenv_link_image binds one entry of a soinfo that nothing refers to yet.
LEMMA BindNeededInfo ==
    ASSUME RefInv, BindNeeded
    PROVE  \E l \in Slots :
              /\ solist' = solist /\ Top.si \in Slots /\ Top.si # l /\ Top.i \in DOMAIN so[Top.si].needed
              /\ NeededRefs(Top.si) = {}
              /\ \A u \in Slots : /\ so'[u].constructors_called = so[u].constructors_called
                                  /\ u # Top.si => so'[u].needed = so[u].needed
              /\ DOMAIN so'[Top.si].needed = DOMAIN so[Top.si].needed /\ so'[Top.si].needed[Top.i] = l
              /\ \A j \in DOMAIN so[Top.si].needed : j # Top.i => so'[Top.si].needed[j] = so[Top.si].needed[j]
<1>1. /\ Running("link") /\ ret.done /\ solist' = solist
  BY DEF BindNeeded
<1>2. PICK n \in Nat : /\ n = Len(stack) /\ n \in 1..n /\ Top = stack[n] /\ Top \in Frame /\ stack[n].fn = "link"
  BY <1>1, LinkPhase
<1>3. PICK s \in Pool : s = Top.si /\ s = stack[n].si /\ s \in Slots /\ s # Libdl
  BY <1>1, <1>2, TopFrame, SlotFacts DEF RefInv
<1>4. LinkOK(n, s)
  BY <1>2, <1>3 DEF RefInv, LinksOK, Linking
<1>5. so \in [Slots -> Soinfo] /\ so[s].needed \in Seq(Slots \cup {NULL, RAW}) /\ so[s] \in Soinfo
  BY <1>3 DEF RefInv, TypeInv, TypeOK, Soinfo
<1>6. PICK i \in DOMAIN so[s].needed : i = Top.i
  <2>1. Top.i >= 1 /\ Top.i \in Nat
    BY <1>1, <1>2, TopFrame DEF RefInv, Frame
  <2>2. stack[n].i <= Len(so[s].needed)
    BY <1>1, <1>4 DEF LinkOK
  <2>3. QED
    BY <1>2, <1>5, <2>1, <2>2
<1>7. PICK l : l = IF ret.si = NULL THEN Libdl ELSE ret.si
  OBVIOUS
<1>8. l \in Slots /\ l # s
  <2>1. CASE ret.si = NULL
    BY <1>3, <1>7, <2>1, SlotFacts
  <2>2. CASE ret.si # NULL
    BY <1>1, <1>4, <1>7, <2>2 DEF RefInv, LinkOK, TypeInv, TypeOK, Result
  <2>3. QED
    BY <2>1, <2>2
<1>9. PICK v : v = [so[s].needed EXCEPT ![i] = l]
  OBVIOUS
<1>10. /\ DOMAIN v = DOMAIN so[s].needed /\ v[i] = l
       /\ \A k \in DOMAIN so[s].needed : k # i => v[k] = so[s].needed[k]
  BY <1>5, <1>9
<1>11. /\ \A u \in Slots : u # s /\ u # l => so'[u] = so[u]
       /\ so'[s].constructors_called = so[s].constructors_called /\ so'[s].needed = v
       /\ so'[l].constructors_called = so[l].constructors_called /\ so'[l].needed = so[l].needed
  <2>1. so' = [so EXCEPT ![s].needed[i] = l, ![l].refcount = @ + 1]
    BY <1>3, <1>6, <1>7 DEF BindNeeded
  <2>2. PICK x : x = [so EXCEPT ![s] = [so[s] EXCEPT !.needed = v]]
    OBVIOUS
  <2>3. so' = [x EXCEPT ![l].refcount = @ + 1]
    BY <1>5, <1>9, <2>1, <2>2
  <2>4. /\ DOMAIN x = Slots /\ \A u \in Slots : u # s => x[u] = so[u]
        /\ x[s].constructors_called = so[s].constructors_called /\ x[s].needed = v
    BY <1>3, <1>5, <2>2 DEF Soinfo
  <2>5. x[l] = so[l] /\ so[l] \in Soinfo /\ so[l].refcount + 1 \in Int
    <3>1. x[l] = so[l] /\ so[l] \in Soinfo
      BY <1>5, <1>8, <2>4
    <3>2. QED
      BY <3>1 DEF Soinfo
  <2>6. PICK y : y = [so[l] EXCEPT !.refcount = so[l].refcount + 1]
    OBVIOUS
  <2>7. /\ y.constructors_called = so[l].constructors_called /\ y.needed = so[l].needed
    BY <2>5, <2>6, FieldSet
  <2>8. so' = [x EXCEPT ![l] = y]
    BY <2>3, <2>5, <2>6
  <2>9. so'[l] = y /\ \A u \in Slots : u # l => so'[u] = x[u]
    BY <1>8, <2>4, <2>8
  <2>10. QED
    BY <1>3, <1>8, <2>4, <2>7, <2>9
<1>12. NeededRefs(s) = {}
  BY <1>3, <1>4, Counted DEF RefInv, LinkOK
<1>13. QED
  BY <1>1, <1>3, <1>6, <1>8, <1>10, <1>11, <1>12

\* Fewer libraries and fewer bound entries have no new cycle.
LEMMA AcyclicKept ==
    ASSUME TypeInv, NeededAcyclic, Elems(solist)' \subseteq Elems(solist),
           \A s \in Elems(solist) : \A j \in DOMAIN so'[s].needed : so'[s].needed[j] \in Slots =>
               j \in DOMAIN so[s].needed /\ so'[s].needed[j] = so[s].needed[j]
    PROVE  NeededAcyclic'
<1> SUFFICES ASSUME NEW S \in (SUBSET Elems(solist)') \ {{}}
             PROVE  \E s \in S : Elems(so'[s].needed) \cap S = {}
  BY DEF NeededAcyclic, Elems
<1>1. Elems(solist) \subseteq Slots
  BY DEF TypeInv, TypeOK, Elems
<1>2. S \in (SUBSET Elems(solist)) \ {{}}
  OBVIOUS
<1>3. PICK s \in S : Elems(so[s].needed) \cap S = {}
  BY <1>2 DEF NeededAcyclic
<1>4. ASSUME NEW x \in Elems(so'[s].needed), x \in S PROVE FALSE
  <2>1. PICK j \in DOMAIN so'[s].needed : so'[s].needed[j] = x
    BY <1>4 DEF Elems
  <2>2. x \in Slots /\ s \in Elems(solist)
    BY <1>1, <1>2, <1>4
  <2>3. j \in DOMAIN so[s].needed /\ x = so[s].needed[j]
    BY <2>1, <2>2
  <2>4. x \in Elems(so[s].needed)
    BY <2>3 DEF Elems
  <2>5. QED
    BY <1>3, <1>4, <2>4
<1>5. QED
  BY <1>4

\* A loaded library has no bound entries yet; a bound entry leads away from
\* a library that no entry leads to.
LEMMA AcyclicStep ==
    ASSUME RefInv, NeededAcyclic, [Next]_vars
    PROVE  NeededAcyclic'
<1>1. TypeInv /\ Elems(solist) \subseteq Slots /\ NULL \notin Slots
  BY SlotFacts DEF RefInv, TypeInv, TypeOK, Elems
<1>2. CASE SameDeps
  <2>1. Elems(solist)' = Elems(solist)
    BY <1>2 DEF SameDeps, Elems
  <2>2. \A s \in Elems(solist) : so'[s].needed = so[s].needed
    BY <1>1, <1>2 DEF SameDeps
  <2>3. QED
    BY <1>1, <2>1, <2>2, AcyclicKept
<1>3. CASE UNCHANGED <<so, solist>>
  BY <1>2, <1>3 DEF SameDeps
<1>4. CASE CtorEnter
  <2>1. Elems(solist)' = Elems(solist) /\ \A s \in Elems(solist) : so'[s].needed = so[s].needed
    BY <1>1, <1>4, CtorEnterInfo DEF Elems
  <2>2. QED
    BY <1>1, <2>1, AcyclicKept
<1>5. CASE UnloadNeeded
  <2>1. Elems(solist)' = Elems(solist)
    BY <1>5, UnloadNeededInfo DEF Elems
  <2>2. \A s \in Elems(solist) : \A j \in DOMAIN so'[s].needed : so'[s].needed[j] \in Slots =>
               j \in DOMAIN so[s].needed /\ so'[s].needed[j] = so[s].needed[j]
    BY <1>1, <1>5, UnloadNeededInfo
  <2>3. QED
    BY <1>1, <2>1, <2>2, AcyclicKept
<1>6. CASE UnloadFinish
  <2>1. Elems(solist)' \subseteq Elems(solist) /\ \A s \in Elems(solist) : so'[s].needed = so[s].needed
    BY <1>1, <1>6, UnloadFinishInfo
  <2>2. QED
    BY <1>1, <2>1, AcyclicKept
<1>7. CASE LoadFailAllocated \/ LoadOk
  <2>1. PICK a \in Slots :
              /\ a \notin Elems(solist)
              /\ LoadFailAllocated => solist' = solist
              /\ LoadOk => Elems(solist)' = Elems(solist) \cup {a}
              /\ \A u \in Slots : u # a => so'[u] = so[u]
              /\ \A k \in DOMAIN so'[a].needed : so'[a].needed[k] \notin Slots
    BY <1>7, LoadInfo
  <2>2. Elems(solist)' \subseteq Elems(solist) \cup {a}
    BY <1>7, <2>1 DEF Elems
  <2>3. SUFFICES ASSUME NEW S \in (SUBSET Elems(solist)') \ {{}}
                 PROVE  \E s \in S : Elems(so'[s].needed) \cap S = {}
    BY DEF NeededAcyclic, Elems
  <2>4. S \subseteq Slots
    BY <1>1, <2>2, <2>3
  <2>5. CASE a \in S
    <3>1. Elems(so'[a].needed) \cap S = {}
      BY <2>1, <2>4 DEF Elems
    <3>2. QED
      BY <2>5, <3>1
  <2>6. CASE a \notin S
    <3>1. S \in (SUBSET Elems(solist)) \ {{}}
      BY <2>2, <2>3, <2>6
    <3>2. PICK s \in S : Elems(so[s].needed) \cap S = {}
      BY <3>1 DEF NeededAcyclic
    <3>3. so'[s] = so[s]
      BY <2>1, <2>4, <2>6
    <3>4. QED
      BY <3>2, <3>3
  <2>7. QED
    BY <2>5, <2>6
<1>8. CASE BindNeeded
  <2>1. PICK w \in Slots, l \in Slots, i \in {Top.i} :
              /\ solist' = solist /\ w # l /\ NeededRefs(w) = {}
              /\ \A u \in Slots : u # w => so'[u].needed = so[u].needed
              /\ DOMAIN so'[w].needed = DOMAIN so[w].needed /\ so'[w].needed[i] = l
              /\ \A j \in DOMAIN so[w].needed : j # i => so'[w].needed[j] = so[w].needed[j]
    BY <1>8, BindNeededInfo
  <2>2. \A u \in Slots : w \notin Elems(so[u].needed)
    <3> SUFFICES ASSUME NEW u \in Slots, NEW k \in DOMAIN so[u].needed, so[u].needed[k] = w PROVE FALSE
      BY DEF Elems
    <3>1. k \in Entries(u, w)
      BY DEF Entries
    <3>2. <<u, k>> \in NeededRefs(w)
      BY <3>1, RefMember
    <3>3. QED
      BY <2>1, <3>2
  <2>3. \A x \in Elems(so'[w].needed) : x = l \/ x \in Elems(so[w].needed)
    BY <2>1 DEF Elems
  <2>4. Elems(solist)' = Elems(solist)
    BY <2>1 DEF Elems
  <2>5. SUFFICES ASSUME NEW S \in (SUBSET Elems(solist)') \ {{}}
                 PROVE  \E s \in S : Elems(so'[s].needed) \cap S = {}
    BY DEF NeededAcyclic, Elems
  <2>6. S \subseteq Slots
    BY <1>1, <2>5, <2>4
  <2>7. CASE S = {w}
    BY <2>1, <2>2, <2>3, <2>7
  <2>8. CASE S \ {w} # {}
    <3>1. S \ {w} \in (SUBSET Elems(solist)) \ {{}}
      BY <2>5, <2>8, <2>4
    <3>2. PICK s \in S \ {w} : Elems(so[s].needed) \cap (S \ {w}) = {}
      BY <3>1 DEF NeededAcyclic
    <3>3. so'[s].needed = so[s].needed /\ w \notin Elems(so[s].needed)
      BY <2>1, <2>2, <2>6, <3>2
    <3>4. Elems(so'[s].needed) \cap S = {}
      BY <3>2, <3>3
    <3>5. QED
      BY <3>2, <3>4
  <2>9. QED
    BY <2>5, <2>7, <2>8
<1>9. CASE LinkFailEarly \/ LinkFailReloc \/ LinkFailRelro \/ LinkFinish \/ DlopenReturn \/ UnloadShared
  BY <1>2, <1>9, InfoSteps
<1>10. CASE \/ FindLoaded \/ FindElsewhere \/ LoadFail \/ LinkUnsupported \/ LinkNeeded \/ CtorAgain \/ CtorNeeded
            \/ CtorRun \/ CtorReenter \/ DlopenFound \/ DlopenOther \/ UnloadEnter \/ UnloadLibdl \/ DlcloseReturn
  BY <1>3, <1>10 DEF FindLoaded, FindElsewhere, LoadFail, LinkUnsupported, LinkNeeded, CtorAgain, CtorNeeded,
            CtorRun, CtorReenter, DlopenFound, DlopenOther, UnloadEnter, UnloadLibdl, DlcloseReturn, lib
<1>11. CASE \E t \in Threads : Call(t) \/ Acquire(t)
  BY <1>3, <1>11 DEF Call, CallDlopen, CallDlclose, CallDlcloseForeign, Acquire, lib
<1>12. CASE UNCHANGED vars
  BY <1>3, <1>12 DEF vars, lib
<1>13. QED
  BY <1>4, <1>5, <1>6, <1>7, <1>8, <1>9, <1>10, <1>11, <1>12
     DEF Next, OwnerStep, Find, Load, Link, Ctor, Dlopen, Unload

-----------------------------------------------------------------------------
(* Constructors and destructors.                                           *)

\* Who is about to close what: a step without calls adds nobody.
LEMMA HeldKept ==
    ASSUME HeldOK, UNCHANGED <<inited, handles, req, lock>>
    PROVE  HeldOK'
  BY DEF HeldOK, Holds, Closing

\* Each phase of a call has its own activations on the stack.
LEMMA PhaseNext ==
    ASSUME Shape', TypeInv', stack' # << >>
    PROVE  /\ stack'[1].fn = "dlclose" => LinkMarks' /\ CtorsOK' /\ OpenedOK'
           /\ stack'[1].fn = "dlopen" => FinisOK'
           /\ stack'[1].fn = "dlopen" /\ stack'[1].si = NULL => CtorsOK' /\ OpenedOK'
           /\ stack'[1].fn = "dlopen" /\ stack'[1].si # NULL => LinkMarks'
<1>1. \A k \in 1..Len(stack') : FrameShape(k)'
  BY DEF Shape
<1>2. \A k \in 1..Len(stack') :
          /\ stack'[k].fn = "unload" => stack'[1].fn = "dlclose"
          /\ stack'[k].fn = "link" => stack'[1].fn = "dlopen" /\ stack'[1].si = NULL
          /\ stack'[k].fn \in {"ctor", "selfwait"} => stack'[1].fn = "dlopen" /\ stack'[1].si # NULL
  BY <1>1 DEF FrameShape
<1>3. QED
  BY <1>2 DEF LinkMarks, Linking, CtorsOK, Constructing, OpenedOK, FinisOK

\* While bionic_dlopen searches, no constructor or destructor is under way.
LEMMA NoneEntered ==
    ASSUME Shape, TypeInv, stack # << >>, stack[1].fn = "dlopen", stack[1].si = NULL
    PROVE  \A s : ~Entered(s)
  BY DEF Shape, FrameShape, Entered

\* While bionic_dlopen searches and links, no constructor runs.
LEMMA LinkPhaseInit ==
    ASSUME RefInv, InitInv, RefInv', NeededAcyclic', UNCHANGED <<inited, handles, req, lock>>,
           NEW fn \in {"find", "link"}, Running(fn),
           stack' # << >>, stack'[1].fn = "dlopen", stack'[1].si = NULL,
           Elems(solist) \subseteq Elems(solist)',
           \A u \in Elems(solist)' : so'[u].constructors_called => u \in Elems(solist) /\ so[u].constructors_called,
           \A u \in Elems(solist) : so[u].constructors_called =>
               so'[u].needed = so[u].needed /\ so'[u].constructors_called,
           \A k \in 1..Len(stack') :
               \/ k \in 1..Len(stack) /\ stack'[k].fn = stack[k].fn /\ stack'[k].si = stack[k].si
               \/ stack'[k].fn # "link" \/ ~so'[stack'[k].si].constructors_called
    PROVE  InitInv'
<1>1. CtorsOK' /\ OpenedOK' /\ FinisOK'
  BY PhaseNext DEF RefInv
<1>2. stack # << >> /\ stack[1].fn = "dlopen" /\ stack[1].si = NULL
  BY LinkPhase
<1>3. \A s : ~Entered(s)
  BY <1>2, NoneEntered DEF RefInv
<1>4. MarksOK'
  BY <1>3 DEF InitInv, MarksOK
<1>5. DepsOK'
  <2> SUFFICES ASSUME NEW s \in inited', NEW j \in Nat, BoundEntry(s, j)' PROVE so'[s].needed[j] \in inited'
    BY DEF DepsOK
  <2>1. s \in inited /\ s \in Elems(solist) /\ so[s].constructors_called
    BY DEF InitInv, MarksOK
  <2>2. so'[s].needed = so[s].needed
    BY <2>1
  <2>3. BoundEntry(s, j)
    BY <2>2 DEF BoundEntry
  <2>4. QED
    BY <2>1, <2>2, <2>3 DEF InitInv, DepsOK
<1>6. HeldOK'
  BY HeldKept DEF InitInv
<1>7. LinkMarks'
  <2> SUFFICES ASSUME NEW k \in 1..Len(stack'), stack'[k].fn = "link", so'[stack'[k].si].constructors_called
               PROVE  FALSE
    BY DEF LinkMarks, Linking
  <2>1. k \in 1..Len(stack) /\ stack[k].fn = "link" /\ stack'[k].si = stack[k].si
    OBVIOUS
  <2>2. LinkOK(k, stack[k].si) /\ ~so[stack[k].si].constructors_called
    BY <2>1 DEF RefInv, InitInv, LinksOK, LinkMarks, Linking
  <2>3. stack[k].si \in Elems(solist)
    BY <2>2 DEF LinkOK, Live
  <2>4. QED
    BY <2>1, <2>2, <2>3
<1>8. QED
  BY <1>1, <1>4, <1>5, <1>6, <1>7 DEF InitInv

\* A result popped off while searching or linking.
LEMMA LinkPopInit ==
    ASSUME RefInv, InitInv, RefInv', NeededAcyclic', UNCHANGED <<inited, handles, req, lock>>,
           NEW fn \in {"find", "link"}, Running(fn), Pop, solist' = solist,
           \A u \in Elems(solist) : /\ so'[u].needed = so[u].needed
                                    /\ so'[u].constructors_called = so[u].constructors_called
    PROVE  InitInv'
<1>1. /\ Len(stack) >= 2 /\ Len(stack') = Len(stack) - 1 /\ Len(stack) \in Nat
      /\ \A k \in 1..Len(stack') : stack'[k] = stack[k] /\ k \in 1..Len(stack) /\ k # Len(stack)
      /\ stack' # << >>
  BY PopShape
<1>2. 1 \in 1..Len(stack')
  BY <1>1
<1>3. stack[1].fn = "dlopen" /\ stack[1].si = NULL
  BY LinkPhase
<1>4. stack'[1].fn = "dlopen" /\ stack'[1].si = NULL
  BY <1>1, <1>2, <1>3
<1>5. Elems(solist)' = Elems(solist)
  BY DEF Elems
<1>6. \A k \in 1..Len(stack') : k \in 1..Len(stack) /\ stack'[k].fn = stack[k].fn /\ stack'[k].si = stack[k].si
  BY <1>1
<1>7. QED
  BY <1>1, <1>4, <1>5, <1>6, LinkPhaseInit

\* Every step of apkenv_find_library, apkenv_load_library and
\* apkenv_link_image.
LEMMA LinkStepsInit ==
    ASSUME RefInv, InitInv, RefInv', NeededAcyclic', Find \/ Load \/ Link
    PROVE  InitInv'
<1>1. Elems(solist) \subseteq Slots /\ TypeInv /\ stack \in Seq(Frame)
  BY DEF RefInv, TypeInv, TypeOK, Elems
<1>2. CASE FindLoaded \/ FindElsewhere \/ LoadFail
  <2>1. Running("find") /\ Pop /\ UNCHANGED <<lib, inited, handles, req, lock>>
    BY <1>2 DEF FindLoaded, FindElsewhere, LoadFail, Loading, hist
  <2>2. solist' = solist /\ so' = so
    BY <2>1 DEF lib
  <2>3. QED
    BY <2>1, <2>2, LinkPopInit
<1>3. CASE LinkUnsupported
  <2>1. Running("link") /\ Pop /\ UNCHANGED <<lib, inited, handles, req, lock>>
    BY <1>3 DEF LinkUnsupported, LinkStart, hist
  <2>2. solist' = solist /\ so' = so
    BY <2>1 DEF lib
  <2>3. QED
    BY <2>1, <2>2, LinkPopInit
<1>4. CASE LoadFailAllocated
  <2>1. Running("find") /\ Pop /\ UNCHANGED <<solist, inited, handles, req, lock>>
    BY <1>4 DEF LoadFailAllocated, Loading, hist
  <2>2. PICK a \in Slots : a \notin Elems(solist) /\ \A u \in Slots : u # a => so'[u] = so[u]
    BY <1>4, LoadInfo
  <2>3. \A u \in Elems(solist) : so'[u] = so[u]
    BY <1>1, <2>2
  <2>4. QED
    BY <2>1, <2>3, LinkPopInit
<1>5. CASE LinkFailEarly \/ LinkFailReloc \/ LinkFailRelro \/ LinkFinish
  <2>1. Running("link") /\ Pop /\ UNCHANGED <<solist, inited, handles, req, lock>>
    BY <1>5 DEF LinkFailEarly, LinkFailReloc, LinkFailRelro, LinkFinish, LinkFails, LinkStart, LinkBound, hist
  <2>2. \A u \in Elems(solist) : /\ so'[u].needed = so[u].needed
                                 /\ so'[u].constructors_called = so[u].constructors_called
    BY <1>1, <1>5, InfoSteps DEF SameDeps
  <2>3. QED
    BY <2>1, <2>2, LinkPopInit
<1>6. CASE LoadOk
  <2>1. Running("find") /\ SetTop(Act("link", None, AllocSlot, 1)) /\ UNCHANGED <<inited, handles, req, lock>>
    BY <1>6 DEF LoadOk, Loading, hist
  <2>2. PICK a \in Slots : /\ a \notin Elems(solist) /\ ~so'[a].constructors_called /\ a = AllocSlot
                           /\ Elems(solist)' = Elems(solist) \cup {a}
                           /\ \A u \in Slots : u # a => so'[u] = so[u]
    BY <1>6, LoadInfo
  <2>3. PICK n \in Nat : /\ n = Len(stack) /\ n >= 2 /\ n \in 1..n /\ stack # << >>
                         /\ stack[1].fn = "dlopen" /\ stack[1].si = NULL
    BY <2>1, LinkPhase
  <2>4. PICK g : g = Act("link", None, a, 1)
    OBVIOUS
  <2>5. g \in Frame /\ g.si = a
    BY <2>4 DEF Act, Frame
  <2>6. stack' \in Seq(Frame) /\ Len(stack') = n /\ \A k \in 1..n : stack'[k] = IF k = n THEN g ELSE stack[k]
    BY <1>1, <2>1, <2>2, <2>3, <2>4, <2>5, SetTopType
  <2>7. stack'[1] = stack[1] /\ stack' # << >>
    BY <2>3, <2>6
  <2>8. \A k \in 1..Len(stack') :
               \/ k \in 1..Len(stack) /\ stack'[k].fn = stack[k].fn /\ stack'[k].si = stack[k].si
               \/ stack'[k].fn # "link" \/ ~so'[stack'[k].si].constructors_called
    BY <2>2, <2>3, <2>5, <2>6
  <2>9. /\ Elems(solist) \subseteq Elems(solist)'
        /\ \A u \in Elems(solist)' : so'[u].constructors_called => u \in Elems(solist) /\ so[u].constructors_called
        /\ \A u \in Elems(solist) : so[u].constructors_called =>
               so'[u].needed = so[u].needed /\ so'[u].constructors_called
    BY <1>1, <2>2
  <2>10. QED
    BY <2>1, <2>3, <2>7, <2>8, <2>9, LinkPhaseInit
<1>7. CASE LinkNeeded
  <2>1. /\ Running("link") /\ UNCHANGED <<so, solist, inited, handles, req, lock>>
    BY <1>7 DEF LinkNeeded, lib, hist
  <2>2. PICK n \in Nat : /\ n = Len(stack) /\ n >= 2 /\ n \in 1..n /\ stack # << >>
                         /\ stack[1].fn = "dlopen" /\ stack[1].si = NULL
    BY <2>1, LinkPhase
  <2>3. PICK g : Push(g) /\ g.fn = "find"
    BY <1>7 DEF LinkNeeded, Act
  <2>4. stack' = Append(stack, g) /\ stack' \in Seq(Frame)
    BY <2>3 DEF Push, RefInv, TypeInv, TypeOK
  <2>5. Len(stack') = n + 1 /\ stack'[n + 1] = g /\ \A k \in 1..n : stack'[k] = stack[k]
    BY <1>1, <2>2, <2>4
  <2>6. \A k \in 1..Len(stack') :
               \/ k \in 1..Len(stack) /\ stack'[k].fn = stack[k].fn /\ stack'[k].si = stack[k].si
               \/ stack'[k].fn # "link"
    BY <2>2, <2>3, <2>5
  <2>7. stack'[1] = stack[1] /\ stack' # << >>
    BY <2>2, <2>4, <2>5
  <2>8. Elems(solist)' = Elems(solist)
    BY <2>1 DEF Elems
  <2>9. QED
    BY <2>1, <2>2, <2>6, <2>7, <2>8, LinkPhaseInit
<1>8. CASE BindNeeded
  <2>1. /\ Running("link") /\ Skip /\ UNCHANGED <<solist, inited, handles, req, lock>>
    BY <1>8 DEF BindNeeded, hist
  <2>2. PICK n \in Nat : /\ n = Len(stack) /\ n >= 2 /\ n \in 1..n /\ stack # << >> /\ stack[n] = Top /\ Top \in Frame
                         /\ stack[1].fn = "dlopen" /\ stack[1].si = NULL /\ stack[n].fn = "link"
    BY <2>1, LinkPhase
  <2>3. PICK f : f = [Top EXCEPT !.i = @ + 1]
    OBVIOUS
  <2>4. f.fn = Top.fn /\ f.si = Top.si
    BY <2>2, <2>3 DEF Frame
  <2>5. Len(stack') = n /\ \A k \in 1..n : stack'[k] = IF k = n THEN f ELSE stack[k]
    BY <1>1, <2>1, <2>2, <2>3, SkipType
  <2>6. \A k \in 1..Len(stack') : k \in 1..Len(stack) /\ stack'[k].fn = stack[k].fn /\ stack'[k].si = stack[k].si
    BY <2>2, <2>4, <2>5
  <2>7. stack'[1] = stack[1] /\ stack' # << >>
    BY <2>2, <2>5
  <2>8. /\ Elems(solist)' = Elems(solist)
        /\ \A u \in Slots : /\ so'[u].constructors_called = so[u].constructors_called
                            /\ u # Top.si => so'[u].needed = so[u].needed
    BY <1>8, <2>1, BindNeededInfo DEF Elems
  <2>9. ~so[Top.si].constructors_called
    BY <2>2 DEF InitInv, LinkMarks, Linking
  <2>10. \A u \in Elems(solist) : so[u].constructors_called =>
               so'[u].needed = so[u].needed /\ so'[u].constructors_called
    BY <1>1, <2>8, <2>9
  <2>11. QED
    BY <1>1, <2>1, <2>2, <2>6, <2>7, <2>8, <2>10, LinkPhaseInit
<1>9. QED
  BY <1>2, <1>3, <1>4, <1>5, <1>6, <1>7, <1>8 DEF Find, Load, Link

\* A constructor activation is never on the library of one below it: the
\* activations follow bound entries, which have no cycle.
LEMMA CtorApart ==
    ASSUME RefInv, InitInv, Running("ctor"), NEW k \in 1..Len(stack), k > 1, k < Len(stack)
    PROVE  stack[k].si # Top.si
<1>1. /\ Len(stack) \in Nat /\ Top = stack[Len(stack)]
      /\ \A j \in 1..Len(stack) : j > 1 => stack[j].fn \in {"ctor", "selfwait"}
  BY CtorPhase
<1>2. PICK n \in Nat : n = Len(stack)
  BY <1>1
<1>3. \A j \in 1..n : j > 1 => stack[j].si \in Elems(solist)
  <2> SUFFICES ASSUME NEW j \in 1..n, j > 1 PROVE stack[j].si \in Elems(solist)
    OBVIOUS
  <2>1. stack[j] \in Frame /\ stack[j].fn \in {"ctor", "selfwait"}
    BY <1>1, <1>2 DEF RefInv, TypeInv, TypeOK
  <2>2. stack[j].si # NULL
    BY <2>1, SlotFacts DEF Frame
  <2>3. QED
    BY <1>2, <2>1, <2>2 DEF RefInv, OpenOK, Live
<1>4. \A j \in 1..n : j > 1 /\ j < n => stack[j + 1].si \in Elems(so[stack[j].si].needed)
  <2> SUFFICES ASSUME NEW j \in 1..n, j > 1, j < n
               PROVE  stack[j + 1].si \in Elems(so[stack[j].si].needed)
    OBVIOUS
  <2>1. CtorOK(j, stack[j].si, stack[j].i)
    BY <1>1, <1>2 DEF InitInv, CtorsOK, Constructing
  <2>2. /\ stack[j].i - 1 \in DOMAIN so[stack[j].si].needed
        /\ stack[j + 1].si = so[stack[j].si].needed[stack[j].i - 1]
    BY <1>2, <2>1 DEF CtorOK, BoundEntry
  <2>3. QED
    BY <2>2 DEF Elems
<1>5. SUFFICES ASSUME stack[k].si = stack[n].si PROVE FALSE
  BY <1>1, <1>2
<1>6. PICK S : S = {stack[j].si : j \in k..n}
  OBVIOUS
<1>7. S \in (SUBSET Elems(solist)) \ {{}}
  <2>1. S \subseteq Elems(solist)
    <3>1. \A j \in k..n : j \in 1..n /\ j > 1
      BY <1>2
    <3>2. QED
      BY <1>3, <1>6, <3>1
  <2>2. k \in k..n
    BY <1>2
  <2>3. stack[k].si \in S
    BY <1>6, <2>2
  <2>4. QED
    BY <2>1, <2>3
<1>8. PICK s \in S : Elems(so[s].needed) \cap S = {}
  BY <1>7 DEF InitInv, NeededAcyclic
<1>9. PICK j \in k..n : s = stack[j].si
  BY <1>6, <1>8
<1>10. PICK m \in k..n : m < n /\ s = stack[m].si
  <2>1. CASE j < n
    BY <1>9, <2>1
  <2>2. CASE j = n
    BY <1>2, <1>5, <1>9, <2>2
  <2>3. QED
    BY <1>2, <2>1, <2>2
<1>11. m \in 1..n /\ m > 1 /\ m + 1 \in k..n
  BY <1>2, <1>10
<1>12. stack[m + 1].si \in Elems(so[s].needed)
  BY <1>4, <1>10, <1>11
<1>13. stack[m + 1].si \in S
  BY <1>6, <1>11
<1>14. QED
  BY <1>8, <1>12, <1>13

\* A constructor activation that ends leaves its library initialized.
LEMMA CtorPopInit ==
    ASSUME RefInv, InitInv, RefInv', NeededAcyclic', Running("ctor"), Pop,
           UNCHANGED <<so, solist, handles, req, lock>>, NEW s, s = Top.si,
           inited' = inited \cup {s}, so[s].constructors_called,
           \A j \in Nat : BoundEntry(s, j) => so[s].needed[j] \in inited
    PROVE  InitInv'
<1>1. /\ ~ret.done /\ Len(stack) \in Nat /\ Len(stack) >= 2 /\ Top = stack[Len(stack)]
      /\ stack[1].fn = "dlopen" /\ stack[1].si # NULL /\ s \in Slots /\ s \in Elems(solist)
      /\ \A k \in 1..Len(stack) : k > 1 => stack[k].fn \in {"ctor", "selfwait"}
  BY CtorPhase DEF Live
<1>2. PICK n \in Nat : n = Len(stack) /\ n >= 2 /\ stack[n].si = s
  BY <1>1
<1>3. /\ Len(stack') = n - 1 /\ stack' # << >>
      /\ \A k \in 1..(n - 1) : stack'[k] = stack[k] /\ k \in 1..n /\ k # n
  BY <1>2, PopShape
<1>4. stack'[1] = stack[1]
  BY <1>2, <1>3
<1>5. LinkMarks' /\ FinisOK'
  BY <1>1, <1>3, <1>4, PhaseNext DEF RefInv
<1>6. MarksOK'
  <2>1. \A u \in inited' : u \in Elems(solist)' /\ so'[u].constructors_called
    BY <1>1 DEF InitInv, MarksOK, Elems
  <2>2. ASSUME NEW u \in Elems(solist), u # s, so[u].constructors_called, u \notin inited PROVE Entered(u)'
    <3>1. PICK k \in 1..n : /\ stack[k].fn \in {"ctor", "selfwait", "unload"}
                            /\ stack[k].i > 0 /\ stack[k].si = u
      BY <1>2, <2>2 DEF InitInv, MarksOK, Entered
    <3>2. k # n
      BY <1>2, <2>2, <3>1
    <3>3. k \in 1..(n - 1)
      BY <3>2
    <3>4. QED
      BY <1>3, <3>1, <3>3 DEF Entered
  <2>3. Elems(solist)' = Elems(solist)
    BY DEF Elems
  <2>4. QED
    BY <2>1, <2>2, <2>3 DEF MarksOK
<1>7. DepsOK'
  BY DEF InitInv, DepsOK, BoundEntry
<1>8. HeldOK'
  BY DEF InitInv, HeldOK, Holds, Closing
<1>9. CtorsOK'
  <2> SUFFICES ASSUME NEW k \in 1..(n - 1), stack[k].fn \in {"ctor", "selfwait"}
               PROVE  CtorOK(k, stack[k].si, stack[k].i)'
    BY <1>3 DEF CtorsOK, Constructing
  <2>1. k > 1 /\ k < n /\ k \in 1..n
    BY <1>1, <1>2
  <2>2. PICK u, i : u = stack[k].si /\ i = stack[k].i /\ i \in Nat
    <3>1. stack[k] \in Frame
      BY <1>2, <2>1 DEF RefInv, TypeInv, TypeOK
    <3>2. stack[k].i \in Nat
      BY <3>1 DEF Frame
    <3>3. QED
      BY <3>2
  <2>3. CtorOK(k, u, i)
    BY <1>2, <2>1, <2>2 DEF InitInv, CtorsOK, Constructing
  <2>4. u # s
    BY <1>2, <2>1, <2>2, CtorApart
  <2>5. /\ i > 0 /\ so[u].constructors_called /\ u \notin inited /\ stack[k].fn # "selfwait"
        /\ BoundEntry(u, i - 1) /\ stack[k + 1].si = so[u].needed[i - 1]
        /\ \A j \in Nat : BoundEntry(u, j) /\ j < i => so[u].needed[j] \in inited \/ j = i - 1
    BY <1>2, <2>1, <2>3 DEF CtorOK
  <2>6. \A j \in Nat : BoundEntry(u, j) /\ j < i => so[u].needed[j] \in inited' \/ (k < n - 1 /\ j = i - 1)
    <3> SUFFICES ASSUME NEW j \in Nat, BoundEntry(u, j), j < i, ~(k < n - 1)
                 PROVE  so[u].needed[j] \in inited \cup {s} \/ (k < n - 1 /\ j = i - 1)
      BY <2>5
    <3>1. k + 1 = n
      BY <2>1
    <3>2. so[u].needed[i - 1] = s
      BY <1>2, <2>5, <3>1
    <3>3. QED
      BY <2>5, <3>2
  <2>7. k < n - 1 => stack'[k + 1] = stack[k + 1]
    <3>1. k < n - 1 => k + 1 \in 1..(n - 1)
      BY <2>1
    <3>2. QED
      BY <1>3, <3>1
  <2>8. stack'[k] = stack[k]
    BY <1>3
  <2>9. BoundEntry(u, i - 1)' /\ \A j \in Nat : BoundEntry(u, j)' <=> BoundEntry(u, j)
    BY <2>5 DEF BoundEntry
  <2>10. u \notin inited'
    BY <2>4, <2>5
  <2>11. CtorOK(k, u, i)'
    BY <1>3, <2>5, <2>6, <2>7, <2>8, <2>9, <2>10 DEF CtorOK
  <2>12. QED
    BY <2>2, <2>8, <2>11
<1>10. OpenedOK'
  <2>1. stack[2].si = stack[1].si
    BY <1>1 DEF InitInv, OpenedOK
  <2>2. n = 2 => stack[1].si = s
    BY <1>2, <2>1
  <2>3. n > 2 => stack'[2] = stack[2]
    BY <1>2, <1>3
  <2>4. n - 1 = 1 => n = 2
    OBVIOUS
  <2>5. n - 1 > 1 => n > 2
    OBVIOUS
  <2>6. QED
    BY <1>3, <1>4, <2>1, <2>2, <2>3, <2>4, <2>5 DEF OpenedOK
<1>11. QED
  BY <1>5, <1>6, <1>7, <1>8, <1>9, <1>10 DEF InitInv

\* A library that is already marked, or whose constructors have just run.
LEMMA CtorEndSteps ==
    ASSUME RefInv, InitInv, RefInv', NeededAcyclic', CtorAgain \/ CtorRun
    PROVE  InitInv' /\ (CtorRun => Top.si \notin inited)
<1>1. /\ Running("ctor") /\ Pop /\ UNCHANGED <<so, solist, handles, req, lock>>
  BY DEF CtorAgain, CtorRun, CtorDone, lib, hist
<1>2. PICK s \in Slots : s = Top.si
  BY <1>1, CtorPhase
<1>3. PICK n \in Nat : /\ n = Len(stack) /\ n >= 2 /\ Top = stack[n] /\ n \in 1..n /\ s \in Elems(solist)
                       /\ \A k \in 1..n : k > 1 => stack[k].fn \in {"ctor", "selfwait"}
                       /\ stack[1].fn = "dlopen" /\ Top.i \in Nat
  BY <1>1, <1>2, CtorPhase, OnTop DEF Live
<1>4. CtorOK(n, s, Top.i)
  BY <1>2, <1>3 DEF InitInv, CtorsOK, Constructing
<1>5. CASE CtorAgain
  <2>1. Top.i = 0 /\ so[s].constructors_called /\ UNCHANGED inited
    BY <1>2, <1>5 DEF CtorAgain, hist
  <2>2. s \in inited
    <3> SUFFICES ASSUME s \notin inited PROVE FALSE
      OBVIOUS
    <3>1. PICK k \in 1..n : stack[k].fn \in {"ctor", "selfwait", "unload"} /\ stack[k].i > 0 /\ stack[k].si = s
      BY <1>3, <2>1 DEF InitInv, MarksOK, Entered
    <3>2. k # n /\ k # 1
      BY <1>3, <2>1, <3>1
    <3>3. k > 1 /\ k < n
      BY <3>2
    <3>4. QED
      BY <1>1, <1>2, <1>3, <3>1, <3>3, CtorApart
  <2>3. inited' = inited \cup {s}
    BY <2>1, <2>2
  <2>4. \A j \in Nat : BoundEntry(s, j) => so[s].needed[j] \in inited
    BY <2>2 DEF InitInv, DepsOK
  <2>5. InitInv'
    BY <1>1, <1>2, <2>1, <2>3, <2>4, CtorPopInit
  <2>6. ~CtorRun
    BY <2>1 DEF CtorRun, CtorDone
  <2>7. QED
    BY <2>5, <2>6
<1>6. CASE CtorRun
  <2>1. Top.i = Len(so[s].needed) + 1 /\ inited' = inited \cup {s} /\ Top.i > 0
    BY <1>2, <1>6 DEF CtorRun, CtorDone, CtorDeps
  <2>2. so[s].constructors_called /\ s \notin inited
    BY <1>4, <2>1 DEF CtorOK
  <2>3. \A j \in Nat : BoundEntry(s, j) => so[s].needed[j] \in inited
    <3> SUFFICES ASSUME NEW j \in Nat, BoundEntry(s, j) PROVE so[s].needed[j] \in inited
      OBVIOUS
    <3>1. so[s].needed \in Seq(Slots \cup {NULL, RAW}) /\ j \in DOMAIN so[s].needed
      BY DEF RefInv, TypeInv, TypeOK, Soinfo, BoundEntry
    <3>2. j < Top.i
      BY <2>1, <3>1
    <3>3. QED
      BY <1>3, <1>4, <3>2 DEF CtorOK
  <2>4. InitInv'
    BY <1>1, <1>2, <2>1, <2>2, <2>3, CtorPopInit
  <2>5. QED
    BY <1>2, <2>2, <2>4
<1>7. QED
  BY <1>5, <1>6

\* A constructor activation that goes on: those below it stay as they are.
LEMMA CtorGoesOn ==
    ASSUME RefInv, InitInv, RefInv', NeededAcyclic', Running("ctor"),
           UNCHANGED <<solist, inited, handles, req, lock>>, NEW n \in Nat, n = Len(stack), NEW m \in Nat,
           m = Len(stack'), m >= n,
           \A k \in 1..n : k < n => stack'[k] = stack[k],
           stack'[n].si = Top.si, stack'[n].fn \in {"ctor", "selfwait"}, stack'[n].i \in Nat, stack'[n].i > 0,
           \A u \in Slots : /\ so'[u].needed = so[u].needed
                            /\ so[u].constructors_called => so'[u].constructors_called
                            /\ so'[u].constructors_called => so[u].constructors_called \/ u = Top.si,
           \A k \in 1..m : k >= n => CtorOK(k, stack[k].si, stack[k].i)'
    PROVE  InitInv'
<1>1. /\ n >= 2 /\ Top = stack[n] /\ stack[1].fn = "dlopen" /\ stack[1].si # NULL /\ Top.si \in Slots
      /\ \A k \in 1..n : k > 1 => stack[k].fn \in {"ctor", "selfwait"}
  BY CtorPhase
<1>2. stack'[1] = stack[1] /\ stack' # << >> /\ Elems(solist)' = Elems(solist) /\ Elems(solist) \subseteq Slots
  <2>1. stack'[1] = stack[1]
    BY <1>1
  <2>2. stack' # << >>
    BY <1>1
  <2>3. QED
    BY <2>1, <2>2 DEF Elems, RefInv, TypeInv, TypeOK
<1>3. LinkMarks' /\ FinisOK'
  BY <1>1, <1>2, PhaseNext DEF RefInv
<1>4. PICK s \in Slots : s = Top.si
  BY <1>1
<1>5. MarksOK'
  <2>1. \A u \in inited' : u \in Elems(solist)' /\ so'[u].constructors_called
    BY <1>2 DEF InitInv, MarksOK
  <2>2. Entered(s)'
    <3>1. n \in 1..m
      BY <1>1
    <3>2. QED
      BY <1>4, <3>1 DEF Entered
  <2>3. ASSUME NEW u \in Elems(solist), u # s, so[u].constructors_called, u \notin inited PROVE Entered(u)'
    <3>1. PICK k \in 1..n : /\ stack[k].fn \in {"ctor", "selfwait", "unload"}
                            /\ stack[k].i > 0 /\ stack[k].si = u
      BY <2>3 DEF InitInv, MarksOK, Entered
    <3>2. k < n /\ k \in 1..m
      BY <1>1, <1>4, <2>3, <3>1
    <3>3. QED
      BY <3>1, <3>2 DEF Entered
  <2>4. QED
    BY <1>2, <1>4, <2>1, <2>2, <2>3 DEF MarksOK
<1>6. DepsOK'
  <2>1. inited \subseteq Slots
    BY <1>2 DEF InitInv, MarksOK
  <2>2. QED
    BY <2>1 DEF InitInv, DepsOK, BoundEntry
<1>7. HeldOK'
  BY HeldKept DEF InitInv
<1>8. CtorsOK'
  <2> SUFFICES ASSUME NEW k \in 1..m, stack'[k].fn \in {"ctor", "selfwait"}
               PROVE  CtorOK(k, stack[k].si, stack[k].i)'
    BY DEF CtorsOK, Constructing
  <2>1. CASE k >= n
    BY <2>1
  <2>2. CASE k < n
    <3>1. k \in 1..n /\ stack'[k] = stack[k] /\ k + 1 \in 1..n /\ k < m
      BY <2>2
    <3>2. stack[k] \in Frame /\ stack[k].fn \in {"ctor", "selfwait"}
      BY <3>1 DEF RefInv, TypeInv, TypeOK
    <3>3. PICK u \in Slots, i \in Nat : u = stack[k].si /\ i = stack[k].i
      BY <3>2 DEF Frame
    <3>4. CtorOK(k, u, i)
      BY <3>1, <3>2, <3>3 DEF InitInv, CtorsOK, Constructing
    <3>5. stack'[k + 1].si = stack[k + 1].si
      <4>1. CASE k + 1 < n
        BY <3>1, <4>1
      <4>2. CASE k + 1 = n
        BY <1>1, <4>2
      <4>3. QED
        BY <3>1, <4>1, <4>2
    <3>6. \A j : BoundEntry(u, j)' <=> BoundEntry(u, j)
      BY DEF BoundEntry
    <3>7. CtorOK(k, u, i)'
      BY <2>2, <3>1, <3>4, <3>5, <3>6 DEF CtorOK
    <3>8. QED
      BY <3>1, <3>3, <3>7
  <2>3. QED
    BY <2>1, <2>2
<1>9. OpenedOK'
  <2>1. stack[2].si = stack[1].si
    BY <1>1 DEF InitInv, OpenedOK
  <2>2. stack'[2].si = stack[2].si
    <3>1. CASE n = 2
      BY <1>1, <3>1
    <3>2. CASE n > 2
      BY <3>2
    <3>3. QED
      BY <1>1, <3>1, <3>2
  <2>3. m > 1
    BY <1>1
  <2>4. QED
    BY <1>2, <2>1, <2>2, <2>3 DEF OpenedOK
<1>10. QED
  BY <1>3, <1>5, <1>6, <1>7, <1>8, <1>9 DEF InitInv

\* The steps of apkenv_call_constructors_recursive that do not return.
LEMMA CtorStepsInit ==
    ASSUME RefInv, InitInv, RefInv', NeededAcyclic', CtorEnter \/ CtorNeeded \/ CtorReenter
    PROVE  InitInv'
<1>1. /\ Running("ctor") /\ UNCHANGED <<solist, inited, handles, req, lock>>
  BY DEF CtorEnter, CtorNeeded, CtorReenter, CtorDone, lib, hist
<1>2. PICK s \in Slots : s = Top.si /\ s \in Elems(solist)
  BY <1>1, CtorPhase DEF Live
<1>3. PICK n \in Nat : /\ n = Len(stack) /\ n >= 2 /\ Top = stack[n] /\ n \in 1..n /\ stack \in Seq(Frame)
                       /\ stack # << >> /\ Top \in Frame /\ Top.i \in Nat /\ Top.fn = "ctor"
  BY <1>1, CtorPhase, OnTop
<1>4. PICK i \in Nat : i = Top.i
  BY <1>3
<1>5. CtorOK(n, s, i)
  BY <1>2, <1>3, <1>4 DEF InitInv, CtorsOK, Constructing
<1>6. so[s].needed \in Seq(Slots \cup {NULL, RAW}) /\ so[s] \in Soinfo
  BY DEF RefInv, TypeInv, TypeOK, Soinfo
<1>7. PICK f : f = [Top EXCEPT !.i = @ + 1]
  OBVIOUS
<1>8. f.fn = "ctor" /\ f.si = s /\ f.i = i + 1
  BY <1>2, <1>3, <1>4, <1>7 DEF Frame
<1>9. CASE CtorEnter
  <2>1. i = 0 /\ ~so[s].constructors_called /\ Skip
    BY <1>2, <1>4, <1>9 DEF CtorEnter
  <2>2. Len(stack') = n /\ \A k \in 1..n : stack'[k] = IF k = n THEN f ELSE stack[k]
    BY <1>3, <1>7, <2>1, SkipType
  <2>3. stack'[n] = f /\ \A k \in 1..n : k < n => stack'[k] = stack[k]
    BY <1>3, <2>2
  <2>4. /\ so'[s].constructors_called
        /\ \A u \in Slots : /\ so'[u].needed = so[u].needed
                            /\ u # s => so'[u].constructors_called = so[u].constructors_called
    BY <1>2, <1>9, CtorEnterInfo
  <2>5. s \notin inited
    BY <2>1 DEF InitInv, MarksOK
  <2>6. \A j \in Nat : ~(BoundEntry(s, j)' /\ j < 1)
    BY <1>6, <2>4 DEF BoundEntry
  <2>7. CtorOK(n, s, 1)'
    BY <1>1, <1>8, <2>2, <2>3, <2>4, <2>5, <2>6 DEF CtorOK
  <2>8. \A k \in 1..n : k >= n => CtorOK(k, stack[k].si, stack[k].i)'
    <3>1. stack'[n].si = s /\ stack'[n].i = 1
      BY <1>8, <2>1, <2>3
    <3>2. CtorOK(n, stack[n].si, stack[n].i)'
      BY <2>7, <3>1
    <3>3. QED
      BY <3>2
  <2>9. stack'[n].si = Top.si /\ stack'[n].fn \in {"ctor", "selfwait"} /\ stack'[n].i \in Nat /\ stack'[n].i > 0
    BY <1>2, <1>8, <2>3
  <2>10. \A u \in Slots : /\ so'[u].needed = so[u].needed
                          /\ so[u].constructors_called => so'[u].constructors_called
                          /\ so'[u].constructors_called => so[u].constructors_called \/ u = Top.si
    BY <1>2, <2>4
  <2>11. n = Len(stack') /\ n >= n /\ \A k \in 1..n : k < n => stack'[k] = stack[k]
    BY <1>3, <2>2, <2>3
  <2>12. QED
    BY <1>1, <1>3, <2>8, <2>9, <2>10, <2>11, CtorGoesOn
<1>10. CASE CtorNeeded
  <2>1. i \in DOMAIN so[s].needed /\ i > 0 /\ so' = so
    BY <1>2, <1>4, <1>6, <1>10 DEF CtorNeeded, CtorDeps, lib
  <2>2. PICK d : d = so[s].needed[i]
    OBVIOUS
  <2>3. IF d \in Slots THEN Step(Act("ctor", None, d, 0)) ELSE Skip
    BY <1>2, <1>4, <1>10, <2>2 DEF CtorNeeded, CtorDeps, IsSlot
  <2>4. PICK g : g = Act("ctor", None, d, 0)
    OBVIOUS
  <2>5. g.si = d /\ g.i = 0 /\ g.fn = "ctor" /\ (d \in Slots => g \in Frame)
    BY <2>4 DEF Act, Frame
  <2>6. PICK m \in Nat : /\ m = Len(stack') /\ (d \in Slots => m = n + 1 /\ stack'[n + 1] = g)
                         /\ (d \notin Slots => m = n)
                         /\ \A k \in 1..n : stack'[k] = IF k = n THEN f ELSE stack[k]
    <3>1. CASE d \in Slots
      <4>1. g \in Frame /\ Step(g)
        BY <2>3, <2>4, <2>5, <3>1
      <4>2. /\ Len(stack') = Len(stack) + 1 /\ stack'[Len(stack) + 1] = g
            /\ \A k \in 1..Len(stack) :
                  stack'[k] = IF k = Len(stack) THEN [Top EXCEPT !.i = @ + 1] ELSE stack[k]
        BY <1>3, <4>1, StepType
      <4>3. /\ Len(stack') = n + 1 /\ stack'[n + 1] = g
            /\ \A k \in 1..n : stack'[k] = IF k = n THEN f ELSE stack[k]
        BY <1>3, <1>7, <4>2, Zenon
      <4>4. n + 1 \in Nat
        BY <1>3
      <4>5. QED
        BY <3>1, <4>3, <4>4, Zenon
    <3>2. CASE d \notin Slots
      BY <1>3, <1>7, <2>3, <3>2, SkipType
    <3>3. QED
      BY <3>1, <3>2
  <2>7. stack'[n] = f /\ \A k \in 1..n : k < n => stack'[k] = stack[k]
    BY <1>3, <2>6
  <2>8. CtorOK(n, s, i + 1)'
    <3>1. so[s].constructors_called /\ s \notin inited
      BY <1>5, <2>1 DEF CtorOK
    <3>2. \A j \in Nat : BoundEntry(s, j) /\ j < i => so[s].needed[j] \in inited
      BY <1>3, <1>5 DEF CtorOK
    <3>3. \A j \in Nat : j < i + 1 => j < i \/ j = i
      OBVIOUS
    <3>4. n < m <=> d \in Slots
      BY <2>6
    <3>5. BoundEntry(s, i) <=> d \in Slots
      BY <2>1, <2>2 DEF BoundEntry
    <3>6. \A j \in Nat : BoundEntry(s, j) /\ j < i + 1 =>
              so[s].needed[j] \in inited \/ (n < m /\ j = (i + 1) - 1)
      BY <3>2, <3>3, <3>4, <3>5
    <3>7. n < m => BoundEntry(s, (i + 1) - 1) /\ stack'[n + 1].si = so[s].needed[(i + 1) - 1]
      <4>1. (i + 1) - 1 = i
        OBVIOUS
      <4>2. QED
        BY <2>2, <2>5, <2>6, <3>4, <3>5, <4>1
    <3>8. \A j : BoundEntry(s, j)' <=> BoundEntry(s, j)
      BY <2>1 DEF BoundEntry
    <3>9. QED
      BY <1>1, <1>8, <2>1, <2>6, <2>7, <3>1, <3>6, <3>7, <3>8 DEF CtorOK
  <2>9. d \in Slots => CtorOK(n + 1, d, 0)'
    <3>1. \A j \in Nat : ~(j < 0)
      OBVIOUS
    <3>2. d \in Slots => ~(n + 1 < m) /\ stack'[n + 1].fn = "ctor"
      BY <2>5, <2>6
    <3>3. QED
      BY <2>6, <3>1, <3>2 DEF CtorOK
  <2>10. \A k \in 1..m : k >= n => CtorOK(k, stack[k].si, stack[k].i)'
    <3> SUFFICES ASSUME NEW k \in 1..m, k >= n PROVE CtorOK(k, stack[k].si, stack[k].i)'
      OBVIOUS
    <3>1. CASE k = n
      <4>1. stack'[n].si = s /\ stack'[n].i = i + 1
        BY <1>8, <2>7
      <4>2. QED
        BY <2>8, <3>1, <4>1
    <3>2. CASE k # n
      <4>1. k = n + 1 /\ d \in Slots
        BY <2>6, <3>2
      <4>2. stack'[n + 1].si = d /\ stack'[n + 1].i = 0
        BY <2>5, <2>6, <4>1
      <4>3. QED
        BY <2>9, <4>1, <4>2
    <3>3. QED
      BY <3>1, <3>2
  <2>11. stack'[n].si = Top.si /\ stack'[n].fn \in {"ctor", "selfwait"} /\ stack'[n].i \in Nat /\ stack'[n].i > 0
    BY <1>2, <1>8, <2>7
  <2>12. m >= n
    BY <2>6
  <2>13. QED
    BY <1>1, <1>3, <2>1, <2>6, <2>7, <2>10, <2>11, <2>12, CtorGoesOn
<1>11. CASE CtorReenter
  <2>1. i > 0 /\ so' = so /\ SetTop([Top EXCEPT !.fn = "selfwait"])
    BY <1>4, <1>11 DEF CtorReenter, CtorDone, lib
  <2>2. PICK g : g = [Top EXCEPT !.fn = "selfwait"]
    OBVIOUS
  <2>3. g \in Frame /\ g.fn = "selfwait" /\ g.si = s /\ g.i = i
    BY <1>2, <1>3, <1>4, <2>2 DEF Frame
  <2>4. Len(stack') = n /\ \A k \in 1..n : stack'[k] = IF k = n THEN g ELSE stack[k]
    BY <1>3, <2>1, <2>2, <2>3, SetTopType
  <2>5. stack'[n] = g /\ \A k \in 1..n : k < n => stack'[k] = stack[k]
    BY <1>3, <2>4
  <2>6. \A j : BoundEntry(s, j)' <=> BoundEntry(s, j)
    BY <2>1 DEF BoundEntry
  <2>7. CtorOK(n, s, i)'
    BY <1>1, <1>3, <1>5, <2>1, <2>3, <2>4, <2>5, <2>6 DEF CtorOK
  <2>8. \A k \in 1..n : k >= n => CtorOK(k, stack[k].si, stack[k].i)'
    <3>1. stack'[n].si = s /\ stack'[n].i = i
      BY <2>3, <2>5
    <3>2. CtorOK(n, stack[n].si, stack[n].i)'
      BY <2>7, <3>1
    <3>3. QED
      BY <3>2
  <2>9. stack'[n].si = Top.si /\ stack'[n].fn \in {"ctor", "selfwait"} /\ stack'[n].i \in Nat /\ stack'[n].i > 0
    BY <1>2, <2>1, <2>3, <2>5
  <2>10. QED
    BY <1>1, <1>3, <2>1, <2>4, <2>5, <2>8, <2>9, CtorGoesOn
<1>12. QED
  BY <1>9, <1>10, <1>11

\* bionic_dlopen has found its library and calls the constructors.
LEMMA DlopenFoundInit ==
    ASSUME RefInv, InitInv, RefInv', NeededAcyclic', DlopenFound
    PROVE  InitInv'
<1>1. /\ Running("dlopen") /\ ret.done /\ ret.si # NULL /\ UNCHANGED <<so, solist, inited, handles, req, lock>>
      /\ stack' = Append([stack EXCEPT ![Len(stack)].si = ret.si], Act("ctor", None, ret.si, 0))
  BY DEF DlopenFound, lib, hist
<1>2. /\ Len(stack) = 1 /\ stack[1] = Top /\ Top \in Frame /\ stack \in Seq(Frame) /\ stack # << >>
      /\ Top.fn = "dlopen" /\ 1 \in 1..Len(stack)
  <2>1. PICK n \in Nat : /\ n = Len(stack) /\ n >= 1 /\ stack[n] = Top /\ stack[n].fn = "dlopen"
                         /\ stack \in Seq(Frame) /\ stack # << >> /\ Top \in Frame /\ n = 1
    BY <1>1, OnTop
  <2>2. QED
    BY <2>1
<1>3. Top.si = NULL
  BY <1>1, <1>2 DEF RefInv, RetOK
<1>4. PICK s \in Slots : s = ret.si
  BY <1>1 DEF RefInv, TypeInv, TypeOK, Result
<1>5. PICK f : f = [Top EXCEPT !.si = s]
  OBVIOUS
<1>6. f \in Frame /\ f.si = s /\ f.fn = "dlopen"
  BY <1>2, <1>5 DEF Frame
<1>7. PICK v : v = [stack EXCEPT ![1].si = s]
  OBVIOUS
<1>8. v \in Seq(Frame) /\ Len(v) = 1 /\ v[1] = f
  <2>1. v = [stack EXCEPT ![1] = f]
    BY <1>2, <1>5, <1>7
  <2>2. QED
    BY <1>2, <1>6, <2>1
<1>9. PICK g : g = Act("ctor", None, s, 0)
  OBVIOUS
<1>10. g.fn = "ctor" /\ g.si = s /\ g.i = 0 /\ g \in Frame
  BY <1>9 DEF Act, Frame
<1>11. stack' = Append(v, g)
  BY <1>1, <1>2, <1>4, <1>7, <1>9
<1>12. Len(stack') = 2 /\ stack'[1] = f /\ stack'[2] = g
  <2>1. v \in Seq(Frame) /\ g \in Frame
    BY <1>8, <1>10
  <2>2. /\ Len(Append(v, g)) = Len(v) + 1 /\ Append(v, g)[Len(v) + 1] = g
        /\ \A k \in 1..Len(v) : Append(v, g)[k] = v[k]
    BY <2>1, AppendProperties
  <2>3. QED
    BY <1>8, <1>11, <2>2
<1>13. stack' # << >>
  BY <1>12
<1>14. s # NULL
  BY <1>4, SlotFacts
<1>15. LinkMarks' /\ FinisOK'
  BY <1>6, <1>12, <1>13, <1>14, PhaseNext DEF RefInv
<1>16. OpenedOK'
  BY <1>6, <1>10, <1>12 DEF OpenedOK
<1>17. \A u : ~Entered(u)
  BY <1>2, <1>3, NoneEntered DEF RefInv
<1>18. MarksOK'
  <2>1. Elems(solist)' = Elems(solist)
    BY <1>1 DEF Elems
  <2>2. QED
    BY <1>1, <1>17, <2>1 DEF InitInv, MarksOK
<1>19. DepsOK'
  BY <1>1 DEF InitInv, DepsOK, BoundEntry
<1>20. HeldOK'
  BY <1>1, HeldKept DEF InitInv
<1>21. CtorsOK'
  <2> SUFFICES ASSUME NEW k \in 1..2, stack'[k].fn \in {"ctor", "selfwait"}
               PROVE  CtorOK(k, stack[k].si, stack[k].i)'
    BY <1>12 DEF CtorsOK, Constructing
  <2>1. k = 2
    BY <1>6, <1>12
  <2>2. \A j \in Nat : ~(j < 0)
    OBVIOUS
  <2>3. CtorOK(2, s, 0)'
    BY <1>10, <1>12, <2>2 DEF CtorOK
  <2>4. stack'[k].si = s /\ stack'[k].i = 0
    BY <1>10, <1>12, <2>1
  <2>5. QED
    BY <2>1, <2>3, <2>4
<1>22. QED
  BY <1>15, <1>16, <1>18, <1>19, <1>20, <1>21 DEF InitInv

\* The end of a call: what it gives to the application is initialized.
LEMMA ReleaseInit ==
    ASSUME RefInv, InitInv, RefInv', NeededAcyclic', DlopenReturn \/ DlopenOther \/ DlcloseReturn
    PROVE  InitInv'
<1>1. UNCHANGED inited /\ Release /\ (Running("dlopen") \/ Running("dlclose"))
  BY DEF DlopenReturn, DlopenOther, DlcloseReturn, hist
<1>2. /\ Len(stack) = 1 /\ stack[1] = Top /\ stack # << >> /\ Top.fn \in {"dlopen", "dlclose"} /\ Top \in Frame
      /\ lock \in Threads
  <2>1. ASSUME NEW fn \in {"dlopen", "dlclose"}, Running(fn)
        PROVE  /\ Len(stack) = 1 /\ stack[1] = Top /\ stack # << >> /\ Top.fn = fn /\ Top \in Frame /\ lock \in Threads
    <3>1. PICK n \in Nat : /\ n = Len(stack) /\ n >= 1 /\ stack[n] = Top /\ stack[n].fn = fn
                           /\ stack \in Seq(Frame) /\ stack # << >> /\ Top \in Frame /\ n = 1 /\ lock \in Threads
      BY <2>1, OnTop
    <3>2. QED
      BY <3>1
  <2>2. QED
    BY <1>1, <2>1
<1>3. SameDeps
  <2>1. CASE DlopenReturn
    BY <2>1, InfoSteps
  <2>2. CASE DlopenOther \/ DlcloseReturn
    BY <2>2 DEF DlopenOther, DlcloseReturn, lib, SameDeps
  <2>3. QED
    BY <2>1, <2>2
<1>4. stack' = << >> /\ Len(stack') = 0
  BY <1>1 DEF Release
<1>5. LinkMarks' /\ CtorsOK' /\ OpenedOK' /\ FinisOK'
  BY <1>4 DEF LinkMarks, CtorsOK, OpenedOK, FinisOK
<1>6. Elems(solist)' = Elems(solist) /\ Elems(solist) \subseteq Slots
  BY <1>3 DEF SameDeps, Elems, RefInv, TypeInv, TypeOK
<1>7. MarksOK'
  <2>1. \A u : ~Entered(u)
    BY <1>2 DEF Entered
  <2>2. QED
    BY <1>1, <1>3, <1>6, <2>1 DEF InitInv, MarksOK, SameDeps
<1>8. DepsOK'
  <2>1. inited \subseteq Slots
    BY <1>6 DEF InitInv, MarksOK
  <2>2. QED
    BY <1>1, <1>3, <2>1 DEF InitInv, DepsOK, BoundEntry, SameDeps
<1>9. \A d \in Slots : Closing(d)' \subseteq Closing(d)
  <2>1. lock' = None /\ req' = [req EXCEPT ![lock] = None] /\ req \in [Threads -> Request \cup {None}]
    BY <1>1 DEF Release, RefInv, TypeInv, TypeOK
  <2>2. \A t \in Threads : req'[t] # None => t # lock /\ req'[t] = req[t]
    BY <1>2, <2>1
  <2>3. QED
    BY <2>2 DEF Closing
<1>10. \A d \in Slots : handles'[d] > 0 => handles[d] > 0 \/ d \in inited
  <2>1. CASE DlopenReturn
    <3>1. handles' = [handles EXCEPT ![Top.si] = @ + 1] /\ Top.si # NULL /\ Top.fn = "dlopen"
      BY <2>1 DEF DlopenReturn, Running
    <3>2. Top.si \in inited
      BY <1>2, <3>1 DEF InitInv, OpenedOK
    <3>3. handles \in [Slots -> Nat]
      BY DEF RefInv, TypeInv, TypeOK
    <3>4. QED
      BY <3>1, <3>2, <3>3
  <2>2. CASE DlopenOther \/ DlcloseReturn
    BY <2>2 DEF DlopenOther, DlcloseReturn, hist
  <2>3. QED
    BY <2>1, <2>2
<1>11. HeldOK'
  BY <1>1, <1>9, <1>10 DEF InitInv, HeldOK, Holds
<1>12. QED
  BY <1>5, <1>7, <1>8, <1>11 DEF InitInv

\* Nothing but the references changes when a call is made.
LEMMA SameCoreInit ==
    ASSUME TypeInv, InitInv, UNCHANGED <<so, solist, stack, inited>>, HeldOK'
    PROVE  InitInv'
<1>1. NeededAcyclic' /\ MarksOK' /\ DepsOK'
  <2>1. Elems(solist)' = Elems(solist) /\ \A u : Entered(u)' <=> Entered(u)
    BY DEF Elems, Entered
  <2>2. NeededAcyclic'
    BY <2>1, AcyclicKept DEF InitInv
  <2>3. MarksOK'
    BY <2>1 DEF InitInv, MarksOK
  <2>4. DepsOK'
    BY DEF InitInv, DepsOK, BoundEntry
  <2>5. QED
    BY <2>2, <2>3, <2>4
<1>2. LinkMarks' /\ OpenedOK' /\ FinisOK'
  BY DEF InitInv, LinkMarks, Linking, OpenedOK, FinisOK, FiniOK, BoundEntry
<1>3. CtorsOK'
  BY DEF InitInv, CtorsOK, CtorOK, Constructing, BoundEntry
<1>4. QED
  BY <1>1, <1>2, <1>3 DEF InitInv

\* The application closes only what it holds.
LEMMA CallInit ==
    ASSUME RefInv, InitInv, NEW t \in Threads, Call(t)
    PROVE  InitInv'
<1>1. UNCHANGED <<so, solist, stack, inited, lock>> /\ req[t] = None
  BY DEF Call, CallDlopen, CallDlclose, CallDlcloseForeign, lib
<1>2. req \in [Threads -> Request \cup {None}] /\ handles \in [Slots -> Nat]
  BY DEF RefInv, TypeInv, TypeOK
<1>3. ASSUME NEW r, req' = [req EXCEPT ![t] = r], NEW d \in Slots, Closing(d)' # {}, r.op # "dlclose" \/ r.arg # d
      PROVE  Closing(d) # {}
  <2>1. PICK u \in Threads : /\ req'[u] # None /\ lock' # u
                             /\ req'[u].op = "dlclose" /\ req'[u].arg = d
    BY <1>3 DEF Closing
  <2>2. u # t /\ req'[u] = req[u]
    BY <1>2, <1>3, <2>1
  <2>3. u \in Closing(d)
    BY <1>1, <2>1, <2>2 DEF Closing
  <2>4. QED
    BY <2>3
<1>4. HeldOK'
  <2> SUFFICES ASSUME NEW d \in Slots, handles'[d] > 0 \/ Closing(d)' # {} PROVE d \in inited
    BY <1>1 DEF HeldOK, Holds
  <2>1. CASE \E p \in Paths : CallDlopen(t, p)
    <3>1. PICK p \in Paths : req' = [req EXCEPT ![t] = [op |-> "dlopen", arg |-> p]] /\ handles' = handles
      BY <2>1 DEF CallDlopen
    <3>2. PICK r : r = [op |-> "dlopen", arg |-> p]
      OBVIOUS
    <3>3. req' = [req EXCEPT ![t] = r] /\ r.op # "dlclose"
      BY <3>1, <3>2
    <3>4. Closing(d)' # {} => Closing(d) # {}
      BY <1>3, <3>3
    <3>5. QED
      BY <3>1, <3>4 DEF InitInv, HeldOK, Holds
  <2>2. CASE \E s \in Slots : CallDlclose(t, s)
    <3>1. PICK s \in Slots : /\ req' = [req EXCEPT ![t] = [op |-> "dlclose", arg |-> s]]
                             /\ handles[s] > 0 /\ handles' = [handles EXCEPT ![s] = @ - 1]
      BY <2>2 DEF CallDlclose
    <3>2. PICK r : r = [op |-> "dlclose", arg |-> s]
      OBVIOUS
    <3>3. req' = [req EXCEPT ![t] = r] /\ r.arg = s
      BY <3>1, <3>2
    <3>4. handles'[d] > 0 => handles[d] > 0
      BY <1>2, <3>1
    <3>5. CASE d = s
      BY <3>1, <3>5 DEF InitInv, HeldOK, Holds
    <3>6. CASE d # s
      <4>1. Closing(d)' # {} => Closing(d) # {}
        BY <1>3, <3>3, <3>6
      <4>2. QED
        BY <3>4, <4>1 DEF InitInv, HeldOK, Holds
    <3>7. QED
      BY <3>5, <3>6
  <2>3. CASE CallDlcloseForeign(t)
    <3>1. /\ req' = [req EXCEPT ![t] = [op |-> "dlclose", arg |-> NULL]] /\ handles' = handles
      BY <2>3 DEF CallDlcloseForeign
    <3>2. PICK r : r = [op |-> "dlclose", arg |-> NULL]
      OBVIOUS
    <3>3. req' = [req EXCEPT ![t] = r] /\ r.arg # d
      BY <3>1, <3>2, SlotFacts
    <3>4. Closing(d)' # {} => Closing(d) # {}
      BY <1>3, <3>3
    <3>5. QED
      BY <3>1, <3>4 DEF InitInv, HeldOK, Holds
  <2>4. QED
    BY <2>1, <2>2, <2>3 DEF Call
<1>5. QED
  BY <1>1, <1>4, SameCoreInit DEF RefInv

\* The lock is granted: a close starts on a library its caller held.
LEMMA AcquireInit ==
    ASSUME RefInv, InitInv, RefInv', NeededAcyclic', NEW t \in Threads, Acquire(t)
    PROVE  InitInv'
<1>1. /\ UNCHANGED <<so, solist, inited, handles, req>> /\ lock = None /\ lock' = t /\ req[t] # None
  BY DEF Acquire, lib, hist
<1>2. stack = << >> /\ Len(stack) = 0
  BY <1>1 DEF RefInv, Shape
<1>3. \A u : ~Entered(u)
  BY <1>2 DEF Entered
<1>4. MarksOK' /\ DepsOK'
  <2>1. Elems(solist)' = Elems(solist)
    BY <1>1 DEF Elems
  <2>2. QED
    BY <1>1, <1>3, <2>1 DEF InitInv, MarksOK, DepsOK, BoundEntry
<1>5. t # None
  BY ConstantsAssumption
<1>6. HeldOK'
  <2>1. \A d \in Slots : Closing(d)' \subseteq Closing(d)
    BY <1>1, ConstantsAssumption DEF Closing
  <2>2. QED
    BY <1>1, <2>1 DEF InitInv, HeldOK, Holds
<1>7. CASE req[t].op = "dlopen"
  <2>1. stack' = <<Act("dlopen", req[t].arg, NULL, 0), Act("find", req[t].arg, NULL, 0)>>
    BY <1>7 DEF Acquire
  <2>2. /\ stack' # << >> /\ Len(stack') = 2 /\ stack'[1].fn = "dlopen" /\ stack'[1].si = NULL /\ stack'[2].fn = "find"
    BY <2>1 DEF Act
  <2>3. CtorsOK' /\ OpenedOK' /\ FinisOK'
    BY <2>2, PhaseNext DEF RefInv
  <2>4. LinkMarks'
    BY <2>2 DEF LinkMarks, Linking
  <2>5. QED
    BY <1>4, <1>6, <2>3, <2>4 DEF InitInv
<1>8. CASE req[t].op # "dlopen" /\ req[t].arg = NULL
  <2>1. stack' = stack
    BY <1>8 DEF Acquire
  <2>2. LinkMarks' /\ CtorsOK' /\ OpenedOK' /\ FinisOK'
    BY <1>2, <2>1 DEF LinkMarks, CtorsOK, OpenedOK, FinisOK
  <2>3. QED
    BY <1>4, <1>6, <2>2 DEF InitInv
<1>9. CASE req[t].op # "dlopen" /\ req[t].arg # NULL
  <2>1. stack' = <<Act("dlclose", None, req[t].arg, 0), Act("unload", None, req[t].arg, 0)>>
    BY <1>9 DEF Acquire
  <2>2. PICK s \in Slots : s = req[t].arg /\ req[t].op = "dlclose"
    <3>1. req[t] \in Request
      BY <1>1 DEF RefInv, TypeInv, TypeOK
    <3>2. QED
      BY <1>9, <3>1 DEF Request
  <2>3. /\ stack' # << >> /\ Len(stack') = 2 /\ stack'[1].fn = "dlclose"
        /\ stack'[2].fn = "unload" /\ stack'[2].si = s /\ stack'[2].i = 0
    BY <2>1, <2>2 DEF Act
  <2>4. t \in Closing(s)
    BY <1>1, <1>5, <2>2 DEF Closing
  <2>5. s \in inited
    BY <2>4 DEF InitInv, HeldOK
  <2>6. LinkMarks' /\ CtorsOK' /\ OpenedOK'
    BY <2>3, PhaseNext DEF RefInv
  <2>7. FiniOK(s, 0)'
    BY <1>1, <2>5 DEF FiniOK
  <2>8. FinisOK'
    <3> SUFFICES ASSUME NEW k \in 1..2, stack'[k].fn = "unload" PROVE FiniOK(stack[k].si, stack[k].i)'
      BY <2>3 DEF FinisOK
    <3>1. k = 2
      BY <2>3
    <3>2. stack'[k].si = s /\ stack'[k].i = 0
      BY <2>3, <3>1
    <3>3. QED
      BY <2>7, <3>2
  <2>9. QED
    BY <1>4, <1>6, <2>6, <2>8 DEF InitInv
<1>10. QED
  BY <1>7, <1>8, <1>9

\* In apkenv_unload_library: entries may go, libraries that are not
\* initialized may go, and the activations stay where destructors belong.
LEMMA UnloadKeeps ==
    ASSUME RefInv, InitInv, RefInv', NeededAcyclic', UNCHANGED <<inited, handles, req, lock>>,
           stack' # << >>, stack'[1].fn = "dlclose",
           Elems(solist)' \subseteq Elems(solist), inited \subseteq Elems(solist)',
           \A u \in Slots : so'[u].constructors_called = so[u].constructors_called,
           \A u \in Slots : \A j \in Nat : BoundEntry(u, j)' =>
               BoundEntry(u, j) /\ so'[u].needed[j] = so[u].needed[j],
           \A u \in Elems(solist)' : Entered(u) => Entered(u)',
           FinisOK'
    PROVE  InitInv'
<1>1. Elems(solist) \subseteq Slots
  BY DEF RefInv, TypeInv, TypeOK, Elems
<1>2. LinkMarks' /\ CtorsOK' /\ OpenedOK'
  BY PhaseNext DEF RefInv
<1>3. MarksOK'
  BY <1>1 DEF InitInv, MarksOK
<1>4. DepsOK'
  <2> SUFFICES ASSUME NEW s \in inited, NEW j \in Nat, BoundEntry(s, j)' PROVE so'[s].needed[j] \in inited
    BY DEF DepsOK
  <2>1. s \in Slots
    BY <1>1
  <2>2. QED
    BY <2>1 DEF InitInv, DepsOK
<1>5. HeldOK'
  BY HeldKept DEF InitInv
<1>6. QED
  BY <1>2, <1>3, <1>4, <1>5 DEF InitInv

\* A shared reference is given up.
LEMMA UnloadSharedInit ==
    ASSUME RefInv, InitInv, RefInv', NeededAcyclic', UnloadShared
    PROVE  InitInv'
<1>1. Running("unload") /\ Pop /\ Top.i = 0 /\ UNCHANGED <<inited, handles, req, lock>>
  BY DEF UnloadShared, hist
<1>2. SameDeps
  BY InfoSteps
<1>3. PICK n \in Nat : /\ n = Len(stack) /\ n >= 2 /\ Top = stack[n] /\ stack[1].fn = "dlclose"
  BY <1>1, UnloadPhase
<1>4. /\ Len(stack') = n - 1 /\ stack' # << >>
      /\ \A k \in 1..(n - 1) : stack'[k] = stack[k] /\ k \in 1..n /\ k # n
  BY <1>1, <1>3, PopShape
<1>5. stack'[1] = stack[1]
  BY <1>3, <1>4
<1>6. Elems(solist)' = Elems(solist)
  BY <1>2 DEF SameDeps, Elems
<1>7. inited \subseteq Elems(solist)
  BY DEF InitInv, MarksOK
<1>8. \A u \in Slots : so'[u].constructors_called = so[u].constructors_called
  BY <1>2 DEF SameDeps
<1>9. \A u \in Slots : \A j \in Nat : /\ BoundEntry(u, j)' => BoundEntry(u, j)
                                      /\ so'[u].needed[j] = so[u].needed[j]
  BY <1>2 DEF SameDeps, BoundEntry
<1>10. \A u : Entered(u) => Entered(u)'
  <2> SUFFICES ASSUME NEW u, Entered(u) PROVE Entered(u)'
    OBVIOUS
  <2>1. PICK k \in 1..n : /\ stack[k].fn \in {"ctor", "selfwait", "unload"} /\ stack[k].i > 0 /\ stack[k].si = u
    BY <1>3 DEF Entered
  <2>2. k # n
    BY <1>1, <1>3, <2>1
  <2>3. k \in 1..(n - 1)
    BY <2>2
  <2>4. QED
    BY <1>4, <2>1, <2>3 DEF Entered
<1>11. FinisOK'
  <2> SUFFICES ASSUME NEW k \in 1..(n - 1), stack[k].fn = "unload" PROVE FiniOK(stack[k].si, stack[k].i)'
    BY <1>4 DEF FinisOK
  <2>1. stack[k] \in Frame /\ stack'[k] = stack[k] /\ k \in 1..n
    BY <1>3, <1>4 DEF RefInv, TypeInv, TypeOK
  <2>2. PICK u \in Slots, i \in Nat : u = stack[k].si /\ i = stack[k].i
    BY <2>1 DEF Frame
  <2>3. FiniOK(u, i)
    BY <1>3, <2>1, <2>2 DEF InitInv, FinisOK
  <2>4. FiniOK(u, i)'
    BY <1>1, <1>9, <2>3 DEF FiniOK
  <2>5. QED
    BY <2>1, <2>2, <2>4
<1>12. QED
  BY <1>1, <1>3, <1>4, <1>5, <1>6, <1>7, <1>8, <1>9, <1>10, <1>11, UnloadKeeps

\* Destructors run in an initialized library that nothing refers to.
LEMMA UnloadEnterInit ==
    ASSUME RefInv, InitInv, RefInv', NeededAcyclic', UnloadEnter
    PROVE  InitInv' /\ Top.si \in inited
<1>1. /\ Running("unload") /\ Top.i = 0 /\ so[Top.si].refcount = 1 /\ Skip /\ inited' = inited \ {Top.si}
      /\ UNCHANGED <<so, solist, handles, req, lock>>
  BY DEF UnloadEnter, LastReference, lib
<1>2. PICK n \in Nat, s \in Slots :
              /\ n = Len(stack) /\ n >= 2 /\ n \in 1..n /\ stack \in Seq(Frame) /\ stack # << >>
              /\ Top = stack[n] /\ Top.si = s /\ Top \in Frame
              /\ Top.fn = "unload" /\ stack[1].fn = "dlclose"
              /\ \A k \in 1..n : k > 1 => stack[k].fn = "unload" /\ (k < n => stack[k].i > 0)
              /\ n \in UnloadFrames(s)
  BY <1>1, UnloadPhase
<1>3. handles[s] = 0 /\ Closing(s) = {} /\ NeededRefs(s) = {}
  BY <1>1, <1>2, Counted DEF RefInv
<1>4. s \in inited
  <2>1. FiniOK(s, 0)
    BY <1>1, <1>2 DEF InitInv, FinisOK
  <2>2. QED
    BY <2>1 DEF FiniOK
<1>5. \A u \in Slots : \A j \in Nat : BoundEntry(u, j) => so[u].needed[j] # s
  <2> SUFFICES ASSUME NEW u \in Slots, NEW j \in Nat, BoundEntry(u, j), so[u].needed[j] = s PROVE FALSE
    OBVIOUS
  <2>1. j \in Entries(u, s)
    BY DEF Entries, BoundEntry
  <2>2. <<u, j>> \in NeededRefs(s)
    BY <2>1, RefMember
  <2>3. QED
    BY <1>3, <2>2
<1>6. PICK f : f = [Top EXCEPT !.i = @ + 1]
  OBVIOUS
<1>7. f.fn = "unload" /\ f.si = s /\ f.i = 1
  BY <1>1, <1>2, <1>6 DEF Frame
<1>8. Len(stack') = n /\ \A k \in 1..n : stack'[k] = IF k = n THEN f ELSE stack[k]
  BY <1>1, <1>2, <1>6, SkipType
<1>9. stack'[n] = f /\ stack'[1] = stack[1] /\ stack' # << >> /\ \A k \in 1..n : k # n => stack'[k] = stack[k]
  BY <1>2, <1>8
<1>10. LinkMarks' /\ CtorsOK' /\ OpenedOK'
  BY <1>2, <1>9, PhaseNext DEF RefInv
<1>11. Elems(solist)' = Elems(solist) /\ Elems(solist) \subseteq Slots
  BY <1>1 DEF Elems, RefInv, TypeInv, TypeOK
<1>12. MarksOK'
  <2>1. \A u \in inited' : u \in Elems(solist)' /\ so'[u].constructors_called
    BY <1>1, <1>11 DEF InitInv, MarksOK
  <2>2. Entered(s)'
    BY <1>2, <1>7, <1>8, <1>9 DEF Entered
  <2>3. ASSUME NEW u \in Elems(solist), u # s, so[u].constructors_called, u \notin inited PROVE Entered(u)'
    <3>1. PICK k \in 1..n : /\ stack[k].fn \in {"ctor", "selfwait", "unload"}
                            /\ stack[k].i > 0 /\ stack[k].si = u
      BY <1>2, <2>3 DEF InitInv, MarksOK, Entered
    <3>2. k # n
      BY <1>2, <2>3, <3>1
    <3>3. QED
      BY <1>8, <1>9, <3>1, <3>2 DEF Entered
  <2>4. QED
    BY <1>1, <1>2, <1>11, <2>1, <2>2, <2>3 DEF MarksOK
<1>13. DepsOK'
  <2> SUFFICES ASSUME NEW u \in inited, NEW j \in Nat, BoundEntry(u, j)
               PROVE  so[u].needed[j] \in inited \ {s}
    BY <1>1, <1>2 DEF DepsOK, BoundEntry
  <2>1. u \in Slots
    BY <1>11 DEF InitInv, MarksOK
  <2>2. QED
    BY <1>5, <2>1 DEF InitInv, DepsOK
<1>14. HeldOK'
  <2>1. \A d \in Slots : Closing(d)' = Closing(d)
    BY <1>1 DEF Closing
  <2>2. QED
    BY <1>1, <1>2, <1>3, <2>1 DEF InitInv, HeldOK, Holds
<1>15. FinisOK'
  <2> SUFFICES ASSUME NEW k \in 1..n, stack'[k].fn = "unload" PROVE FiniOK(stack[k].si, stack[k].i)'
    BY <1>8 DEF FinisOK
  <2>1. CASE k = n
    <3>1. \A j \in Nat : BoundEntry(s, j) => so[s].needed[j] \in inited \ {s}
      BY <1>4, <1>5 DEF InitInv, DepsOK
    <3>2. FiniOK(s, 1)'
      BY <1>1, <1>2, <3>1 DEF FiniOK, BoundEntry
    <3>3. stack'[k].si = s /\ stack'[k].i = 1
      BY <1>7, <1>9, <2>1
    <3>4. QED
      BY <3>2, <3>3
  <2>2. CASE k # n
    <3>1. stack[k] \in Frame /\ stack'[k] = stack[k] /\ k < n
      BY <1>2, <1>9, <2>2 DEF RefInv, TypeInv, TypeOK
    <3>2. PICK u \in Slots, i \in Nat : u = stack[k].si /\ i = stack[k].i
      BY <3>1 DEF Frame
    <3>3. k > 1 /\ i > 0
      <4>1. k # 1
        BY <1>2, <3>1
      <4>2. k > 1
        BY <4>1
      <4>3. QED
        BY <1>2, <3>1, <3>2, <4>2
    <3>4. FiniOK(u, i)
      BY <1>2, <3>1, <3>2 DEF InitInv, FinisOK
    <3>5. FiniOK(u, i)'
      BY <1>1, <1>2, <1>5, <3>3, <3>4 DEF FiniOK, BoundEntry
    <3>6. QED
      BY <3>1, <3>2, <3>5
  <2>3. QED
    BY <2>1, <2>2
<1>16. QED
  BY <1>2, <1>4, <1>10, <1>12, <1>13, <1>14, <1>15 DEF InitInv

\* An entry is cleared, and the library it named is still initialized.
LEMMA UnloadNeededInit ==
    ASSUME RefInv, InitInv, RefInv', NeededAcyclic', UnloadNeeded
    PROVE  InitInv'
<1>1. /\ Running("unload") /\ Top.i \in 1..Len(so[Top.si].needed) /\ UNCHANGED <<inited, handles, req, lock>>
  BY DEF UnloadNeeded, hist
<1>2. PICK n \in Nat, s \in Slots :
              /\ n = Len(stack) /\ n >= 2 /\ n \in 1..n /\ stack \in Seq(Frame) /\ stack # << >>
              /\ Top = stack[n] /\ Top.si = s /\ Top \in Frame /\ Top.i \in Nat
              /\ Top.fn = "unload" /\ stack[1].fn = "dlclose"
  BY <1>1, UnloadPhase
<1>3. PICK i \in Nat : i = Top.i /\ i > 0
  BY <1>1, <1>2
<1>4. /\ solist' = solist /\ i \in DOMAIN so[s].needed
      /\ \A u \in Slots : /\ so'[u].constructors_called = so[u].constructors_called
                          /\ u # s => so'[u].needed = so[u].needed
      /\ DOMAIN so'[s].needed = DOMAIN so[s].needed /\ so'[s].needed[i] = NULL
      /\ \A j \in DOMAIN so[s].needed : j # i => so'[s].needed[j] = so[s].needed[j]
  BY <1>2, <1>3, UnloadNeededInfo
<1>5. \A u \in Slots : \A j \in Nat : BoundEntry(u, j)' => BoundEntry(u, j) /\ so'[u].needed[j] = so[u].needed[j]
  BY <1>4, SlotFacts DEF BoundEntry
<1>6. PICK d : d = so[s].needed[i]
  OBVIOUS
<1>7. FiniOK(s, i)
  BY <1>2, <1>3 DEF InitInv, FinisOK
<1>8. d \in Slots => d \in inited
  BY <1>3, <1>4, <1>6, <1>7 DEF FiniOK, BoundEntry
<1>9. PICK f : f = [Top EXCEPT !.i = @ + 1]
  OBVIOUS
<1>10. f.fn = "unload" /\ f.si = s /\ f.i = i + 1
  BY <1>2, <1>3, <1>9 DEF Frame
<1>11. PICK g : g = Act("unload", None, d, 0)
  OBVIOUS
<1>12. g.si = d /\ g.i = 0 /\ g.fn = "unload" /\ (d \in Slots => g \in Frame)
  BY <1>11 DEF Act, Frame
<1>13. PICK m \in Nat : /\ m = Len(stack') /\ (d \in Slots => m = n + 1 /\ stack'[n + 1] = g)
                        /\ (d \notin Slots => m = n)
                        /\ \A k \in 1..n : stack'[k] = IF k = n THEN f ELSE stack[k]
  <2>1. IF d \in Slots THEN Step(g) ELSE Skip
    BY <1>2, <1>3, <1>6, <1>11 DEF UnloadNeeded, IsSlot
  <2>2. CASE d \in Slots
    <3>1. g \in Frame /\ Step(g)
      BY <1>12, <2>1, <2>2
    <3>2. /\ Len(stack') = Len(stack) + 1 /\ stack'[Len(stack) + 1] = g
          /\ \A k \in 1..Len(stack) :
                stack'[k] = IF k = Len(stack) THEN [Top EXCEPT !.i = @ + 1] ELSE stack[k]
      BY <1>2, <3>1, StepType
    <3>3. /\ Len(stack') = n + 1 /\ stack'[n + 1] = g
          /\ \A k \in 1..n : stack'[k] = IF k = n THEN f ELSE stack[k]
      BY <1>2, <1>9, <3>2, Zenon
    <3>4. n + 1 \in Nat
      BY <1>2
    <3>5. QED
      BY <2>2, <3>3, <3>4, Zenon
  <2>3. CASE d \notin Slots
    BY <1>2, <1>9, <2>1, <2>3, SkipType
  <2>4. QED
    BY <2>2, <2>3
<1>14. /\ stack'[n] = f /\ stack'[1] = stack[1] /\ stack' # << >> /\ \A k \in 1..n : k # n => stack'[k] = stack[k]
       /\ \A k \in 1..n : k \in 1..m
  BY <1>2, <1>13
<1>15. \A u : Entered(u) => Entered(u)'
  <2> SUFFICES ASSUME NEW u, Entered(u) PROVE Entered(u)'
    OBVIOUS
  <2>1. PICK k \in 1..n : stack[k].fn \in {"ctor", "selfwait", "unload"} /\ stack[k].i > 0 /\ stack[k].si = u
    BY <1>2 DEF Entered
  <2>2. CASE k = n
    BY <1>2, <1>10, <1>13, <1>14, <2>1, <2>2 DEF Entered
  <2>3. CASE k # n
    BY <1>13, <1>14, <2>1, <2>3 DEF Entered
  <2>4. QED
    BY <2>2, <2>3
<1>16. ASSUME NEW u \in Slots, NEW h \in Nat, FiniOK(u, h) PROVE FiniOK(u, h)'
  BY <1>1, <1>5, <1>16 DEF FiniOK
<1>17. FinisOK'
  <2> SUFFICES ASSUME NEW k \in 1..m, stack'[k].fn = "unload" PROVE FiniOK(stack[k].si, stack[k].i)'
    BY <1>13 DEF FinisOK
  <2>1. CASE k = n
    <3>1. FiniOK(s, i + 1)
      BY <1>3, <1>7 DEF FiniOK
    <3>2. FiniOK(s, i + 1)'
      BY <1>16, <3>1
    <3>3. stack'[k].si = s /\ stack'[k].i = i + 1
      BY <1>10, <1>14, <2>1
    <3>4. QED
      BY <3>2, <3>3
  <2>2. CASE k \in 1..n /\ k # n
    <3>1. stack[k] \in Frame /\ stack'[k] = stack[k]
      BY <1>2, <1>14, <2>2 DEF RefInv, TypeInv, TypeOK
    <3>2. PICK u \in Slots, h \in Nat : u = stack[k].si /\ h = stack[k].i
      BY <3>1 DEF Frame
    <3>3. FiniOK(u, h)
      BY <1>2, <2>2, <3>1, <3>2 DEF InitInv, FinisOK
    <3>4. FiniOK(u, h)'
      BY <1>16, <3>3
    <3>5. QED
      BY <3>1, <3>2, <3>4
  <2>3. CASE k = n + 1 /\ d \in Slots
    <3>1. FiniOK(d, 0)'
      BY <1>1, <1>8, <2>3 DEF FiniOK
    <3>2. stack'[k].si = d /\ stack'[k].i = 0
      BY <1>12, <1>13, <2>3
    <3>3. QED
      BY <3>1, <3>2
  <2>4. k \in 1..n \/ (k = n + 1 /\ d \in Slots)
    BY <1>13
  <2>5. QED
    BY <2>1, <2>2, <2>3, <2>4
<1>18. Elems(solist)' = Elems(solist)
  BY <1>4 DEF Elems
<1>19. inited \subseteq Elems(solist)
  BY DEF InitInv, MarksOK
<1>20. stack'[1].fn = "dlclose"
  BY <1>2, <1>14
<1>21. QED
  BY <1>1, <1>4, <1>5, <1>14, <1>15, <1>17, <1>18, <1>19, <1>20, UnloadKeeps

\* The soinfo goes back to the pool, its destructors done.
LEMMA UnloadFinishInit ==
    ASSUME RefInv, InitInv, RefInv', NeededAcyclic', UnloadFinish
    PROVE  InitInv'
<1>1. Running("unload") /\ Pop /\ Top.i = Len(so[Top.si].needed) + 1 /\ UNCHANGED <<inited, handles, req, lock>>
  BY DEF UnloadFinish, hist
<1>2. PICK n \in Nat, s \in Slots : /\ n = Len(stack) /\ n >= 2 /\ n \in 1..n /\ Top = stack[n] /\ Top.si = s
                                    /\ stack[1].fn = "dlclose" /\ Top.i \in Nat /\ Top.fn = "unload"
  BY <1>1, UnloadPhase
<1>3. Top.i > 0
  <2>1. so[s].needed \in Seq(Slots \cup {NULL, RAW})
    BY DEF RefInv, TypeInv, TypeOK, Soinfo
  <2>2. QED
    BY <1>1, <1>2, <2>1
<1>4. s \notin inited
  BY <1>2, <1>3 DEF InitInv, FinisOK, FiniOK
<1>5. /\ Elems(solist)' = Elems(solist) \ {s}
      /\ \A u \in Slots : /\ so'[u].needed = so[u].needed
                          /\ so'[u].constructors_called = so[u].constructors_called
  BY <1>2, UnloadFinishInfo
<1>6. /\ Len(stack') = n - 1 /\ stack' # << >>
      /\ \A k \in 1..(n - 1) : stack'[k] = stack[k] /\ k \in 1..n /\ k # n
  BY <1>1, <1>2, PopShape
<1>7. stack'[1] = stack[1]
  BY <1>2, <1>6
<1>8. inited \subseteq Elems(solist)'
  BY <1>4, <1>5 DEF InitInv, MarksOK
<1>9. \A u \in Slots : \A j \in Nat : /\ BoundEntry(u, j)' => BoundEntry(u, j)
                                      /\ so'[u].needed[j] = so[u].needed[j]
  BY <1>5 DEF BoundEntry
<1>10. \A u \in Elems(solist)' : Entered(u) => Entered(u)'
  <2> SUFFICES ASSUME NEW u, u # s, Entered(u) PROVE Entered(u)'
    BY <1>5
  <2>1. PICK k \in 1..n : /\ stack[k].fn \in {"ctor", "selfwait", "unload"} /\ stack[k].i > 0 /\ stack[k].si = u
    BY <1>2 DEF Entered
  <2>2. k # n
    BY <1>2, <2>1
  <2>3. k \in 1..(n - 1)
    BY <2>2
  <2>4. QED
    BY <1>6, <2>1, <2>3 DEF Entered
<1>11. FinisOK'
  <2> SUFFICES ASSUME NEW k \in 1..(n - 1), stack[k].fn = "unload" PROVE FiniOK(stack[k].si, stack[k].i)'
    BY <1>6 DEF FinisOK
  <2>1. stack[k] \in Frame /\ stack'[k] = stack[k] /\ k \in 1..n
    BY <1>2, <1>6 DEF RefInv, TypeInv, TypeOK
  <2>2. PICK u \in Slots, i \in Nat : u = stack[k].si /\ i = stack[k].i
    BY <2>1 DEF Frame
  <2>3. FiniOK(u, i)
    BY <1>2, <2>1, <2>2 DEF InitInv, FinisOK
  <2>4. FiniOK(u, i)'
    BY <1>1, <1>9, <2>3 DEF FiniOK
  <2>5. QED
    BY <2>1, <2>2, <2>4
<1>12. Elems(solist)' \subseteq Elems(solist)
  BY <1>5
<1>13. QED
  BY <1>1, <1>2, <1>5, <1>6, <1>7, <1>8, <1>9, <1>10, <1>11, <1>12, UnloadKeeps

-----------------------------------------------------------------------------
(* The theorems.                                                           *)

\* Initially only libdl is listed, no library is marked and none is held.
LEMMA InitInit == Init => InitInv
<1> SUFFICES ASSUME Init PROVE InitInv
  OBVIOUS
<1>1. solist = <<Libdl>> /\ stack = << >> /\ Len(stack) = 0 /\ inited = {}
      /\ lock = None /\ req = [t \in Threads |-> None] /\ handles = [s \in Slots |-> 0]
  BY DEF Init
<1>2. Elems(solist) = {Libdl}
  BY <1>1 DEF Elems
<1>3. ~so[Libdl].constructors_called /\ Elems(so[Libdl].needed) = {}
  <2>1. so = [s \in Slots |-> IF s = Libdl THEN libdl_info ELSE ZeroInfo]
    BY DEF Init
  <2>2. so[Libdl] = libdl_info
    BY <2>1, SlotFacts
  <2>3. ~libdl_info.constructors_called /\ DOMAIN libdl_info.needed = {}
    BY DEF libdl_info
  <2>4. QED
    BY <2>2, <2>3 DEF Elems
<1>4. NeededAcyclic
  <2> SUFFICES ASSUME NEW S \in (SUBSET {Libdl}) \ {{}} PROVE \E s \in S : Elems(so[s].needed) \cap S = {}
    BY <1>2 DEF NeededAcyclic
  <2>1. Libdl \in S
    OBVIOUS
  <2>2. QED
    BY <1>3, <2>1
<1>5. MarksOK /\ DepsOK
  BY <1>1, <1>2, <1>3 DEF MarksOK, DepsOK
<1>6. HeldOK
  BY <1>1 DEF HeldOK, Holds, Closing
<1>7. LinkMarks /\ CtorsOK /\ OpenedOK /\ FinisOK
  BY <1>1 DEF LinkMarks, CtorsOK, OpenedOK, FinisOK
<1>8. QED
  BY <1>4, <1>5, <1>6, <1>7 DEF InitInv

\* Every step keeps the invariant.
LEMMA InitStep == RefInv /\ InitInv /\ [Next]_vars => InitInv'
<1> SUFFICES ASSUME RefInv, InitInv, [Next]_vars PROVE InitInv'
  OBVIOUS
<1>1. RefInv' /\ NeededAcyclic'
  BY RefStep, AcyclicStep DEF InitInv
<1>2. ASSUME NEW t \in Threads, Call(t) \/ Acquire(t) PROVE InitInv'
  BY <1>1, <1>2, CallInit, AcquireInit
<1>3. CASE Find \/ Load \/ Link
  BY <1>1, <1>3, LinkStepsInit
<1>4. CASE Ctor
  BY <1>1, <1>4, CtorEndSteps, CtorStepsInit DEF Ctor
<1>5. CASE Dlopen \/ DlcloseReturn
  BY <1>1, <1>5, DlopenFoundInit, ReleaseInit DEF Dlopen
<1>6. CASE UnloadLibdl \/ UNCHANGED vars
  <2>1. UNCHANGED <<so, solist, stack, inited, handles, req, lock>>
    BY <1>6 DEF UnloadLibdl, vars, lib, ctl, hist
  <2>2. HeldOK'
    BY <2>1, HeldKept DEF InitInv
  <2>3. QED
    BY <2>1, <2>2, SameCoreInit DEF RefInv
<1>7. CASE Unload
  BY <1>1, <1>6, <1>7, UnloadSharedInit, UnloadEnterInit, UnloadNeededInit, UnloadFinishInit DEF Unload
<1>8. QED
  BY <1>2, <1>3, <1>4, <1>5, <1>6, <1>7 DEF Next, OwnerStep

\* The invariant holds in every reachable state.
LEMMA InitAlways == Spec => [](RefInv /\ InitInv)
<1>1. Init => RefInv /\ InitInv
  BY RefInit, InitInit
<1>2. (RefInv /\ InitInv) /\ [Next]_vars => (RefInv /\ InitInv)'
  BY RefStep, InitStep
<1>3. QED
  BY <1>1, <1>2, PTL DEF Spec

\* The bound DT_NEEDED entries never form a cycle, whatever cycles the
\* libraries' own entries have and whatever is unloaded between: the
\* recursions over them in lookup, constructors and unload end.
THEOREM NoNeededCycle == Spec => []NeededAcyclic
<1>1. RefInv /\ InitInv => NeededAcyclic
  BY DEF InitInv
<1>2. QED
  BY <1>1, InitAlways, PTL

\* Constructors have run in every library the application holds and in all
\* it needs, although apkenv_call_constructors_recursive turns back at every
\* library marked constructors_called, also at one whose constructors are
\* only about to run.
THEOREM HeldAreInitialized == Spec => []DepsInitialized
<1>1. RefInv /\ InitInv => DepsInitialized
  <2> SUFFICES ASSUME RefInv, InitInv, NEW s \in Slots
               PROVE  /\ Holds(s) => s \in inited
                      /\ s \in inited => \A d \in Elems(so[s].needed) : IsSlot(d) => d \in inited
    BY DEF DepsInitialized
  <2>1. Holds(s) => s \in inited
    BY DEF InitInv, HeldOK
  <2>2. ASSUME s \in inited, NEW d \in Elems(so[s].needed), IsSlot(d) PROVE d \in inited
    <3>1. PICK j \in DOMAIN so[s].needed : so[s].needed[j] = d
      BY DEF Elems
    <3>2. so[s].needed \in Seq(Slots \cup {NULL, RAW})
      BY DEF RefInv, TypeInv, TypeOK, Soinfo
    <3>3. j \in Nat
      BY <3>1, <3>2
    <3>4. BoundEntry(s, j)
      BY <2>2, <3>1 DEF BoundEntry, IsSlot
    <3>5. QED
      BY <2>2, <3>1, <3>3, <3>4 DEF InitInv, DepsOK
  <2>3. QED
    BY <2>1, <2>2
<1>2. QED
  BY <1>1, InitAlways, PTL

\* Constructors run in a library that is not initialized, so once per load,
\* and apkenv_unload_library calls destructors only where they have run.
THEOREM ConstructorsPaired == Spec => InitFiniPaired
<1>1. (RefInv /\ InitInv) /\ [Next]_vars =>
         [ /\ CtorRun => Top.si \notin inited
           /\ UnloadEnter => Top.si \in inited ]_vars
  <2> SUFFICES ASSUME RefInv, InitInv, [Next]_vars
               PROVE  /\ CtorRun => Top.si \notin inited
                      /\ UnloadEnter => Top.si \in inited
    OBVIOUS
  <2>1. RefInv' /\ NeededAcyclic'
    BY RefStep, AcyclicStep DEF InitInv
  <2>2. QED
    BY <2>1, CtorEndSteps, UnloadEnterInit
<1>2. QED
  BY <1>1, InitAlways, PTL DEF Spec, InitFiniPaired
=============================================================================
